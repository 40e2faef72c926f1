-------------------------- MODULE ClientLoopProofs --------------------------
(* What a process that was asked to stop passes on to the next one, and    *)
(* which torrents are listed and checked meanwhile.                        *)
EXTENDS ClientLoop, SequenceTheorems, FiniteSetTheorems, TLAPS

TypeOK ==
  /\ phase \in {"down", "running", "stopping"}
  /\ files \in Seq(Torrent) /\ saved \in Seq([id : Torrent, state : State])
  /\ state \in [Torrent -> State] /\ turns \in [Torrent -> Nat]
  /\ http \in 0..MaxHttp /\ was \subseteq Torrent

\* A torrent is listed once.
Once == \A i, j \in DOMAIN files : files[i] = files[j] => i = j

\* Only listed and open torrents are checked; a process that does not run lists none.
Checked ==
  /\ \A t \in Torrent : turns[t] > 0 => t \in Listed /\ state[t] \in Open
  /\ phase = "down" => files = <<>>

\* The saved state names every torrent once, and says of just those in was that they
\* are open.
SavedOpen == {t \in Torrent : \E i \in DOMAIN saved : saved[i].id = t /\ saved[i].state \in Open}
Resumable ==
  /\ \A i, j \in DOMAIN saved : saved[i].id = saved[j].id => i = j
  /\ phase # "running" => SavedOpen = was

LoopInv == TypeOK /\ Once /\ Checked /\ Resumable

-----------------------------------------------------------------------------
LEMMA Opened ==
  ASSUME NEW s \in SUBSET Torrent, NEW f \in [Torrent -> State], NEW k \in [Torrent -> Nat], OpenAll(s, f, k)
  PROVE  /\ state' \in [Torrent -> State] /\ turns' \in [Torrent -> Nat]
         /\ \A t \in s : state'[t] \in Open
         /\ \A t \in Torrent \ s : state'[t] = f[t] /\ turns'[t] = k[t]
<1>1. PICK c \in [s -> 0..MaxTurns] :
        /\ turns' = [t \in Torrent |-> IF t \in s THEN c[t] ELSE k[t]]
        /\ state' = [t \in Torrent |-> IF t \notin s THEN f[t]
                                       ELSE IF c[t] = 0 THEN "running" ELSE "hashing"]
  BY DEF OpenAll
<1>2. {"running", "hashing"} \subseteq State /\ {"running", "hashing"} \subseteq Open
  BY DEF State, Open
<1>3. turns' \in [Torrent -> Nat]
  BY <1>1, LoopAssumption DEF LoopAssumption
<1>4. state' \in [Torrent -> State]
  BY <1>1, <1>2
<1>5. \A t \in s : state'[t] \in Open
  BY <1>1, <1>2
<1> QED
  BY <1>1, <1>3, <1>4, <1>5

LEMMA OpenedOne ==
  ASSUME TypeOK, NEW t \in Torrent, OpenAll({t}, state, turns)
  PROVE  /\ state' \in [Torrent -> State] /\ turns' \in [Torrent -> Nat]
         /\ \A u \in Torrent :
              turns'[u] > 0 => (u = t /\ state'[u] \in Open) \/ (turns[u] > 0 /\ state'[u] = state[u])
<1> DEFINE one == {t}
<1>1. one \in SUBSET Torrent /\ (\A u \in Torrent : u = t <=> u \in one)
  OBVIOUS
<1>2. OpenAll(one, state, turns)
  OBVIOUS
<1> HIDE DEF one
<1>3. state \in [Torrent -> State] /\ turns \in [Torrent -> Nat]
  BY DEF TypeOK
<1>4. /\ state' \in [Torrent -> State] /\ turns' \in [Torrent -> Nat]
      /\ \A u \in one : state'[u] \in Open
      /\ \A u \in Torrent \ one : state'[u] = state[u] /\ turns'[u] = turns[u]
  BY <1>1, <1>2, <1>3, Opened
<1> QED
  BY <1>1, <1>4

LEMMA ListedType ==
  ASSUME files \in Seq(Torrent)
  PROVE  Listed \subseteq Torrent /\ \A f : Chosen(f) \subseteq SUBSET Listed /\ OpenOnes(f) \subseteq Listed
BY DEF Listed, Chosen, OpenOnes

LEMMA HttpType ==
  ASSUME http \in 0..MaxHttp, NEW n \in Nat, StopEvents(n)
  PROVE  http' \in 0..MaxHttp
BY LoopAssumption DEF StopEvents, LoopAssumption

\* One torrent is taken out of the list.
Without(l, i) == SubSeq(l, 1, i - 1) \o SubSeq(l, i + 1, Len(l))

LEMMA TakenOut ==
  ASSUME NEW l \in Seq(Torrent), NEW i \in DOMAIN l
  PROVE  /\ Without(l, i) \in Seq(Torrent)
         /\ (\A j, k \in DOMAIN l : l[j] = l[k] => j = k)
              => \A j, k \in DOMAIN Without(l, i) : Without(l, i)[j] = Without(l, i)[k] => j = k
         /\ \A t : t # l[i] /\ (\E j \in DOMAIN l : l[j] = t)
                  => \E j \in DOMAIN Without(l, i) : Without(l, i)[j] = t
<1> DEFINE a == SubSeq(l, 1, i - 1)
           b == SubSeq(l, i + 1, Len(l))
           m == Without(l, i)
           at(j) == IF j < i THEN j ELSE j + 1
<1>1. DOMAIN l = 1..Len(l) /\ Len(l) \in Nat /\ i \in 1..Len(l)
  OBVIOUS
<1>2. /\ a \in Seq(Torrent) /\ Len(a) = i - 1 /\ \A j \in 1..(i - 1) : a[j] = l[j]
  BY <1>1
<1>3. /\ b \in Seq(Torrent) /\ Len(b) = Len(l) - i /\ \A j \in 1..(Len(l) - i) : b[j] = l[i + j]
  BY <1>1
<1>0. m = a \o b
  BY DEF Without
<1> HIDE DEF a, b, m
<1>4. m \in Seq(Torrent) /\ Len(m) = Len(l) - 1 /\ DOMAIN m = 1..(Len(l) - 1)
  <2>1. m \in Seq(Torrent) /\ Len(m) = Len(a) + Len(b)
    BY <1>0, <1>2, <1>3, ConcatProperties
  <2>2. Len(a) + Len(b) = Len(l) - 1
    BY <1>1, <1>2, <1>3
  <2> QED
    BY <2>1, <2>2
<1>5. \A j \in 1..(Len(l) - 1) : m[j] = l[at(j)]
  <2>1. \A j \in 1..(Len(l) - 1) : m[j] = IF j <= i - 1 THEN a[j] ELSE b[j - (i - 1)]
    <3>1. \A j \in 1..(Len(a) + Len(b)) : m[j] = IF j <= Len(a) THEN a[j] ELSE b[j - Len(a)]
      BY <1>0, <1>2, <1>3, ConcatProperties
    <3>2. Len(a) + Len(b) = Len(l) - 1 /\ Len(a) = i - 1
      BY <1>1, <1>2, <1>3
    <3> QED
      BY <3>1, <3>2
  <2>2. ASSUME NEW j \in 1..(Len(l) - 1) PROVE m[j] = l[at(j)]
    <3>1. CASE j < i
      BY <1>1, <1>2, <2>1, <3>1
    <3>2. CASE ~(j < i)
      <4>1. j - (i - 1) \in 1..(Len(l) - i) /\ i + (j - (i - 1)) = j + 1 /\ ~(j <= i - 1) /\ ~(j < i)
        BY <1>1, <3>2
      <4> QED
        BY <1>3, <2>1, <4>1
    <3> QED
      BY <3>1, <3>2
  <2> QED
    BY <2>2
<1>6. \A j \in 1..(Len(l) - 1) : at(j) \in 1..Len(l)
  BY <1>1
<1>7. \A j, k \in 1..(Len(l) - 1) : at(j) = at(k) => j = k
  BY <1>1
<1>8. ASSUME NEW k \in 1..Len(l), k # i PROVE \E j \in 1..(Len(l) - 1) : at(j) = k
  <2>1. CASE k < i
    BY <1>1, <2>1
  <2>2. CASE k > i
    <3>1. k - 1 \in 1..(Len(l) - 1) /\ at(k - 1) = k
      BY <1>1, <2>2
    <3> QED
      BY <3>1
  <2> QED
    BY <1>1, <1>8, <2>1, <2>2
<1> HIDE DEF at
<1>9. ASSUME \A j, k \in DOMAIN l : l[j] = l[k] => j = k PROVE \A j, k \in DOMAIN m : m[j] = m[k] => j = k
  <2> SUFFICES ASSUME NEW j \in 1..(Len(l) - 1), NEW k \in 1..(Len(l) - 1), m[j] = m[k] PROVE j = k
    BY <1>4
  <2>1. at(j) \in DOMAIN l /\ at(k) \in DOMAIN l /\ l[at(j)] = l[at(k)]
    BY <1>1, <1>5, <1>6
  <2>2. at(j) = at(k)
    BY <1>9, <2>1
  <2> QED
    BY <1>7, <2>2
<1>10. ASSUME NEW t, t # l[i], \E j \in DOMAIN l : l[j] = t PROVE \E j \in DOMAIN m : m[j] = t
  <2>1. PICK k \in 1..Len(l) : l[k] = t /\ k # i
    BY <1>1, <1>10
  <2>2. PICK j \in 1..(Len(l) - 1) : at(j) = k
    BY <1>8, <2>1
  <2> QED
    BY <1>4, <1>5, <2>1, <2>2
<1> QED
  BY <1>4, <1>9, <1>10 DEF m

LEMMA Added ==
  ASSUME NEW l \in Seq(Torrent), NEW t \in Torrent, \A i \in DOMAIN l : l[i] # t,
         \A i, j \in DOMAIN l : l[i] = l[j] => i = j
  PROVE  /\ Append(l, t) \in Seq(Torrent)
         /\ \A i, j \in DOMAIN Append(l, t) : Append(l, t)[i] = Append(l, t)[j] => i = j
         /\ \A i \in DOMAIN l : i \in DOMAIN Append(l, t) /\ Append(l, t)[i] = l[i]
         /\ \E i \in DOMAIN Append(l, t) : Append(l, t)[i] = t
<1> DEFINE m == Append(l, t)
<1>1. /\ m \in Seq(Torrent) /\ DOMAIN m = 1..(Len(l) + 1) /\ DOMAIN l = 1..Len(l) /\ Len(l) \in Nat
      /\ m[Len(l) + 1] = t /\ \A i \in 1..Len(l) : m[i] = l[i]
  OBVIOUS
<1>2. \A i \in DOMAIN m : i \in DOMAIN l \/ i = Len(l) + 1
  BY <1>1
<1>3. \A i \in DOMAIN l : i \in DOMAIN m
  BY <1>1
<1>4. Len(l) + 1 \in DOMAIN m
  BY <1>1
<1> HIDE DEF m
<1>5. \A i, j \in DOMAIN m : m[i] = m[j] => i = j
  BY <1>1, <1>2
<1> QED
  BY <1>1, <1>3, <1>4, <1>5 DEF m

\* While the list and the saved state stay, and no torrent that is checked is closed.
LEMMA KeepsListed ==
  ASSUME LoopInv, TypeOK', UNCHANGED <<files, saved, was>>, phase' = "running" \/ phase' = phase, phase # "down",
         \A t \in Torrent : turns'[t] > 0 => t \in Listed /\ state'[t] \in Open
  PROVE  LoopInv'
BY DEF LoopInv, Once, Checked, Resumable, Listed, SavedOpen

-----------------------------------------------------------------------------
LEMMA StartInv ==
  ASSUME LoopInv, Start
  PROVE  LoopInv' /\ OpenOnes(state)' = was
<1> DEFINE f == [t \in Torrent |-> IF \E i \in DOMAIN saved : saved[i].id = t
                   THEN saved[CHOOSE i \in DOMAIN saved : saved[i].id = t].state
                   ELSE "stopped"]
           s == {t \in Torrent : f[t] \in Open}
<1>1. TypeOK /\ phase = "down" /\ SavedOpen = was /\ files = <<>>
  BY DEF LoopInv, Resumable, Checked, Start
<1>2. /\ DOMAIN saved = 1..Len(saved) /\ Len(saved) \in Nat
      /\ \A i \in DOMAIN saved : saved[i].id \in Torrent /\ saved[i].state \in State
  <2>1. saved \in Seq([id : Torrent, state : State])
    BY <1>1 DEF TypeOK
  <2>2. \A i \in 1..Len(saved) : saved[i] \in [id : Torrent, state : State]
    BY <2>1, ElementOfSeq
  <2>3. \A r \in [id : Torrent, state : State] : r.id \in Torrent /\ r.state \in State
    OBVIOUS
  <2> QED
    BY <2>1, <2>2, <2>3
<1>3. ASSUME NEW i \in DOMAIN saved PROVE f[saved[i].id] = saved[i].state
  <2>1. \A j \in DOMAIN saved : saved[j].id = saved[i].id => j = i
    BY DEF LoopInv, Resumable
  <2>2. (CHOOSE j \in DOMAIN saved : saved[j].id = saved[i].id) = i
    BY <2>1
  <2> QED
    BY <1>2, <2>2
<1>4. \A t \in Torrent : (~\E i \in DOMAIN saved : saved[i].id = t) => f[t] = "stopped"
  OBVIOUS
<1>5. OpenAll(s, f, turns) /\ StopEvents(1)
  BY DEF Start
<1> HIDE DEF f
<1>6. f \in [Torrent -> State]
  <2>1. ASSUME NEW t \in Torrent PROVE f[t] \in State
    BY <1>2, <1>3, <1>4 DEF State
  <2> QED
    BY <2>1 DEF f
<1>7. s = SavedOpen
  <2>1. "stopped" \notin Open
    BY DEF Open
  <2>2. ASSUME NEW t \in Torrent PROVE f[t] \in Open <=> t \in SavedOpen
    BY <1>3, <1>4, <2>1 DEF SavedOpen
  <2> QED
    BY <2>2 DEF SavedOpen
<1> HIDE DEF s
<1>8. s \in SUBSET Torrent
  BY <1>7 DEF SavedOpen
<1>9. /\ state' \in [Torrent -> State] /\ turns' \in [Torrent -> Nat]
      /\ \A t \in s : state'[t] \in Open
      /\ \A t \in Torrent \ s : state'[t] = f[t] /\ turns'[t] = turns[t]
  BY <1>1, <1>5, <1>6, <1>8, Opened DEF TypeOK
<1>10. files' = [i \in DOMAIN saved |-> saved[i].id]
  BY DEF Start
<1>11. files' \in Seq(Torrent) /\ DOMAIN files' = DOMAIN saved /\ \A i \in DOMAIN saved : files'[i] = saved[i].id
  BY <1>2, <1>10, IsASeq
<1>12. http' \in 0..MaxHttp
  BY <1>1, <1>5, HttpType DEF TypeOK
<1>13. TypeOK'
  BY <1>1, <1>9, <1>11, <1>12 DEF TypeOK, Start
<1>14. Once'
  BY <1>11 DEF Once, LoopInv, Resumable
<1>15. Listed' = {t \in Torrent : \E i \in DOMAIN saved : saved[i].id = t}
  BY <1>2, <1>11 DEF Listed
<1>16. \A t \in Torrent : t \in s => t \in Listed'
  BY <1>7, <1>15 DEF SavedOpen
<1>17. Checked'
  <2>1. \A t \in Torrent : turns[t] = 0
    BY <1>1 DEF LoopInv, Checked, Listed, TypeOK
  <2>2. phase' = "running"
    BY DEF Start
  <2> QED
    BY <1>9, <1>16, <2>1, <2>2 DEF Checked
<1>18. Resumable'
  BY DEF Resumable, Start
<1>19. OpenOnes(state)' = was
  <2>1. \A t \in Torrent \ s : state'[t] \notin Open
    BY <1>9, <1>6, <1>7, <1>3, <1>4 DEF s
  <2>2. OpenOnes(state)' = {t \in Listed' : state'[t] \in Open}
    BY DEF OpenOnes
  <2>3. Listed' \subseteq Torrent /\ s \subseteq Torrent
    BY <1>8, <1>15
  <2>4. ASSUME NEW t \in Torrent PROVE t \in Listed' /\ state'[t] \in Open <=> t \in s
    BY <1>9, <1>16, <2>1
  <2>5. OpenOnes(state)' = s
    BY <2>2, <2>3, <2>4
  <2> QED
    BY <1>1, <1>7, <2>5
<1> QED
  BY <1>13, <1>14, <1>17, <1>18, <1>19 DEF LoopInv

LEMMA HashInv ==
  ASSUME LoopInv, NEW i \in DOMAIN files, Hash(i)
  PROVE  LoopInv'
<1> DEFINE t == files[i]
<1>1. /\ TypeOK /\ phase # "down" /\ t \in Torrent /\ turns[t] > 0
      /\ turns' = [turns EXCEPT ![t] = @ - 1]
      /\ state' = [state EXCEPT ![t] = IF turns[t] = 1 THEN "running" ELSE @]
      /\ UNCHANGED <<phase, files, http, saved, was>>
  BY DEF Hash, Up, LoopInv, TypeOK
<1> HIDE DEF t
<1>2. "running" \in State /\ "running" \in Open
  BY DEF State, Open
<1>3. TypeOK'
  BY <1>1, <1>2 DEF TypeOK
<1>4. \A u \in Torrent : turns'[u] > 0 => turns[u] > 0 /\ (state'[u] = state[u] \/ state'[u] = "running")
  BY <1>1 DEF TypeOK
<1> QED
  BY <1>1, <1>2, <1>3, <1>4, KeepsListed DEF LoopInv, Checked

\* A torrent that is closed is not checked any more.
LEMMA ClosedIsUnchecked ==
  ASSUME TypeOK, Checked, NEW t \in Torrent, NEW v \in State, Closing(t, v)
  PROVE  /\ state' \in [Torrent -> State] /\ turns' \in [Torrent -> Nat] /\ http' \in 0..MaxHttp
         /\ turns'[t] = 0 /\ \A u \in Torrent \ {t} : turns'[u] = turns[u] /\ state'[u] = state[u]
<1>1. state' = [state EXCEPT ![t] = v] /\ turns' = [turns EXCEPT ![t] = 0]
  BY DEF Closing
<1>2. http' \in 0..MaxHttp
  BY HttpType DEF Closing, TypeOK
<1> QED
  BY <1>1, <1>2 DEF TypeOK

LEMMA RatioReachedInv ==
  ASSUME LoopInv, NEW t \in Torrent, RatioReached(t)
  PROVE  LoopInv'
<1>1. TypeOK /\ Checked /\ phase # "down" /\ Closing(t, "stopped") /\ UNCHANGED <<phase, files, saved, was>>
  BY DEF RatioReached, LoopInv, Up
<1>2. "stopped" \in State
  BY DEF State
<1>3. TypeOK'
  BY <1>1, <1>2, ClosedIsUnchecked DEF TypeOK
<1>4. \A u \in Torrent : turns'[u] > 0 => u \in Listed /\ state'[u] \in Open
  BY <1>1, <1>2, ClosedIsUnchecked DEF Checked
<1> QED
  BY <1>1, <1>3, <1>4, KeepsListed

LEMMA DiskFullInv ==
  ASSUME LoopInv, NEW t \in Torrent, DiskFull(t)
  PROVE  LoopInv'
<1>1. TypeOK /\ Checked /\ phase # "down" /\ turns[t] = 0 /\ state' = [state EXCEPT ![t] = "paused"]
      /\ UNCHANGED <<phase, files, turns, http, saved, was>>
  BY DEF DiskFull, LoopInv, Up
<1>2. TypeOK'
  BY <1>1 DEF TypeOK, State
<1>3. \A u \in Torrent : turns'[u] > 0 => u \in Listed /\ state'[u] \in Open
  BY <1>1 DEF Checked, TypeOK
<1> QED
  BY <1>1, <1>2, <1>3, KeepsListed

\* A torrent is added to the list, or taken out, while the others stay.
LEMMA Relisted ==
  ASSUME LoopInv, TypeOK', Once', UNCHANGED <<phase, saved, was>>, phase # "down",
         \A t \in Torrent : turns'[t] > 0 => t \in Listed' /\ state'[t] \in Open
  PROVE  LoopInv'
BY DEF LoopInv, Checked, Resumable, SavedOpen

LEMMA OpenTorrentInv ==
  ASSUME LoopInv, NEW t \in Torrent, OpenTorrent(t)
  PROVE  LoopInv'
<1>1. /\ TypeOK /\ Checked /\ Once /\ phase # "down" /\ t \notin Listed /\ files' = Append(files, t)
      /\ UNCHANGED <<phase, http, saved, was>>
  BY DEF OpenTorrent, LoopInv, Up
<1>2. state' \in [Torrent -> State] /\ turns' \in [Torrent -> Nat]
      /\ \A u \in Torrent : turns'[u] > 0 => (u = t /\ state'[u] \in Open) \/ (turns[u] > 0 /\ state'[u] = state[u])
  <2>1. CASE OpenAll({t}, state, turns)
    BY <1>1, <2>1, OpenedOne
  <2>2. CASE state' = [state EXCEPT ![t] = "queued"] /\ UNCHANGED turns
    <3>1. turns[t] = 0 /\ "queued" \in State
      BY <1>1 DEF Checked, TypeOK, State
    <3> QED
      BY <1>1, <2>2, <3>1 DEF TypeOK
  <2> QED
    BY <2>1, <2>2 DEF OpenTorrent
<1>3. files \in Seq(Torrent) /\ \A i \in DOMAIN files : files[i] # t
  BY <1>1 DEF TypeOK, Listed
<1>4. files' \in Seq(Torrent) /\ Once' /\ \A u \in Torrent : u \in Listed \/ u = t => u \in Listed'
  BY <1>1, <1>3, Added DEF Once, Listed
<1>5. TypeOK'
  BY <1>1, <1>2, <1>4 DEF TypeOK
<1> QED
  BY <1>1, <1>2, <1>4, <1>5, Relisted DEF Checked

LEMMA CloseTorrentInv ==
  ASSUME LoopInv, NEW t \in Torrent, CloseTorrent(t)
  PROVE  LoopInv'
<1>1. TypeOK /\ Checked /\ Once /\ phase # "down" /\ Closing(t, "stopped") /\ UNCHANGED <<phase, saved, was>>
  BY DEF CloseTorrent, LoopInv, Up
<1>2. PICK i \in DOMAIN files :
        files[i] = t /\ files' = SubSeq(files, 1, i - 1) \o SubSeq(files, i + 1, Len(files))
  BY DEF CloseTorrent
<1>3. files \in Seq(Torrent)
  BY <1>1 DEF TypeOK
<1>4. /\ files' \in Seq(Torrent)
      /\ (\A j, k \in DOMAIN files : files[j] = files[k] => j = k)
           => \A j, k \in DOMAIN files' : files'[j] = files'[k] => j = k
      /\ \A u : u # t /\ (\E j \in DOMAIN files : files[j] = u) => \E j \in DOMAIN files' : files'[j] = u
  <2>1. files' = Without(files, i)
    BY <1>2 DEF Without
  <2> QED
    <3>1. /\ Without(files, i) \in Seq(Torrent)
          /\ (\A j, k \in DOMAIN files : files[j] = files[k] => j = k)
               => \A j, k \in DOMAIN Without(files, i) : Without(files, i)[j] = Without(files, i)[k] => j = k
          /\ \A u : u # files[i] /\ (\E j \in DOMAIN files : files[j] = u)
                   => \E j \in DOMAIN Without(files, i) : Without(files, i)[j] = u
      BY <1>3, TakenOut
    <3> QED
      BY <1>2, <2>1, <3>1, Zenon
<1>5. Once' /\ \A u : u # t /\ u \in Listed => u \in Listed'
  BY <1>1, <1>4 DEF Once, Listed
<1>6. "stopped" \in State
  BY DEF State
<1>7. TypeOK'
  BY <1>1, <1>4, <1>6, ClosedIsUnchecked DEF TypeOK
<1>8. \A u \in Torrent : turns'[u] > 0 => u \in Listed' /\ state'[u] \in Open
  BY <1>1, <1>5, <1>6, ClosedIsUnchecked DEF Checked
<1> QED
  BY <1>1, <1>5, <1>7, <1>8, Relisted

LEMMA SetStateInv ==
  ASSUME LoopInv, NEW t \in Torrent, NEW v \in State, SetState(t, v)
  PROVE  LoopInv'
<1>1. TypeOK /\ Checked /\ phase # "down" /\ t \in Listed /\ UNCHANGED <<phase, files, saved, was>>
  BY DEF SetState, LoopInv, Up
<1>2. CASE v \in {"queued", "stopped"}
  <2>1. Closing(t, v)
    BY <1>2 DEF SetState
  <2>2. TypeOK'
    BY <1>1, <2>1, ClosedIsUnchecked DEF TypeOK
  <2>3. \A u \in Torrent : turns'[u] > 0 => u \in Listed /\ state'[u] \in Open
    BY <1>1, <2>1, ClosedIsUnchecked DEF Checked
  <2> QED
    BY <1>1, <2>2, <2>3, KeepsListed
<1>3. CASE v \notin {"queued", "stopped"}
  <2>1. v \in Open /\ http' = http
    BY <1>3 DEF SetState, State, Open
  <2>2. /\ state' \in [Torrent -> State] /\ turns' \in [Torrent -> Nat]
        /\ \A u \in Torrent : turns'[u] > 0 => (u = t /\ state'[u] \in Open) \/ (turns[u] > 0 /\ state'[u] = state[u])
    <3>1. CASE state' = [state EXCEPT ![t] = v] /\ UNCHANGED turns
      BY <1>1, <2>1, <3>1 DEF TypeOK
    <3>2. CASE OpenAll({t}, state, turns)
      BY <1>1, <3>2, OpenedOne
    <3> QED
      BY <1>3, <3>1, <3>2 DEF SetState
  <2>3. TypeOK'
    BY <1>1, <2>1, <2>2 DEF TypeOK
  <2> QED
    BY <1>1, <2>2, <2>3, KeepsListed DEF Checked
<1> QED
  BY <1>2, <1>3

LEMMA UpdateStatesInv ==
  ASSUME LoopInv, UpdateStates
  PROVE  LoopInv'
<1>1. TypeOK /\ Checked /\ phase = "running" /\ UNCHANGED <<phase, files, http, saved, was>>
  BY DEF UpdateStates, LoopInv
<1>2. PICK s \in Chosen(state) : OpenAll(s, state, turns)
  BY DEF UpdateStates
<1>3. s \in SUBSET Listed /\ s \in SUBSET Torrent
  BY <1>1, <1>2, ListedType DEF TypeOK
<1>4. /\ state' \in [Torrent -> State] /\ turns' \in [Torrent -> Nat]
      /\ \A t \in s : state'[t] \in Open
      /\ \A t \in Torrent \ s : state'[t] = state[t] /\ turns'[t] = turns[t]
  BY <1>1, <1>2, <1>3, Opened DEF TypeOK
<1>5. TypeOK'
  BY <1>1, <1>4 DEF TypeOK
<1> QED
  BY <1>1, <1>3, <1>4, <1>5, KeepsListed DEF Checked

\* The turn that stops saves what is open before it closes the torrents.
LEMMA StopTurnInv ==
  ASSUME LoopInv, StopTurn
  PROVE  LoopInv'
<1> DEFINE f == [t \in Torrent |-> IF state[t] \in Open THEN "stopped" ELSE state[t]]
           none == [t \in Torrent |-> 0]
<1>1. /\ TypeOK /\ Once /\ phase = "running" /\ phase' = "stopping" /\ was' = OpenOnes(state) /\ files' = files
      /\ saved' = [i \in DOMAIN files |-> [id |-> files[i], state |-> state[files[i]]]]
      /\ StopEvents(Cardinality(OpenOnes(state)))
  BY DEF StopTurn, SaveState, LoopInv
<1>2. PICK s \in {{}} \cup Chosen(f) : OpenAll(s, f, none)
  BY DEF StopTurn
<1>3. f \in [Torrent -> State] /\ none \in [Torrent -> Nat] /\ \A t \in Torrent : none[t] = 0
  BY <1>1 DEF TypeOK, State
<1> HIDE DEF f, none
<1>4. s \in SUBSET Listed /\ s \in SUBSET Torrent
  BY <1>1, <1>2, ListedType DEF TypeOK
<1>5. /\ state' \in [Torrent -> State] /\ turns' \in [Torrent -> Nat]
      /\ \A t \in s : state'[t] \in Open
      /\ \A t \in Torrent \ s : turns'[t] = 0
  BY <1>2, <1>3, <1>4, Opened
<1>6. http' \in 0..MaxHttp
  <2>1. OpenOnes(state) \subseteq Torrent
    BY <1>1, ListedType DEF TypeOK
  <2>2. Cardinality(OpenOnes(state)) \in Nat
    BY <2>1, LoopAssumption, FS_Subset, FS_CardinalityType DEF LoopAssumption
  <2> QED
    BY <1>1, <2>2, HttpType DEF TypeOK
<1>7. /\ DOMAIN files = 1..Len(files) /\ Len(files) \in Nat
      /\ \A i \in DOMAIN files : files[i] \in Torrent /\ state[files[i]] \in State
  BY <1>1 DEF TypeOK
<1>8. /\ saved' \in Seq([id : Torrent, state : State]) /\ DOMAIN saved' = DOMAIN files
      /\ \A i \in DOMAIN files : saved'[i].id = files[i] /\ saved'[i].state = state[files[i]]
  BY <1>1, <1>7, IsASeq
<1>9. TypeOK'
  BY <1>1, <1>5, <1>6, <1>8, ListedType DEF TypeOK
<1>10. Checked'
  BY <1>1, <1>4, <1>5 DEF Checked, Listed
<1>11. Resumable'
  <2>1. SavedOpen' = was'
    <3>1. ASSUME NEW t \in Torrent
          PROVE  (\E i \in DOMAIN saved' : saved'[i].id = t /\ saved'[i].state \in Open)
                   <=> t \in Listed /\ state[t] \in Open
      BY <1>7, <1>8 DEF Listed
    <3>2. OpenOnes(state) \subseteq Torrent
      BY <1>1, ListedType DEF TypeOK
    <3>3. SavedOpen' = OpenOnes(state)
      BY <3>1, <3>2 DEF SavedOpen, OpenOnes
    <3> QED
      BY <1>1, <3>3
  <2> QED
    BY <1>1, <1>8, <2>1 DEF Resumable, Once
<1> QED
  BY <1>1, <1>9, <1>10, <1>11 DEF LoopInv, Once

LEMMA ExitInv ==
  ASSUME LoopInv, Exit
  PROVE  LoopInv'
<1>1. /\ TypeOK /\ Resumable /\ phase = "stopping" /\ phase' = "down" /\ files' = <<>> /\ http' = 0
      /\ state' = [t \in Torrent |-> "stopped"] /\ turns' = [t \in Torrent |-> 0]
      /\ UNCHANGED <<saved, was>>
  BY DEF Exit, LoopInv
<1>2. TypeOK'
  BY <1>1, LoopAssumption DEF TypeOK, State, LoopAssumption
<1>3. Once' /\ Checked'
  BY <1>1 DEF Once, Checked
<1>4. Resumable'
  BY <1>1 DEF Resumable, SavedOpen
<1> QED
  BY <1>2, <1>3, <1>4 DEF LoopInv

-----------------------------------------------------------------------------
LEMMA InitLoop == Init => LoopInv
<1> SUFFICES ASSUME Init PROVE LoopInv
  OBVIOUS
<1>1. TypeOK
  BY LoopAssumption DEF Init, TypeOK, State, LoopAssumption
<1>2. Once /\ Checked /\ Resumable
  BY DEF Init, Once, Checked, Resumable, SavedOpen
<1> QED
  BY <1>1, <1>2 DEF LoopInv

LEMMA LoopStep == LoopInv /\ [Next]_vars => LoopInv'
<1> SUFFICES ASSUME LoopInv, [Next]_vars PROVE LoopInv'
  OBVIOUS
<1>1. CASE HttpEnds
  <2>1. TypeOK /\ phase # "down" /\ http' = http - 1 /\ http > 0 /\ UNCHANGED <<phase, files, state, turns, saved, was>>
    BY <1>1 DEF HttpEnds, LoopInv, Up
  <2>2. TypeOK'
    BY <2>1, LoopAssumption DEF TypeOK, LoopAssumption
  <2> QED
    BY <2>1, <2>2, KeepsListed DEF LoopInv, Checked
<1>2. CASE UNCHANGED vars
  BY <1>2 DEF vars, LoopInv, TypeOK, Once, Checked, Resumable, Listed, SavedOpen
<1> QED
  BY <1>1, <1>2, StartInv, HashInv, RatioReachedInv, DiskFullInv, OpenTorrentInv, CloseTorrentInv, SetStateInv,
     UpdateStatesInv, StopTurnInv, ExitInv DEF Next, Command

LEMMA LoopInvariant == Spec => []LoopInv
BY InitLoop, LoopStep, PTL DEF Spec

\* Every variable keeps its type, no torrent is listed twice (Cserver::open), and only
\* torrents that are listed and open have a hasher, also when they are closed or given
\* another state in the middle of a check (Cbt_file::close, hash).
THEOREM LoopTypeCorrect == Spec => [](TypeOK /\ Once /\ Checked)
<1>1. LoopInv => TypeOK /\ Once /\ Checked
  BY DEF LoopInv
<1> QED
  BY <1>1, LoopInvariant, PTL

\* However many torrents there are and whatever is done with them while the process
\* stops, the next one opens just those that were open when the stop was seen
\* (Cserver::run, save_state, load_state).
THEOREM StopIsResumed == Spec => ResumesAsLeft
<1>1. LoopInv /\ [Next]_vars => [phase = "down" /\ phase' = "running" => OpenOnes(state)' = was]_vars
  <2> SUFFICES ASSUME LoopInv, Next, phase = "down", phase' = "running"
               PROVE  OpenOnes(state)' = was
    OBVIOUS
  <2>1. Start
    BY DEF Next, Hash, RatioReached, DiskFull, Command, OpenTorrent, CloseTorrent, SetState, UpdateStates,
           StopTurn, HttpEnds, Exit, Up
  <2> QED
    BY <2>1, StartInv
<1> QED
  BY <1>1, LoopInvariant, PTL DEF Spec, ResumesAsLeft
=============================================================================
