------------------------- MODULE TrackerLinkProofs -------------------------
(* Proofs about TrackerLink, for any list of trackers, any edits of it and *)
(* any bounds: the list is indexed inside its range, and only an answer    *)
(* brings a tracker to the front.                                          *)
EXTENDS TrackerLink, TLAPS

\* During an announce mc_attempts is not 0, and the current tracker is the one that
\* was contacted, unless the list was replaced.
LinkInv ==
  /\ trackers \in Seq(Url) /\ cur \in Nat /\ attempts \in Nat
  /\ state \in 0..4 /\ edited \in BOOLEAN
  /\ state # 0 => attempts >= 1
  /\ state # 0 /\ ~edited => cur < Len(trackers) /\ trackers[cur + 1] = url
  /\ crashed => edited

LEMMA IndexType ==
  ASSUME LinkInv, LinkAssumption
  PROVE  /\ Index \in Nat /\ More(attempts) \in Nat /\ More(attempts) >= 1
         /\ Len(trackers) \in Nat
  BY DEF LinkInv, LinkAssumption, Index, More, Smaller

\* Fail-over moves the index inside the list and leaves the link idle.
LEMMA FailOverEffect ==
  ASSUME LinkInv, NEW n \in Nat, n >= 1, NEW c \in Nat, Close(n, c)
  PROVE  /\ UNCHANGED <<trackers, crashed>>
         /\ cur' \in Nat /\ attempts' \in Nat /\ state' = 0
  BY DEF Close, FailOver, LinkInv

\* After an answer the list has the same length, and index 0 what was current.
LEMMA PromoteEffect ==
  ASSUME LinkInv, NEW c \in Nat, Close(0, c)
  PROVE  /\ trackers' \in Seq(Url) /\ cur' = 0 /\ attempts' = 0 /\ state' = 0
         /\ c < Len(trackers) => ~crashed' /\ trackers'[1] = trackers[c + 1]
<1>1. /\ crashed' = (c >= Len(trackers)) /\ cur' = 0 /\ attempts' = 0 /\ state' = 0
      /\ trackers' = IF crashed' THEN trackers
                     ELSE [trackers EXCEPT ![1] = trackers[c + 1], ![c + 1] = trackers[1]]
  BY DEF Close, Promote
<1>2. CASE c >= Len(trackers)
  <2>1. crashed'
    BY <1>1, <1>2
  <2>2. trackers' = trackers /\ Len(trackers) \in Nat
    BY <1>1, <2>1 DEF LinkInv
  <2> QED
    <3>1. ~(c < Len(trackers)) /\ trackers' \in Seq(Url)
      BY <1>2, <2>2 DEF LinkInv
    <3>2. cur' = 0 /\ attempts' = 0 /\ state' = 0
      BY <1>1
    <3> QED
      BY <3>1, <3>2
<1>3. CASE c < Len(trackers)
  <2>0. ~(c >= Len(trackers))
    BY <1>3 DEF LinkInv
  <2>6. ~crashed'
    BY <1>1, <2>0
  <2>1. c + 1 \in 1..Len(trackers) /\ 1 \in 1..Len(trackers) /\ trackers \in Seq(Url)
    BY <1>3 DEF LinkInv
  <2>2. trackers' = [trackers EXCEPT ![1] = trackers[c + 1], ![c + 1] = trackers[1]]
    BY <1>1, <2>6
  <2>3. trackers[c + 1] \in Url /\ trackers[1] \in Url
    BY <2>1
  <2>4. trackers' \in Seq(Url)
    BY <2>1, <2>2, <2>3
  <2>5. trackers'[1] = trackers[c + 1]
    BY <2>1, <2>2
  <2> QED
    BY <1>1, <2>4, <2>5, <2>6
<1> QED
  BY <1>2, <1>3 DEF LinkInv

LEMMA LinkStep == LinkAssumption /\ LinkInv /\ [Next]_vars => LinkInv'
<1> SUFFICES ASSUME LinkAssumption, LinkInv, [Next]_vars PROVE LinkInv'
  OBVIOUS
<1> USE DEF LinkInv
<1>1. CASE UNCHANGED vars
  BY <1>1 DEF vars, fileVars, linkVars
<1>0. Next => ~crashed
  BY DEF Next
<1>2. CASE WrapIndex
  BY <1>2, IndexType DEF WrapIndex, fileVars
<1>3. CASE SkipInvalid
  <2>1. UNCHANGED <<trackers, crashed, edited>> /\ cur' \in Nat /\ attempts' \in Nat /\ state' = 0
    BY <1>3, IndexType, FailOverEffect DEF SkipInvalid
  <2> QED
    BY <2>1
<1>4. CASE FailAtOnce
  <2>1. UNCHANGED <<trackers, crashed, edited, state>> /\ state = 0
        /\ cur' \in Nat /\ attempts' \in Nat
    BY <1>4, IndexType DEF FailAtOnce, Attempt, Ready
  <2> QED
    BY <2>1
<1>5. CASE FailToReach
  <2>1. UNCHANGED <<trackers, crashed, edited>> /\ cur' \in Nat /\ attempts' \in Nat /\ state' = 0
    BY <1>5, IndexType, FailOverEffect DEF FailToReach
  <2> QED
    BY <2>1
<1>6. ASSUME Contact, ~crashed PROVE LinkInv'
  <2>1. /\ UNCHANGED <<trackers, crashed>> /\ ~edited' /\ edited' \in BOOLEAN
        /\ cur' = Index /\ Index < Len(trackers) /\ url' = trackers[Index + 1]
        /\ attempts' = More(attempts) /\ state' \in {1, 3}
    BY <1>6 DEF Contact, Attempt, Ready
  <2>2. ~crashed' /\ state' \in 0..4 /\ attempts' \in Nat /\ attempts' >= 1
    BY <1>6, <2>1, IndexType
  <2>3. cur' \in Nat /\ cur' < Len(trackers') /\ trackers'[cur' + 1] = url'
    BY <2>1, IndexType
  <2> QED
    BY <2>1, <2>2, <2>3
<1>7. CASE SendRequest
  BY <1>7 DEF SendRequest, fileVars
<1>8. CASE SendFails \/ Fails
  <2>1. state # 0 /\ Close(attempts, cur) /\ UNCHANGED edited
    BY <1>8 DEF SendFails, Fails
  <2>2. UNCHANGED <<trackers, crashed>> /\ cur' \in Nat /\ attempts' \in Nat /\ state' = 0
    BY <2>1, FailOverEffect
  <2> QED
    BY <2>1, <2>2
<1>9. ASSUME NEW i \in Intervals, Answer(i) PROVE LinkInv'
  <2>1. state # 0 /\ Close(0, cur) /\ UNCHANGED edited
    BY <1>9 DEF Answer
  <2>2. /\ trackers' \in Seq(Url) /\ cur' = 0 /\ attempts' = 0 /\ state' = 0
        /\ cur < Len(trackers) => ~crashed'
    BY <2>1, PromoteEffect
  <2> QED
    BY <2>1, <2>2
<1>10. CASE Complete \/ Open \/ Announce \/ Stop \/ Pause \/ PeersChange
  BY <1>10 DEF Complete, Open, Announce, Stop, Pause, PeersChange, fileVars, linkVars
<1>11. ASSUME NEW l \in Lists, EditTrackers(l), ~crashed PROVE LinkInv'
  <2>1. /\ trackers' \in Seq(Url) /\ edited' = (state # 0) /\ edited' \in BOOLEAN
        /\ UNCHANGED <<linkVars, crashed>>
    BY <1>11 DEF EditTrackers, LinkAssumption
  <2>2. ~crashed' /\ (state # 0 => edited')
    BY <1>11, <2>1
  <2> QED
    BY <2>1, <2>2 DEF linkVars
<1>12. ASSUME NEW u \in Url, AddTracker(u) PROVE LinkInv'
  <2>1. trackers' = Append(trackers, u) /\ UNCHANGED <<linkVars, crashed, edited>>
    BY <1>12 DEF AddTracker
  <2>2. /\ trackers' \in Seq(Url) /\ Len(trackers') = Len(trackers) + 1
        /\ \A i \in 1..Len(trackers) : trackers'[i] = trackers[i]
    BY <2>1
  <2> QED
    BY <2>1, <2>2 DEF linkVars
<1>13. CASE Pass
  BY <1>13 DEF Pass, fileVars
<1> QED
  BY <1>0, <1>1, <1>2, <1>3, <1>4, <1>5, <1>6, <1>7, <1>8, <1>9, <1>10, <1>11, <1>12, <1>13
     DEF Next, PreSelect, PostSelect, User

LEMMA LinkInvariant == Spec => []LinkInv
<1>1. LinkAssumption /\ Init => LinkInv
  <2>1. LinkAssumption /\ Init => trackers \in Seq(Url) /\ cur = 0 /\ attempts = 0 /\ state = 0
    BY DEF LinkAssumption, Init
  <2>2. Init => ~crashed /\ edited \in BOOLEAN
    BY DEF Init
  <2>3. ASSUME trackers \in Seq(Url), cur = 0, attempts = 0, state = 0, ~crashed, edited \in BOOLEAN
        PROVE  LinkInv
    BY <2>3 DEF LinkInv
  <2> QED
    BY <2>1, <2>2, <2>3
<1> QED
  BY <1>1, LinkStep, LinkAssumption, PTL DEF Spec

\* The list of trackers is indexed outside its range only when it was replaced
\* during an announce.
THEOREM IndexInRange == Spec => []OnlyEditsCrash
<1>1. LinkInv => OnlyEditsCrash
  BY DEF LinkInv, OnlyEditsCrash
<1> QED
  BY <1>1, LinkInvariant, PTL

\* However attempts are counted up and down by fail-over, only an answer brings a
\* tracker to the front of the list.
THEOREM OnlyAnsweredArePromoted == Spec => PromoteOnlyAnswered
<1> DEFINE Promotion == \/ UNCHANGED linkVars
                        \/ /\ state \in {2, 4} /\ state' = 0 /\ attempts' = 0
                           /\ edited \/ trackers'[1] = url
<1>1. LinkAssumption /\ LinkInv /\ [Next]_vars => [trackers' # trackers => Promotion]_vars
  <2> SUFFICES ASSUME LinkAssumption, LinkInv, Next, trackers' # trackers PROVE Promotion
    OBVIOUS
  <2>1. ~(WrapIndex \/ FailAtOnce \/ Contact \/ SendRequest \/ Complete \/ Open \/ Announce
          \/ Stop \/ Pause \/ PeersChange \/ Pass)
    BY DEF WrapIndex, FailAtOnce, Contact, SendRequest, Complete, Open, Announce, Stop, Pause,
           PeersChange, Pass, fileVars
  <2>2. ~(SkipInvalid \/ FailToReach)
    BY IndexType, FailOverEffect DEF SkipInvalid, FailToReach
  <2>3. ~(SendFails \/ Fails)
    <3>1. SendFails \/ Fails => Close(attempts, cur) /\ attempts \in Nat /\ attempts >= 1 /\ cur \in Nat
      BY DEF SendFails, Fails, LinkInv
    <3> QED
      BY <3>1, FailOverEffect
  <2>4. ASSUME NEW i \in Intervals, Answer(i) PROVE Promotion
    <3>1. state \in {2, 4} /\ Close(0, cur) /\ cur \in Nat
      BY <2>4 DEF Answer, LinkInv
    <3>2. /\ attempts' = 0 /\ state' = 0
          /\ cur < Len(trackers) => trackers'[1] = trackers[cur + 1]
      BY <3>1, PromoteEffect
    <3> QED
      BY <3>1, <3>2 DEF LinkInv
  <2>5. ASSUME NEW l \in Lists, EditTrackers(l) PROVE Promotion
    BY <2>5 DEF EditTrackers
  <2>6. ASSUME NEW u \in Url, AddTracker(u) PROVE Promotion
    BY <2>6 DEF AddTracker
  <2> QED
    BY <2>1, <2>2, <2>3, <2>4, <2>5, <2>6 DEF Next, PreSelect, PostSelect, User
<1> QED
  BY <1>1, LinkInvariant, LinkAssumption, PTL DEF Spec, PromoteOnlyAnswered

-----------------------------------------------------------------------------
(* The pace of the announces.                                              *)

Least == Smaller(HttpBase, UdpBase)

\* From the first contact to the answer or to the end of the list.
Round == state # 0 \/ cur # 0

\* The trackers of the list whose turn is still to come in the round.
ToCome == {trackers[j] : j \in (IF state = 0 THEN cur + 1 ELSE cur + 2)..Len(trackers)}

\* Nobody is owed more than the wait; in a round nobody is owed more than the least
\* back-off, only trackers in the list are owed anything, and those to come are not.
Pacing ==
  /\ \A u \in Url : owed[u] <= wait
  /\ Round => \A u \in Url : owed[u] <= Least /\ (owed[u] > 0 => Listed(u))
  /\ Round => \A u \in ToCome : owed[u] = 0

PaceTypes == attempts \in 0..MaxAttempts /\ url \in Url /\ wait \in Nat /\ owed \in [Url -> Nat]

PaceInv == LinkInv /\ PaceTypes /\ (Distinct(trackers) => Pacing)

LEMMA Numbers ==
  Least \in Nat /\ MaxAttempts \in Nat /\ MaxAttempts >= 1 /\ Tick \in Nat /\ ShortestInterval \in Nat
BY LinkAssumption DEF Least, Smaller, LinkAssumption

\* When it is time for an attempt, its tracker and those after it are owed nothing.
LEMMA ReadyPacing ==
  ASSUME PaceInv, Ready, Distinct(trackers)
  PROVE  /\ \A u \in Url : owed[u] <= Least /\ (owed[u] > 0 => Listed(u))
         /\ \A j \in (Index + 1)..Len(trackers) : owed[trackers[j]] = 0
<1>1. Pacing /\ trackers \in Seq(Url) /\ cur \in Nat /\ owed \in [Url -> Nat] /\ state = 0
  BY DEF PaceInv, LinkInv, PaceTypes, Ready
<1>2. \A j \in 1..Len(trackers) : trackers[j] \in Url
  BY <1>1
<1>3. CASE Index = 0
  <2>1. wait = 0
    BY <1>3 DEF Ready
  <2>2. ASSUME NEW u \in Url PROVE owed[u] = 0
    <3>1. owed[u] \in Nat /\ owed[u] <= wait
      BY <1>1 DEF Pacing
    <3> QED
      BY <2>1, <3>1
  <2> QED
    BY <1>2, <1>3, <2>2, Numbers
<1>4. CASE Index # 0
  <2>1. Index = cur /\ cur # 0
    BY <1>1, <1>4 DEF Index
  <2>2. ToCome = {trackers[j] : j \in (cur + 1)..Len(trackers)}
    BY <1>1 DEF ToCome
  <2> QED
    BY <1>1, <2>1, <2>2 DEF Pacing, Round
<1> QED
  BY <1>3, <1>4

LEMMA LaterTrackers ==
  ASSUME NEW list \in Seq(Url), NEW c \in Nat
  PROVE  {list[j] : j \in (c + 1)..Len(list)} \subseteq Url /\ {list[j] : j \in (c + 2)..Len(list)} \subseteq Url
OBVIOUS

\* Once nobody is owed anything, pacing starts anew.
LEMMA NothingOwed ==
  ASSUME LinkInv', PaceTypes', owed' = [u \in Url |-> 0]
  PROVE  PaceInv'
<1>1. \A u \in Url : owed'[u] = 0
  OBVIOUS
<1>2. ToCome' \subseteq Url
  <2>1. trackers' \in Seq(Url) /\ cur' \in Nat
    BY DEF LinkInv
  <2>2. \/ ToCome' = {trackers'[j] : j \in (cur' + 1)..Len(trackers')}
        \/ ToCome' = {trackers'[j] : j \in (cur' + 2)..Len(trackers')}
    BY DEF ToCome
  <2> QED
    BY <2>1, <2>2, LaterTrackers
<1>3. Least \in Nat /\ wait' \in Nat
  BY Numbers DEF PaceTypes
<1>4. \A u \in Url : owed'[u] <= wait' /\ owed'[u] <= Least /\ ~(owed'[u] > 0)
  BY <1>1, <1>3
<1>5. Pacing'
  BY <1>1, <1>2, <1>4 DEF Pacing
<1> QED
  BY <1>5 DEF PaceInv

\* A link that is idle at the start of the list begins a new round.
LEMMA NewRound ==
  ASSUME LinkInv', PaceTypes', state' = 0, cur' = 0,
         Distinct(trackers') => \A u \in Url : owed'[u] <= wait'
  PROVE  PaceInv'
BY DEF PaceInv, Pacing, Round

\* Fail-over goes on in the list or back to its start.
LEMMA FailOverMoves ==
  ASSUME LinkInv, NEW n \in 1..MaxAttempts, NEW c \in Nat, Close(n, c)
  PROVE  /\ UNCHANGED <<trackers, crashed>> /\ state' = 0 /\ attempts' \in 0..MaxAttempts
         /\ cur' = 0 \/ cur' = c + 1
BY Numbers DEF Close, FailOver, LinkInv

\* The turn of the tracker with index c has passed; it may be owed something now.
LEMMA GoOn ==
  ASSUME LinkInv', PaceTypes', NEW c \in Nat, NEW n \in 1..MaxAttempts, LinkInv, Close(n, c),
         owed' = owed, owed \in [Url -> Nat],
         Distinct(trackers) =>
           /\ \A u \in Url : owed[u] <= wait'
           /\ \A u \in Url : owed[u] <= Least /\ (owed[u] > 0 => Listed(u))
           /\ \A j \in (c + 2)..Len(trackers) : owed[trackers[j]] = 0
  PROVE  PaceInv'
<1>1. /\ trackers' = trackers /\ state' = 0
      /\ cur' = 0 \/ cur' = c + 1
  BY FailOverMoves
<1>2. CASE cur' = 0
  BY <1>1, <1>2, NewRound
<1>3. CASE cur' = c + 1
  <2>1. ToCome' = {trackers[j] : j \in (c + 2)..Len(trackers)}
    BY <1>1, <1>3 DEF ToCome
  <2> QED
    BY <1>1, <2>1 DEF PaceInv, Pacing, Listed
<1> QED
  BY <1>1, <1>2, <1>3

\* What an attempt at the tracker in turn needs.
LEMMA AttemptPacing ==
  ASSUME Patient, PaceInv, Attempt
  PROVE  /\ url' \in Url /\ wait' \in Nat /\ wait' >= Least /\ Index \in Nat
         /\ More(attempts) \in 1..MaxAttempts
<1>1. Index \in Nat /\ Index < Len(trackers) /\ trackers \in Seq(Url)
  BY IndexType, LinkAssumption DEF PaceInv, LinkInv, Attempt, Ready
<1>2. url' \in Url
  BY <1>1 DEF Attempt
<1>3. wait' \in Nat /\ wait' >= Least
  BY <1>2 DEF Attempt, Patient, Least, PaceInv, PaceTypes
<1>4. More(attempts) \in 1..MaxAttempts
  BY Numbers DEF PaceInv, PaceTypes, More, Smaller
<1> QED
  BY <1>1, <1>2, <1>3, <1>4

\* The tracker in turn gets its time; the turns after it are kept.
LEMMA ContactPace ==
  ASSUME Patient, PaceInv, LinkInv', Contact
  PROVE  PaceInv'
<1>1. /\ url' \in Url /\ wait' \in Nat /\ wait' >= Least /\ Index \in Nat
      /\ More(attempts) \in 1..MaxAttempts
  BY AttemptPacing DEF Contact
<1>2. /\ trackers' = trackers /\ cur' = Index /\ attempts' = More(attempts) /\ state' # 0
      /\ owed' = [owed EXCEPT ![url'] = Least]
      /\ Ready /\ Index < Len(trackers) /\ url' = trackers[Index + 1]
  BY DEF Contact, Attempt, Ready, Least
<1>3. PaceTypes'
  BY <1>1, <1>2, Numbers DEF PaceTypes, PaceInv
<1>4. ASSUME Distinct(trackers) PROVE Pacing'
  <2>1. /\ \A u \in Url : owed[u] <= Least /\ (owed[u] > 0 => Listed(u))
        /\ \A j \in (Index + 1)..Len(trackers) : owed[trackers[j]] = 0
    BY <1>2, <1>4, ReadyPacing
  <2>2. owed \in [Url -> Nat] /\ trackers \in Seq(Url)
    BY DEF PaceInv, PaceTypes, LinkInv
  <2>3. \A u \in Url : owed'[u] = IF u = url' THEN Least ELSE owed[u]
    BY <1>2, <2>2
  <2>4. \A u \in Url : owed'[u] <= Least
    BY <2>1, <2>2, <2>3, Numbers
  <2>5. \A u \in Url : owed'[u] <= wait'
    BY <1>1, <1>3, <2>4, Numbers DEF PaceTypes
  <2>6. \A u \in Url : owed'[u] > 0 => Listed(u)'
    BY <1>1, <1>2, <2>1, <2>2, <2>3 DEF Listed
  <2>7. ASSUME NEW j \in (Index + 2)..Len(trackers) PROVE owed'[trackers[j]] = 0
    <3>1. j \in 1..Len(trackers) /\ Index + 1 \in 1..Len(trackers) /\ j # Index + 1
      BY <1>1, <1>2, <2>2
    <3>2. trackers[j] # url' /\ trackers[j] \in Url
      BY <1>2, <1>4, <2>2, <3>1 DEF Distinct
    <3>3. j \in (Index + 1)..Len(trackers)
      BY <1>1, <2>2
    <3> QED
      BY <2>1, <2>3, <3>2, <3>3
  <2>8. ToCome' = {trackers[j] : j \in (Index + 2)..Len(trackers)}
    BY <1>2 DEF ToCome
  <2> QED
    BY <2>4, <2>5, <2>6, <2>7, <2>8 DEF Pacing
<1> QED
  BY <1>2, <1>3, <1>4 DEF PaceInv

\* The swap of an answer keeps a list that names a tracker twice as it was.
LEMMA PromoteDistinct ==
  ASSUME LinkInv, NEW c \in Nat, Promote(c), Distinct(trackers')
  PROVE  Distinct(trackers)
<1>1. CASE crashed'
  BY <1>1 DEF Promote
<1>2. CASE ~crashed'
  <2> DEFINE to(i) == IF i = 1 THEN c + 1 ELSE IF i = c + 1 THEN 1 ELSE i
  <2>1. trackers \in Seq(Url) /\ Len(trackers) \in Nat /\ c < Len(trackers)
    <3>1. trackers \in Seq(Url) /\ Len(trackers) \in Nat
      BY DEF LinkInv
    <3>2. ~(c >= Len(trackers))
      BY <1>2 DEF Promote
    <3> QED
      BY <3>1, <3>2
  <2>2. trackers' = [trackers EXCEPT ![1] = trackers[c + 1], ![c + 1] = trackers[1]]
    BY <1>2 DEF Promote
  <2>3. Len(trackers') = Len(trackers)
    BY <2>1, <2>2
  <2>4. \A i \in 1..Len(trackers) : to(i) \in 1..Len(trackers) /\ trackers'[to(i)] = trackers[i]
    BY <2>1, <2>2
  <2>5. ASSUME NEW i \in 1..Len(trackers), NEW j \in 1..Len(trackers), trackers[i] = trackers[j]
        PROVE  i = j
    <3>1. to(i) = to(j)
      <4> HIDE DEF to
      <4> QED
        BY <2>3, <2>4, <2>5 DEF Distinct
    <3> QED
      BY <2>1, <3>1
  <2> QED
    BY <2>5 DEF Distinct
<1> QED
  BY <1>1, <1>2 DEF Promote

LEMMA AnswerPace ==
  ASSUME Patient, PaceInv, LinkInv', NEW i \in Intervals, Answer(i)
  PROVE  PaceInv'
<1>1. /\ state # 0 /\ state' = 0 /\ cur' = 0 /\ attempts' = 0 /\ url' = url /\ Promote(cur)
      /\ wait' = Bigger(ShortestInterval, i)
      /\ owed' = [owed EXCEPT ![url] = Bigger(ShortestInterval, i)]
  BY DEF Answer, Close, Promote
<1>2. /\ wait' \in Nat /\ wait' >= Least
  BY <1>1, Numbers, LinkAssumption DEF Bigger, LinkAssumption, Patient, Least
<1>3. PaceTypes'
  BY <1>1, <1>2, Numbers DEF PaceInv, PaceTypes
<1>4. ASSUME Distinct(trackers') PROVE \A u \in Url : owed'[u] <= wait'
  <2>1. Distinct(trackers)
    BY <1>1, <1>4, PromoteDistinct DEF PaceInv, LinkInv
  <2>2. \A u \in Url : owed[u] <= Least /\ owed[u] \in Nat
    BY <1>1, <2>1 DEF PaceInv, Pacing, Round, PaceTypes
  <2>3. \A u \in Url : owed'[u] = IF u = url THEN wait' ELSE owed[u]
    BY <1>1 DEF PaceInv, PaceTypes
  <2> QED
    BY <1>2, <2>2, <2>3, Numbers
<1> QED
  BY <1>1, <1>3, <1>4, NewRound

\* A tracker that is added had no turn in the round.
LEMMA AddPace ==
  ASSUME PaceInv, LinkInv', NEW u \in Url, AddTracker(u)
  PROVE  PaceInv'
<1>1. /\ trackers' = Append(trackers, u) /\ UNCHANGED <<cur, state, url, attempts, wait, owed>>
      /\ \A i \in 1..Len(trackers) : trackers[i] # u
  BY DEF AddTracker, linkVars
<1>2. PaceTypes' /\ trackers \in Seq(Url) /\ cur \in Nat /\ owed \in [Url -> Nat]
  BY <1>1 DEF PaceInv, PaceTypes, LinkInv
<1>3. /\ Len(trackers') = Len(trackers) + 1 /\ trackers'[Len(trackers) + 1] = u
      /\ Len(trackers) \in Nat
      /\ \A i \in 1..Len(trackers) : trackers'[i] = trackers[i]
  BY <1>1, <1>2
<1>4. ASSUME Distinct(trackers') PROVE Pacing'
  <2>1. Pacing
    BY <1>3, <1>4 DEF Distinct, PaceInv
  <2>2. \A v \in Url : Listed(v) => Listed(v)'
    BY <1>3 DEF Listed
  <2>3. Round => owed[u] = 0
    <3>1. owed[u] \in Nat /\ ~Listed(u)
      BY <1>1, <1>2 DEF Listed
    <3>2. Round => ~(owed[u] > 0)
      BY <2>1, <3>1 DEF Pacing
    <3> QED
      BY <3>1, <3>2
  <2>4. ToCome' \subseteq ToCome \cup {u}
    BY <1>1, <1>2, <1>3 DEF ToCome
  <2>5. Round' <=> Round
    BY <1>1 DEF Round
  <2> QED
    BY <1>1, <2>1, <2>2, <2>3, <2>4, <2>5 DEF Pacing
<1> QED
  BY <1>2, <1>4 DEF PaceInv

LEMMA PassPace ==
  ASSUME PaceInv, LinkInv', Pass
  PROVE  PaceInv'
<1>1. /\ UNCHANGED <<trackers, cur, state, url, attempts>>
      /\ wait' = Bigger(0, wait - Tick) /\ owed' = [u \in Url |-> Bigger(0, owed[u] - Tick)]
  BY DEF Pass, fileVars
<1>2. wait \in Nat /\ owed \in [Url -> Nat]
  BY DEF PaceInv, PaceTypes
<1>3. wait' \in Nat /\ \A u \in Url : owed'[u] \in Nat /\ owed'[u] <= owed[u]
  BY <1>1, <1>2, Numbers DEF Bigger
<1>4. PaceTypes'
  BY <1>1, <1>3 DEF PaceInv, PaceTypes
<1>5. ASSUME Pacing PROVE Pacing'
  <2>1. \A u \in Url : owed'[u] <= wait'
    BY <1>1, <1>2, <1>5, Numbers DEF Bigger, Pacing
  <2>2. (Round' <=> Round) /\ ToCome' = ToCome /\ ToCome \subseteq Url
    BY <1>1 DEF Round, ToCome, PaceInv, LinkInv
  <2>3. Round => \A u \in Url : owed'[u] <= Least /\ (owed'[u] > 0 => Listed(u)')
    BY <1>1, <1>2, <1>3, <1>5, Numbers DEF Pacing, Listed
  <2>4. Round => \A u \in ToCome : owed'[u] = 0
    BY <1>2, <1>3, <1>5, <2>2 DEF Pacing
  <2> QED
    BY <2>1, <2>2, <2>3, <2>4 DEF Pacing
<1> QED
  BY <1>1, <1>4, <1>5 DEF PaceInv

LEMMA PaceStep == Patient /\ PaceInv /\ [Next]_vars => PaceInv'
<1> SUFFICES ASSUME Patient, PaceInv, [Next]_vars PROVE PaceInv'
  OBVIOUS
<1>1. LinkInv /\ PaceTypes /\ LinkInv'
  BY LinkStep, LinkAssumption DEF PaceInv
<1>2. ASSUME UNCHANGED <<trackers, cur, url, attempts, wait, owed>>,
             state' = state \/ (state # 0 /\ state' # 0)
      PROVE  PaceInv'
  <2>1. PaceTypes' /\ (Round' <=> Round) /\ ToCome' = ToCome
    BY <1>1, <1>2 DEF PaceTypes, Round, ToCome
  <2> QED
    BY <1>1, <1>2, <2>1 DEF PaceInv, Pacing, Listed
<1>3. CASE WrapIndex
  <2>1. cur' = 0 /\ state' = 0 /\ UNCHANGED <<trackers, url, attempts, wait, owed>>
    BY <1>3 DEF WrapIndex, Index, fileVars
  <2> QED
    BY <1>1, <2>1, NewRound DEF PaceInv, PaceTypes, Pacing
<1>4. CASE SkipInvalid
  <2>1. /\ Ready /\ Close(More(attempts), Index) /\ UNCHANGED <<wait, owed>>
        /\ url' = trackers[Index + 1]
    BY <1>4 DEF SkipInvalid
  <2>2. /\ Index \in Nat /\ Index < Len(trackers) /\ More(attempts) \in 1..MaxAttempts
    BY <1>1, <2>1, IndexType, LinkAssumption, Numbers DEF Ready, More, Smaller, PaceTypes
  <2>3. url' \in Url /\ attempts' \in 0..MaxAttempts
    BY <1>1, <2>1, <2>2, FailOverMoves DEF LinkInv
  <2>4. PaceTypes' /\ owed \in [Url -> Nat]
    BY <1>1, <2>1, <2>3 DEF PaceTypes
  <2>5. ASSUME Distinct(trackers)
        PROVE  /\ \A u \in Url : owed[u] <= wait'
               /\ \A u \in Url : owed[u] <= Least /\ (owed[u] > 0 => Listed(u))
               /\ \A j \in (Index + 2)..Len(trackers) : owed[trackers[j]] = 0
    <3>1. \A j \in (Index + 2)..Len(trackers) : j \in (Index + 1)..Len(trackers)
      BY <2>2
    <3> QED
      BY <2>1, <2>5, <3>1, ReadyPacing DEF PaceInv, Pacing
  <2> QED
    BY <1>1, <2>1, <2>2, <2>4, <2>5, GoOn
<1>5. CASE FailToReach
  <2>1. Attempt /\ Ready /\ Close(More(attempts), Index) /\ UNCHANGED owed
    BY <1>5 DEF FailToReach, Attempt
  <2>2. /\ url' \in Url /\ wait' \in Nat /\ wait' >= Least /\ Index \in Nat
        /\ More(attempts) \in 1..MaxAttempts
    BY <2>1, AttemptPacing
  <2>3. attempts' \in 0..MaxAttempts
    BY <1>1, <2>1, <2>2, FailOverMoves
  <2>4. PaceTypes' /\ owed \in [Url -> Nat]
    BY <1>1, <2>1, <2>2, <2>3 DEF PaceTypes
  <2>5. ASSUME Distinct(trackers)
        PROVE  /\ \A u \in Url : owed[u] <= wait'
               /\ \A u \in Url : owed[u] <= Least /\ (owed[u] > 0 => Listed(u))
               /\ \A j \in (Index + 2)..Len(trackers) : owed[trackers[j]] = 0
    <3>1. \A u \in Url : owed[u] <= Least /\ (owed[u] > 0 => Listed(u))
      BY <2>1, <2>5, ReadyPacing
    <3>2. \A u \in Url : owed[u] <= wait'
      BY <2>2, <2>4, <3>1, Numbers
    <3>3. \A j \in (Index + 2)..Len(trackers) : j \in (Index + 1)..Len(trackers)
      BY <2>2
    <3> QED
      BY <2>1, <2>5, <3>1, <3>2, <3>3, ReadyPacing
  <2> QED
    BY <1>1, <2>1, <2>2, <2>4, <2>5, GoOn
<1>6. CASE FailAtOnce
  <2>1. /\ Attempt /\ Ready /\ UNCHANGED <<trackers, state, owed>> /\ state = 0
        /\ cur' = Index /\ attempts' = More(attempts)
    BY <1>6 DEF FailAtOnce, Attempt, Ready
  <2>2. /\ url' \in Url /\ wait' \in Nat /\ wait' >= Least /\ Index \in Nat
        /\ More(attempts) \in 1..MaxAttempts
    BY <2>1, AttemptPacing
  <2>3. PaceTypes' /\ owed \in [Url -> Nat]
    BY <1>1, <2>1, <2>2, Numbers DEF PaceTypes
  <2>4. ToCome' = {trackers[j] : j \in (Index + 1)..Len(trackers)}
    BY <2>1 DEF ToCome
  <2>5. ASSUME Distinct(trackers) PROVE Pacing'
    <3>1. /\ \A u \in Url : owed[u] <= Least /\ (owed[u] > 0 => Listed(u))
          /\ \A j \in (Index + 1)..Len(trackers) : owed[trackers[j]] = 0
      BY <2>1, <2>5, ReadyPacing
    <3>2. \A u \in Url : owed[u] <= wait'
      BY <2>2, <2>3, <3>1, Numbers
    <3> QED
      BY <2>1, <2>4, <3>1, <3>2 DEF Pacing, Listed
  <2> QED
    BY <1>1, <2>1, <2>3, <2>5 DEF PaceInv
<1>7. CASE Contact
  BY <1>1, <1>7, ContactPace
<1>8. CASE SendRequest
  BY <1>2, <1>8 DEF SendRequest, fileVars
<1>9. CASE SendFails \/ Fails
  <2>1. state # 0 /\ Close(attempts, cur) /\ UNCHANGED <<url, wait, owed>>
    BY <1>9 DEF SendFails, Fails
  <2>2. cur \in Nat /\ attempts \in 1..MaxAttempts
    BY <1>1, <2>1, Numbers DEF LinkInv, PaceTypes
  <2>3. attempts' \in 0..MaxAttempts
    BY <1>1, <2>1, <2>2, FailOverMoves
  <2>4. PaceTypes' /\ owed \in [Url -> Nat]
    BY <1>1, <2>1, <2>3 DEF PaceTypes
  <2>5. ToCome = {trackers[j] : j \in (cur + 2)..Len(trackers)}
    BY <2>1 DEF ToCome
  <2>6. Distinct(trackers) =>
          /\ \A u \in Url : owed[u] <= wait'
          /\ \A u \in Url : owed[u] <= Least /\ (owed[u] > 0 => Listed(u))
          /\ \A j \in (cur + 2)..Len(trackers) : owed[trackers[j]] = 0
    BY <2>1, <2>5 DEF PaceInv, Pacing, Round
  <2> QED
    BY <1>1, <2>1, <2>2, <2>4, <2>6, GoOn
<1>10. ASSUME NEW i \in Intervals, Answer(i) PROVE PaceInv'
  BY <1>1, <1>10, AnswerPace
<1>11. ASSUME UNCHANGED <<url, attempts>>, wait' \in Nat, owed' = [u \in Url |-> 0] PROVE PaceInv'
  BY <1>1, <1>11, NothingOwed DEF PaceTypes
<1>12. CASE Complete \/ Open \/ Announce \/ Stop \/ Pause \/ PeersChange
  BY <1>2, <1>11, <1>12 DEF Complete, Open, Announce, Stop, Pause, PeersChange, AnnounceNow,
     fileVars, linkVars
<1>13. ASSUME NEW l \in Lists, EditTrackers(l) PROVE PaceInv'
  BY <1>1, <1>11, <1>13 DEF EditTrackers, PaceTypes, linkVars
<1>14. ASSUME NEW u \in Url, AddTracker(u) PROVE PaceInv'
  BY <1>1, <1>14, AddPace
<1>15. CASE Pass
  BY <1>1, <1>15, PassPace
<1>16. CASE UNCHANGED vars
  BY <1>2, <1>16 DEF vars, fileVars, linkVars
<1> QED
  BY <1>3, <1>4, <1>5, <1>6, <1>7, <1>8, <1>9, <1>10, <1>12, <1>13, <1>14, <1>15, <1>16
     DEF Next, PreSelect, PostSelect, User

LEMMA InitPace == Init /\ LinkInv => PaceInv
<1> SUFFICES ASSUME Init, LinkInv PROVE PaceInv
  OBVIOUS
<1>1. PaceTypes /\ state = 0 /\ cur = 0 /\ \A u \in Url : owed[u] <= wait
  BY Numbers DEF Init, PaceTypes
<1> QED
  BY <1>1 DEF PaceInv, Pacing, Round

\* As long as the back-off does not overflow, no tracker is announced to before its
\* time, whatever the lists are, however they are edited and whoever fails or answers
\* (Paced).
THEOREM AnnouncesArePaced ==
  ASSUME Patient
  PROVE  Spec => Paced
<1>1. PaceInv /\ [Next]_vars => [state = 0 /\ state' # 0 /\ Distinct(trackers) => owed[url'] = 0]_vars
  <2> SUFFICES ASSUME PaceInv, Next, state = 0, state' # 0, Distinct(trackers)
               PROVE  owed[url'] = 0
    OBVIOUS
  <2>1. Contact
    BY DEF Next, PreSelect, PostSelect, User, WrapIndex, SkipInvalid, FailAtOnce, FailToReach, Close,
           SendRequest, SendFails, Fails, Answer, Complete, Open, Announce, Stop, Pause, PeersChange,
           EditTrackers, AddTracker, Pass, fileVars, linkVars
  <2>2. Ready /\ url' = trackers[Index + 1] /\ Index < Len(trackers)
    BY <2>1 DEF Contact, Attempt, Ready
  <2>3. Index \in Nat /\ Len(trackers) \in Nat
    BY IndexType, LinkAssumption DEF PaceInv
  <2>4. Index + 1 \in (Index + 1)..Len(trackers)
    BY <2>2, <2>3
  <2> QED
    BY <2>2, <2>4, ReadyPacing
<1>2. PaceInv /\ [Next]_vars => PaceInv'
  BY PaceStep
<1> QED
  BY <1>1, <1>2, LinkInvariant, InitPace, PTL DEF Spec, Paced
=============================================================================
