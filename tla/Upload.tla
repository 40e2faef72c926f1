------------------------------- MODULE Upload -------------------------------
(***************************************************************************)
(* Who may download from the client, and how much (Cserver::update_chokes  *)
(* and the end of Cserver::post_select of xbt/BT Test): the links that get *)
(* an upload slot, and the division of the quota of a second over links.   *)
(***************************************************************************)
EXTENDS Integers, Sequences, FiniteSets, SequencesExt

-----------------------------------------------------------------------------
(* Upload slots.  A link is a record: its torrent, whether the torrent     *)
(* runs, whether the peer misses something (m_left), whether it sends us   *)
(* more than 256 bytes a second (fast), and who is interested.             *)

\* A torrent without a largest number has a very large one.
NoLimit == 2147483647

\* The links in the order in which they are looked at: the fast ones, the slowest first
\* (the caller's order); then those with interest on both sides; then the other ones.
Candidates(links) ==
  LET want == SelectSeq(links, LAMBDA l : l.running /\ l.left)
  IN SelectSeq(want, LAMBDA l : l.fast)
     \o SelectSeq(want, LAMBDA l : ~l.fast /\ l.wants /\ l.wanted)
     \o SelectSeq(want, LAMBDA l : ~l.fast /\ l.wants /\ ~l.wanted)

\* The first round gives every torrent its smallest number of slots, the second its
\* largest, the third looks at no limit.
PassesRound(a, lim) == (a = 0 => lim.min >= 1) /\ (a = 1 => lim.max >= 1)

\* One link in round a; s: the links let in, the slots left, what torrents have left.
\* A fast link whose peer is not interested takes no slot.
Offer(s, a, l) ==
  IF s.slots = 0 \/ l \in s.in \/ ~PassesRound(a, s.lim[l.file]) THEN s
  ELSE IF l.wants
       THEN [in |-> s.in \cup {l}, slots |-> s.slots - 1,
             lim |-> [s.lim EXCEPT ![l.file].min = @ - 1, ![l.file].max = @ - 1]]
       ELSE [s EXCEPT !.in = @ \cup {l}]

\* Whatever is configured, there are four slots.
Slots(config) == IF config > 4 THEN config ELSE 4

\* update_chokes: the links that are let in.  lim: the smallest and the largest number
\* of slots of each torrent (max = 0: none).
Unchoked(links, config, lim) ==
  LET own == [f \in DOMAIN lim |->
                [lim[f] EXCEPT !.max = IF @ = 0 THEN NoLimit ELSE @]]
      c == Candidates(links)
      round(s, a) == FoldLeft(LAMBDA t, l : Offer(t, a, l), s, c)
  IN IF config = 0 THEN {l \in ToSet(links) : l.running /\ l.left}
     ELSE FoldLeft(round, [in |-> {}, slots |-> Slots(config), lim |-> own], <<0, 1, 2>>).in

\* No more interested peers are served than there are slots, nobody waits while there
\* is a slot, and a torrent gets more than its smallest (largest) number only if no
\* peer waits for a torrent that has less than its own.
SlotsShared(links, config, lim) ==
  LET in == Unchoked(links, config, lim)
      served(f) == Cardinality({l \in in : l.file = f /\ l.wants})
      waits(f) == \E l \in ToSet(links) \ in : l.file = f /\ l.running /\ l.left /\ l.wants
      largest(f) == IF lim[f].max = 0 THEN NoLimit ELSE lim[f].max
      most(f) == IF largest(f) > lim[f].min THEN largest(f) ELSE lim[f].min
      total == Cardinality({l \in in : l.wants})
  IN config # 0 =>
       /\ total <= Slots(config)
       /\ (\E f \in DOMAIN lim : waits(f)) => total = Slots(config)
       /\ \A f, g \in DOMAIN lim :
            /\ waits(g) /\ served(g) < lim[g].min => served(f) <= lim[f].min
            /\ waits(g) /\ served(g) < largest(g) => served(f) <= most(f)

-----------------------------------------------------------------------------
(* The quota of a second.  A link is a record: what it has to send when    *)
(* the division begins, by cb_write_buffer (has); what it then finds to    *)
(* send (holds: less when a block cannot be read, more with the hashes of  *)
(* a Merkle torrent); and what its socket takes until it is full (takes).  *)

Lesser(a, b) == IF a < b THEN a ELSE b

\* What a link can still send.
Can(l) == Lesser(l.holds, l.takes)

\* Mutant: what is not sent is lost.
VisitLoses(s, i) ==
  LET q == Lesser(s.links[i].has, s.quota \div s.rest)
      sent == Lesser(q, Can(s.links[i]))
  IN [s EXCEPT !.quota = @ - q, !.rest = @ - 1, !.sent[i] = @ + sent,
               !.links[i].holds = @ - sent, !.links[i].takes = @ - sent, !.gone[i] = q - sent > 0]

\* One link of a round: it may send its share, but no more than it had to send at first,
\* and what it does not send is given back when the round ends.  A link that has not sent
\* all it may, because nothing is left to send or its socket is full, is not visited again.
Visit(s, i) ==
  LET q == Lesser(s.links[i].has, s.quota \div s.rest)
      sent == Lesser(q, Can(s.links[i]))
  IN [s EXCEPT !.quota = @ - q, !.rest = @ - 1, !.back = @ + (q - sent), !.sent[i] = @ + sent,
               !.links[i].holds = @ - sent, !.links[i].takes = @ - sent, !.gone[i] = q - sent > 0]

On(s) == {i \in DOMAIN s.links : ~s.gone[i]}

\* The links one after the other, in the order of what they had to send at first (the caller's).
Visits(s) ==
  LET on == On(s)
      e[k \in Nat] == IF k = 0 THEN s ELSE LET t == e[k - 1] IN IF k \in on THEN Visit(t, k) ELSE t
  IN e[Len(s.links)]

Round(s) ==
  LET e == Visits([s EXCEPT !.rest = Cardinality(On(s)), !.back = 0])
  IN [e EXCEPT !.quota = @ + e.back]

\* n rounds at most; the loop ends without quota or without links.
Divided(links, quota, n) ==
  LET start == [links |-> links, quota |-> quota, rest |-> 0, back |-> 0,
                sent |-> [i \in DOMAIN links |-> 0], gone |-> [i \in DOMAIN links |-> FALSE]]
      f[k \in Nat] ==
        IF k = 0 THEN start ELSE LET s == f[k - 1] IN IF s.quota = 0 \/ On(s) = {} THEN s ELSE Round(s)
  IN f[n]

Total(q) ==
  LET t[k \in 0..Len(q)] == IF k = 0 THEN 0 ELSE t[k - 1] + q[k]
  IN t[Len(q)]

\* The division ends and nothing of the quota is lost or sent twice; every link gets an
\* even share if it has that much and its socket takes it; and quota is left only when
\* every link has sent all it holds, or all its socket takes.
QuotaShared(links, quota) ==
  LET e == Divided(links, quota, quota + Len(links))
  IN /\ e.quota = 0 \/ \A i \in DOMAIN links : e.gone[i]
     /\ Total(e.sent) + e.quota = quota
     /\ \A i \in DOMAIN links :
          /\ e.sent[i] >= Lesser(Lesser(links[i].has, Can(links[i])), quota \div Len(links))
          /\ e.quota > 0 => e.sent[i] = Can(links[i])
=============================================================================
