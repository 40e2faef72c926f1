----------------------------- MODULE MCTracker -----------------------------
(* Instances of Tracker: the limits of the users. *)
EXTENDS Tracker, TLC

CONSTANTS u1, u2

\* One torrent for u1, one peer in a torrent for u2.
OneTorrent == [u \in User |-> IF u = u1 THEN 1 ELSE 0]
OnePeer == [u \in User |-> IF u = u2 THEN 1 ELSE 0]

SomeHosts == Permutations(Host)
=============================================================================
