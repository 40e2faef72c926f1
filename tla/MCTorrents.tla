----------------------------- MODULE MCTorrents -----------------------------
(* An instance of Torrents: in each behaviour users open one of two torrents. *)
EXTENDS Torrents, TLC

CONSTANTS t1, t2, one, both

\* t1 has a piece in one sub file and one across two; t2 has one piece.
Spread == (t1 :> <<{one}, {one, both}>>) @@ (t2 :> <<{one}>>)

VARIABLE wanted

OneInit == Init /\ wanted \in Torrent
OneNext == Next /\ listed' \subseteq {wanted} /\ UNCHANGED wanted
OneSpec == OneInit /\ [][OneNext]_<<vars, wanted>>
=============================================================================
