----------------------------- MODULE MCDownload -----------------------------
(* Small instances of Download for TLC.                                     *)
EXTENDS Download, TLC, FiniteSetsExt

CONSTANTS i1, i2

MCPieces == {i1, i2}
MCPieceOfOne == [c \in 0..1 |-> i1]
MCPieceOfEach == [c \in 0..1 |-> IF c = 0 THEN i1 ELSE i2]

PeerSymmetry == Permutations(Peer)
=============================================================================
