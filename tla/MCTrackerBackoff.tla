-------------------------- MODULE MCTrackerBackoff --------------------------
(* One UDP tracker. *)
EXTENDS TrackerBackoff

CONSTANT a

OneUdp     == [u \in Url |-> "udp"]
OneTracker == <<a>>
=============================================================================
