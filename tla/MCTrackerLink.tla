--------------------------- MODULE MCTrackerLink ---------------------------
(* Instances of TrackerLink. *)
EXTENDS TrackerLink

CONSTANTS a, b, c

\* Two UDP trackers and one over HTTP.
Mixed == [u \in Url |-> IF u = b THEN "http" ELSE "udp"]

\* The same with a URL that is not valid in place of the last.
WithBad == [Mixed EXCEPT ![c] = "bad"]

BadInBetween  == <<a, c, b>>

\* The list becomes empty, shorter, or ordered differently.
Edits == {<<>>, <<b>>, <<b, c, a>>}

\* Up to MaxAttempts the shift does not overflow.
ASSUME PatientAssumption == Patient
=============================================================================
