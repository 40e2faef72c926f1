--------------------------- MODULE TrackerBackoff ---------------------------
(***************************************************************************)
(* TrackerLink beside the back-off that the protocol page asks for         *)
(* (xbt/htdocs/udp_tracker_protocol.html:21-23):                           *)
(*   "Set n to 0.                                                          *)
(*    If no response is received after 60 * 2 ^ n seconds, resend the      *)
(*    connect request and increase n.                                      *)
(*    If a response is received, reset n to 0."                            *)
(***************************************************************************)
EXTENDS TrackerLink

CONSTANT Doublings   (* bound: n is counted up to here *)

VARIABLES
  n,          (* the page's n                                     *)
  tillResend  (* seconds before a connect request may be repeated *)

backoffVars == <<vars, n, tillResend>>

BackoffInit == Init /\ room /\ n = 0 /\ tillResend = 0

\* The page's rule, for a link whose tracker never responds.
Follow ==
  \/ Contact /\ n' = Smaller(n + 1, Doublings) /\ tillResend' = UdpBase * 2 ^ n
  \/ Pass /\ n' = n /\ tillResend' = Bigger(0, tillResend - Tick)
  \/ (Open \/ Fails) /\ UNCHANGED <<n, tillResend>>

\* The torrent is opened and left alone; every connect request is sent, and none is
\* answered until it times out.
BackoffNext == ~crashed /\ Follow

BackoffSpec == BackoffInit /\ [][BackoffNext]_backoffVars

-----------------------------------------------------------------------------
(***************************************************************************)
(* Properties                                                              *)
(***************************************************************************)
\* A connect request is not repeated before 60 * 2 ^ n seconds have passed, with
\* xbt/htdocs/udp_tracker_protocol.html:22.  n is counted up to Doublings only: so
\* the limit of an hour that the code puts on the wait, and the page does not, is
\* granted.
ResendsLate == [][state = 0 /\ state' # 0 => tillResend = 0]_backoffVars
=============================================================================
