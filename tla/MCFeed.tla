------------------------------- MODULE MCFeed -------------------------------
(***************************************************************************)
(* A small Feed for TLC: an unbuffered and a buffered channel that are     *)
(* unsubscribed, a buffered one that stays, and values of a second type.   *)
(***************************************************************************)
EXTENDS Feed

CONSTANTS a, b, c, y, int

MCElemType == [s \in Subs |-> int]
MCCap == [s \in Subs |-> IF s = a THEN 0 ELSE 1]

(* Bound: either the third channel takes part, or the second leaves and    *)
(* the second sender sends.  It holds back only calls nobody has to make.  *)
Bound ==
  \/ sub[c] = "none"
  \/ sub[b] \in {"none", "refused", "live"} /\ spc[y] = "idle"

MCSpec == Init /\ [][Next /\ Bound']_vars /\ Fairness

-----------------------------------------------------------------------------
(* Nobody waits for ever: an Unsubscribe returns without a reader, also    *)
(* while a Send waits for the channel it removes, and a Send returns when  *)
(* its subscribers read or leave.                                          *)
CallsReturn == UnsubscribeReturns /\ SendReturns

=============================================================================
