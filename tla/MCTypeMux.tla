----------------------------- MODULE MCTypeMux -----------------------------
(***************************************************************************)
(* A small TypeMux for TLC: two event types, receivers of both types and a *)
(* Subscribe that panics on a repeated type, two posters, one goroutine    *)
(* that stops the mux and two that unsubscribe.                            *)
(***************************************************************************)
EXTENDS TypeMux

CONSTANTS t1, t2, s2, p2, u2

MCArgLists == {<<t1, t2>>, <<t1, t1>>}

(* Bound: of the second receiver, the second poster and the second         *)
(* goroutine that unsubscribes, one takes part at a time; the second       *)
(* receiver is then created, and the second poster posts, before the clock *)
(* advances.  It holds back only NewSub, PostCall and Unsubscribe, which   *)
(* nothing obliges.                                                        *)
Bound ==
  \/ reg[s2] = "none" /\ pev[p2].n = 0
  \/ reg[s2] = "none" /\ cpc[u2] = "idle" /\ pev[p2].time = 0
  \/ pev[p2].n = 0 /\ cpc[u2] = "idle" /\ created[s2] = 0

MCSpec == Init /\ [][Next /\ Bound']_vars /\ Fairness

-----------------------------------------------------------------------------
(* Nobody waits for ever: Stop and Unsubscribe return, whoever reads, and  *)
(* once Stop has been called every Post returns.                           *)
CallsReturn == ClosersReturn /\ PostsReturnAfterStop

=============================================================================
