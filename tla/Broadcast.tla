----------------------------- MODULE Broadcast -----------------------------
(***************************************************************************)
(* What a feed promises: a totally ordered broadcast to a changing set of  *)
(* members.  Broadcasts happen one at a time; each goes to exactly the     *)
(* members there were when it began, once each and in any order, and ends  *)
(* when all of them have it.  Members are there for good: the promise ends *)
(* with the first removal of a member.                                     *)
(***************************************************************************)
EXTENDS Integers, FiniteSets

CONSTANTS Members

VARIABLES
  round,     \* the number of the last broadcast that has begun
  joined,    \* the members a broadcast that began now would go to
  pending,   \* the members the current broadcast has still to reach
  reached,   \* reached[s]: the last broadcast s has received
  active,    \* a broadcast is under way
  intact     \* no member has been removed

vars == <<round, joined, pending, reached, active, intact>>

Init ==
  /\ round = 0 /\ active = FALSE /\ intact = TRUE
  /\ joined = {} /\ pending = {}
  /\ reached = [s \in Members |-> 0]

Join(s) ==
  /\ s \notin joined
  /\ joined' = joined \cup {s}
  /\ UNCHANGED <<round, pending, reached, active, intact>>

Begin ==
  /\ ~active
  /\ active' = TRUE
  /\ round' = round + 1
  /\ pending' = joined
  /\ UNCHANGED <<joined, reached, intact>>

Deliver(s) ==
  /\ active /\ s \in pending
  /\ pending' = pending \ {s}
  /\ reached' = [reached EXCEPT ![s] = round]
  /\ UNCHANGED <<round, joined, active, intact>>

End ==
  /\ active /\ pending = {}
  /\ active' = FALSE
  /\ UNCHANGED <<round, joined, pending, reached, intact>>

Next ==
  \/ \E s \in Members : Join(s) \/ Deliver(s)
  \/ Begin
  \/ End
  \/ intact' = FALSE

Spec == Init /\ [][Next]_vars

=============================================================================
