------------------------------- MODULE Scope -------------------------------
(***************************************************************************)
(* event.SubscriptionScope (event/subscription.go) over the subscriptions  *)
(* of FunSub: Track wraps a subscription and remembers it, the wrapper's   *)
(* Unsubscribe unsubscribes and then forgets it, and Close unsubscribes    *)
(* all that are tracked, keeping the scope's mutex the whole time.         *)
(***************************************************************************)
EXTENDS FunSub

VARIABLES
  mu,       \* who holds sc.mu across a waiting point: a caller inside Close
  closed,   \* sc.closed
  subs,     \* sc.subs
  left,     \* what Close has still to range over
  role,     \* role[c]: what c has called
  tracked,  \* history: subscriptions that Track has wrapped
  gone      \* history: those of which a wrapper's Unsubscribe has returned

scopeVars == <<mu, closed, subs, left>>
histVars == <<tracked, gone>>
vars == <<funVars, scopeVars, role, histVars>>

Roles == {"none", "direct", "wrapper", "closing"}

Init ==
  /\ FunInit
  /\ mu = Nobody /\ closed = FALSE /\ subs = {} /\ left = {}
  /\ role = [c \in Callers |-> "none"]
  /\ tracked = {} /\ gone = {}

-----------------------------------------------------------------------------
(* A closed scope returns nil and tracks nothing.                          *)
Track(s) ==
  /\ mu = Nobody /\ prod[s] # "none" /\ s \notin tracked
  /\ ~closed
  /\ subs' = subs \cup {s}
  /\ tracked' = tracked \cup {s}
  /\ UNCHANGED <<funVars, mu, closed, left, role, gone>>

(* The owner of a subscription calls its Unsubscribe, not the wrapper's.   *)
DirectUnsubscribe(c, s) ==
  /\ role[c] = "none" /\ prod[s] # "none"
  /\ role' = [role EXCEPT ![c] = "direct"]
  /\ Call(c, s)
  /\ UNCHANGED <<subVars, noticed, scopeVars, histVars>>

DirectReturn(c) ==
  /\ role[c] = "direct" /\ upc[c] = "returned"
  /\ role' = [role EXCEPT ![c] = "none"]
  /\ EndCall(c)
  /\ UNCHANGED <<subVars, noticed, scopeVars, histVars>>

WrapperUnsubscribe(c, s) ==
  /\ role[c] = "none" /\ s \in tracked
  /\ role' = [role EXCEPT ![c] = "wrapper"]
  /\ Call(c, s)
  /\ UNCHANGED <<subVars, noticed, scopeVars, histVars>>

(* Only after the inner Unsubscribe has returned is the scope locked.      *)
Forget(c) ==
  /\ role[c] = "wrapper" /\ upc[c] = "returned" /\ mu = Nobody
  /\ subs' = subs \ {target[c]}
  /\ gone' = gone \cup {target[c]}
  /\ role' = [role EXCEPT ![c] = "none"]
  /\ EndCall(c)
  /\ UNCHANGED <<subVars, noticed, mu, closed, left, tracked>>

(* A second Close returns at once.                                         *)
Close(c) ==
  /\ role[c] = "none" /\ mu = Nobody /\ ~closed
  /\ mu' = c
  /\ closed' = TRUE
  /\ left' = subs
  /\ role' = [role EXCEPT ![c] = "closing"]
  /\ UNCHANGED <<funVars, subs, histVars>>

(* The map is ranged over in any order.                                    *)
CloseNext(c) ==
  /\ role[c] = "closing" /\ upc[c] \in {"idle", "returned"}
  /\ \E s \in left : /\ Call(c, s)
                     /\ left' = left \ {s}
  /\ UNCHANGED <<subVars, noticed, mu, closed, subs, role, histVars>>

(* Mutant: Close returns without unlocking the scope.                      *)
CloseReturnLocked(c) ==
  /\ role[c] = "closing" /\ upc[c] \in {"idle", "returned"} /\ left = {}
  /\ subs' = {}
  /\ role' = [role EXCEPT ![c] = "none"]
  /\ EndCall(c)
  /\ UNCHANGED <<subVars, noticed, mu, closed, left, histVars>>

CloseReturn(c) ==
  /\ role[c] = "closing" /\ upc[c] \in {"idle", "returned"} /\ left = {}
  /\ subs' = {}
  /\ mu' = Nobody
  /\ role' = [role EXCEPT ![c] = "none"]
  /\ EndCall(c)
  /\ UNCHANGED <<subVars, noticed, closed, left, histVars>>

-----------------------------------------------------------------------------
CallerStep(c) ==
  \/ CallStep(c) /\ UNCHANGED <<scopeVars, role, histVars>>
  \/ \E s \in Subs : DirectUnsubscribe(c, s) \/ WrapperUnsubscribe(c, s)
  \/ DirectReturn(c) \/ Forget(c)
  \/ Close(c) \/ CloseNext(c) \/ CloseReturn(c)

Next ==
  \/ \E s \in Subs : ProducerStep(s) /\ UNCHANGED <<scopeVars, role, histVars>>
  \/ \E s \in Subs : Track(s)
  \/ \E c \in Callers : CallerStep(c)

Spec == Init /\ [][Next]_vars

(* Goroutines inside a call run on, the scope's mutex starves nobody, and  *)
(* producers obey their quit channel.                                      *)
Fairness ==
  /\ \A s \in Subs :
       WF_vars((Quits(s) \/ ProducerEnds(s) \/ CloseErr(s)) /\ UNCHANGED <<scopeVars, role, histVars>>)
  /\ \A c \in Callers :
       /\ WF_vars(CallStep(c) /\ UNCHANGED <<scopeVars, role, histVars>>)
       /\ WF_vars(CloseNext(c) \/ CloseReturn(c) \/ DirectReturn(c))
       /\ SF_vars(Forget(c))

FairSpec == Spec /\ Fairness

-----------------------------------------------------------------------------
(* Types; Close is under way exactly while somebody keeps the mutex.       *)
TypeOK ==
  /\ FunTypeOK
  /\ mu \in Callers \cup {Nobody} /\ closed \in BOOLEAN
  /\ subs \subseteq tracked /\ left \subseteq subs
  /\ role \in [Callers -> Roles]
  /\ tracked \subseteq Subs /\ gone \subseteq tracked
  /\ \A c \in Callers : role[c] = "closing" <=> mu = c

(* An error of the producer reaches the owner of the subscription: no      *)
(* caller waiting in Unsubscribe can take it away, and there is only one.  *)
NoErrorSwallowed ==
  \A s \in Subs :
    /\ err[s] + noticed[s] <= 1
    /\ prod[s] \in {"ended", "closed"} /\ failed[s] /\ ~quit[s] => err[s] + noticed[s] = 1
    /\ err[s] > 0 => \A c \in Callers : ~(upc[c] = "wait" /\ target[c] = s)

(* After Close a closed scope keeps nothing, everything it ever tracked is *)
(* unsubscribed, and a producer that still runs is one somebody is still   *)
(* waiting for in an Unsubscribe of his own.                               *)
CloseUnsubscribesAll ==
  closed /\ mu = Nobody =>
    /\ subs = {}
    /\ \A s \in tracked :
         /\ unsubscribed[s]
         /\ prod[s] = "running" => \E c \in Callers : upc[c] = "wait" /\ target[c] = s

(* A subscription whose wrapper has been unsubscribed is not tracked.      *)
GoneNotTracked == gone \cap subs = {}

(* NewSubscription and SubscriptionScope: no error is lost or swallowed,   *)
(* Close leaves no subscription behind, none is tracked for ever.          *)
ScopeSound == NoErrorSwallowed /\ CloseUnsubscribesAll /\ GoneNotTracked

(* Close and every Unsubscribe return.                                     *)
CallsReturn == \A c \in Callers : role[c] # "none" ~> role[c] = "none"

=============================================================================
