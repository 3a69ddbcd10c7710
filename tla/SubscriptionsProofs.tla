------------------------- MODULE SubscriptionsProofs -------------------------
(***************************************************************************)
(* Proofs about event/subscription.go.  Of Scope, for every set of         *)
(* subscriptions and callers: the types, that no error of a producer is    *)
(* lost or taken by a caller of Unsubscribe, that Close leaves nothing     *)
(* subscribed behind, and that what has been unsubscribed through its      *)
(* wrapper is not kept.  Of Resubscribe, for every set of attempts and     *)
(* callers and every backoff: one inner subscription at a time, quiet      *)
(* after Unsubscribe, and a wait that doubles up to its cap.               *)
(***************************************************************************)
EXTENDS MCSubscriptions, FiniteSetTheorems, TLAPS

(* Where NewSubscription's goroutine and the flags under funSub.mu are: an *)
(* error is reported only where no Unsubscribe has closed the quit channel *)
(* and whoever has closed it waits until the goroutine is gone.            *)
ProducerFlags ==
  \A s \in Subs :
    /\ prod[s] = "none" => ~unsubscribed[s]
    /\ prod[s] \in {"none", "running", "returned"} =>
         err[s] + noticed[s] = 0 /\ (unsubscribed[s] => quit[s])
    /\ prod[s] \in {"ended", "closed"} => unsubscribed[s]
    /\ quit[s] => unsubscribed[s] /\ err[s] + noticed[s] = 0
QuitterWaits ==
  \A s \in Subs : quit[s] /\ prod[s] # "closed" =>
    \E c \in Callers : upc[c] = "wait" /\ target[c] = s
ErrorKept ==
  \A s \in Subs :
    /\ err[s] + noticed[s] <= 1
    /\ prod[s] \in {"ended", "closed"} /\ failed[s] /\ ~quit[s] => err[s] + noticed[s] = 1

(* Where a call of Unsubscribe is.                                         *)
CallTargets ==
  \A c \in Callers :
    /\ upc[c] # "idle" => target[c] \in Subs /\ prod[target[c]] # "none"
    /\ upc[c] = "wait" => quit[target[c]]
    /\ upc[c] = "returned" => unsubscribed[target[c]]
RoleCalls ==
  \A c \in Callers :
    /\ role[c] = "none" => upc[c] = "idle"
    /\ role[c] \in {"direct", "wrapper"} => upc[c] # "idle"
    /\ role[c] = "wrapper" => target[c] \in tracked

(* What the scope keeps; Close has a call for what it does not range over  *)
(* any more.                                                               *)
TrackedExist == \A s \in tracked : prod[s] # "none"
ForgottenUnsubscribed == \A s \in tracked \ subs : unsubscribed[s]
CloseRange ==
  /\ mu = Nobody => left = {} /\ (closed => subs = {})
  /\ mu # Nobody => closed
  /\ \A c \in Callers : role[c] = "closing" =>
       \A s \in subs : unsubscribed[s] \/ s \in left \/ (upc[c] = "unsub" /\ target[c] = s)

FlagsInv == ProducerFlags /\ ErrorKept /\ CallTargets
ScopeInv == RoleCalls /\ TrackedExist /\ ForgottenUnsubscribed /\ CloseRange /\ GoneNotTracked
IInv == TypeOK /\ FlagsInv /\ QuitterWaits /\ ScopeInv

-----------------------------------------------------------------------------
USE NobodyAssumption DEF ProdStates, CallStates, Roles, FunTypeOK

LEMMA InitInv == Init => IInv
<1> SUFFICES ASSUME Init PROVE IInv
  OBVIOUS
<1>1. TypeOK
  <2>1. FunTypeOK
    BY DEF Init, FunInit
  <2> QED BY <2>1 DEF Init, TypeOK
<1>2. FlagsInv /\ QuitterWaits
  BY DEF Init, FunInit, FlagsInv, ProducerFlags, ErrorKept, CallTargets, QuitterWaits
<1>3. ScopeInv
  BY DEF Init, FunInit, ScopeInv, RoleCalls, TrackedExist, ForgottenUnsubscribed, CloseRange, GoneNotTracked
<1> QED BY <1>1, <1>2, <1>3 DEF IInv

(* What a step leaves alone when it changes a subscription only, and when  *)
(* it changes nothing of one.                                              *)
LEMMA ScopeFrame ==
  ASSUME IInv, UNCHANGED <<callVars, scopeVars, role, histVars>>,
         \A s \in Subs : (prod[s] # "none" => prod'[s] # "none") /\ (unsubscribed[s] => unsubscribed'[s])
  PROVE  ScopeInv'
<1>1. RoleCalls' /\ GoneNotTracked'
  BY DEF IInv, ScopeInv, RoleCalls, GoneNotTracked, callVars, scopeVars, histVars
<1>2. TrackedExist' /\ ForgottenUnsubscribed'
  BY DEF IInv, TypeOK, ScopeInv, TrackedExist, ForgottenUnsubscribed, callVars, scopeVars, histVars
<1>3. CloseRange'
  BY DEF IInv, TypeOK, ScopeInv, CloseRange, callVars, scopeVars, histVars
<1> QED BY <1>1, <1>2, <1>3 DEF ScopeInv

LEMMA ProducerInv ==
  ASSUME IInv, NEW s \in Subs, ProducerStep(s), UNCHANGED <<scopeVars, role, histVars>>
  PROVE  IInv'
<1>1. UNCHANGED callVars /\ quit' = quit
  BY DEF ProducerStep, NewSubscription, ProducerReturns, ProducerEnds, CloseErr, OwnerReceives, callVars
<1>2. TypeOK'
  <2>1. FunTypeOK'
    <3>1. prod' \in [Subs -> ProdStates] /\ failed' \in [Subs -> BOOLEAN]
      BY DEF IInv, TypeOK, ProducerStep, NewSubscription, ProducerReturns, ProducerEnds, CloseErr, OwnerReceives
    <3>2. unsubscribed' \in [Subs -> BOOLEAN]
      BY DEF IInv, TypeOK, ProducerStep, NewSubscription, ProducerReturns, ProducerEnds, CloseErr, OwnerReceives
    <3>3. \A r \in Subs : err[r] \in 0..1 /\ noticed[r] \in 0..1 /\ err[r] + noticed[r] <= 1
      BY DEF IInv, TypeOK, FlagsInv, ErrorKept
    <3>4. prod[s] = "returned" => err[s] = 0
      BY <3>3 DEF IInv, FlagsInv, ProducerFlags
    <3>5. err' \in [Subs -> 0..1]
      BY <3>3, <3>4 DEF IInv, TypeOK, ProducerStep, NewSubscription, ProducerReturns, ProducerEnds, CloseErr,
         OwnerReceives
    <3>6. noticed' \in [Subs -> 0..1]
      BY <3>3 DEF IInv, TypeOK, ProducerStep, NewSubscription, ProducerReturns, ProducerEnds, CloseErr,
         OwnerReceives
    <3> QED BY <1>1, <3>1, <3>2, <3>5, <3>6 DEF IInv, TypeOK, callVars
  <2> QED BY <2>1, <1>1 DEF IInv, TypeOK, scopeVars, histVars
<1>3. \A r \in Subs : r # s => /\ prod'[r] = prod[r] /\ failed'[r] = failed[r] /\ err'[r] = err[r]
                               /\ unsubscribed'[r] = unsubscribed[r] /\ noticed'[r] = noticed[r]
  BY DEF IInv, TypeOK, ProducerStep, NewSubscription, ProducerReturns, ProducerEnds, CloseErr, OwnerReceives
<1>4. /\ prod[s] # "none" => prod'[s] # "none"
      /\ unsubscribed[s] => unsubscribed'[s]
      /\ prod[s] = "closed" => prod'[s] = "closed"
  BY DEF IInv, TypeOK, ProducerStep, NewSubscription, ProducerReturns, ProducerEnds, CloseErr, OwnerReceives
<1>5. ProducerFlags'
  <2>1. /\ prod'[s] = "none" => ~unsubscribed'[s]
        /\ prod'[s] \in {"none", "running", "returned"} =>
             err'[s] + noticed'[s] = 0 /\ (unsubscribed'[s] => quit[s])
        /\ prod'[s] \in {"ended", "closed"} => unsubscribed'[s]
        /\ quit[s] => unsubscribed'[s] /\ err'[s] + noticed'[s] = 0
    BY DEF IInv, TypeOK, FlagsInv, ProducerFlags, ProducerStep, NewSubscription, ProducerReturns,
       ProducerEnds, CloseErr, OwnerReceives
  <2> QED BY <1>1, <1>3, <2>1 DEF IInv, FlagsInv, ProducerFlags
<1>6. ErrorKept'
  <2>1. /\ err'[s] + noticed'[s] <= 1
        /\ prod'[s] \in {"ended", "closed"} /\ failed'[s] /\ ~quit[s] => err'[s] + noticed'[s] = 1
    BY DEF IInv, TypeOK, FlagsInv, ProducerFlags, ErrorKept, ProducerStep, NewSubscription, ProducerReturns,
       ProducerEnds, CloseErr, OwnerReceives
  <2> QED BY <1>1, <1>3, <2>1 DEF IInv, FlagsInv, ErrorKept
<1>7. CallTargets'
  BY <1>1, <1>3, <1>4 DEF IInv, FlagsInv, CallTargets, callVars
<1>8. QuitterWaits'
  BY <1>1, <1>3, <1>4 DEF IInv, QuitterWaits, callVars
<1>9. ScopeInv'
  BY <1>1, <1>3, <1>4, ScopeFrame
<1> QED BY <1>2, <1>5, <1>6, <1>7, <1>8, <1>9 DEF IInv, FlagsInv

(* A step of funSub.Unsubscribe itself.                                    *)
LEMMA CallStepInv ==
  ASSUME IInv, NEW c \in Callers, CallStep(c), UNCHANGED <<scopeVars, role, histVars>>
  PROVE  IInv'
<1>1. PICK s \in Subs : s = target[c]
  BY DEF IInv, FlagsInv, CallTargets, CallStep, MarkUnsubscribed, ProducerAwaited
<1>2. /\ UNCHANGED <<prod, failed, noticed, target>>
      /\ \A r \in Subs : r # s => unsubscribed'[r] = unsubscribed[r] /\ quit'[r] = quit[r]
      /\ \A d \in Callers : d # c => upc'[d] = upc[d]
      /\ upc[c] # "idle" /\ upc'[c] # "idle"
      /\ unsubscribed[s] => unsubscribed'[s]
      /\ quit[s] => quit'[s]
  BY <1>1 DEF CallStep, MarkUnsubscribed, ProducerAwaited, IInv, TypeOK
<1>3. err' = err
  BY <1>1 DEF CallStep, MarkUnsubscribed, ProducerAwaited, IInv, TypeOK, FlagsInv, ProducerFlags, CallTargets
<1>4. TypeOK'
  <2>1. FunTypeOK'
    <3>1. /\ prod' \in [Subs -> ProdStates] /\ failed' \in [Subs -> BOOLEAN]
          /\ target' \in [Callers -> Subs \cup {Nobody}] /\ noticed' \in [Subs -> 0..1]
          /\ err' \in [Subs -> 0..1]
      BY <1>2, <1>3 DEF IInv, TypeOK, FunTypeOK
    <3>2. upc' \in [Callers -> CallStates]
      BY DEF CallStep, MarkUnsubscribed, ProducerAwaited, CallStates, IInv, TypeOK, FunTypeOK
    <3>3. unsubscribed' \in [Subs -> BOOLEAN] /\ quit' \in [Subs -> BOOLEAN]
      BY DEF CallStep, MarkUnsubscribed, ProducerAwaited, IInv, TypeOK, FunTypeOK
    <3> QED BY <3>1, <3>2, <3>3 DEF FunTypeOK
  <2> QED BY <2>1, <1>2 DEF IInv, TypeOK, scopeVars, histVars
<1>5. /\ upc[c] = "unsub" \/ (upc[c] = "wait" /\ prod[s] = "closed")
      /\ upc'[c] = "wait" => quit'[s]
      /\ upc'[c] \in {"wait", "returned"} /\ unsubscribed'[s]
      /\ quit'[s] = quit[s] \/ (upc'[c] = "wait" /\ ~unsubscribed[s])
  BY <1>1, <1>3 DEF CallStep, MarkUnsubscribed, ProducerAwaited, IInv, TypeOK, FlagsInv, ProducerFlags, CallTargets
<1>6. ProducerFlags'
  <2>1. prod[s] # "none" /\ (~unsubscribed[s] => err[s] + noticed[s] = 0)
    BY <1>1, <1>2 DEF IInv, TypeOK, FlagsInv, ProducerFlags, CallTargets
  <2>2. quit'[s] => unsubscribed'[s] /\ err[s] + noticed[s] = 0
    BY <1>5, <2>1 DEF IInv, FlagsInv, ProducerFlags
  <2>3. prod[s] # "closed" /\ unsubscribed'[s] /\ prod[s] \in {"running", "returned"} => quit'[s]
    BY <1>1, <1>2 DEF CallStep, MarkUnsubscribed, ProducerAwaited, IInv, TypeOK, FlagsInv, ProducerFlags
  <2> QED BY <1>2, <1>3, <1>5, <2>1, <2>2, <2>3 DEF IInv, FlagsInv, ProducerFlags
<1>7. ErrorKept'
  BY <1>2, <1>3, <1>5 DEF IInv, FlagsInv, ErrorKept
<1>8. CallTargets'
  BY <1>1, <1>2, <1>5 DEF IInv, FlagsInv, CallTargets
<1>9. QuitterWaits'
  BY <1>1, <1>2, <1>5 DEF IInv, FlagsInv, ProducerFlags, QuitterWaits
<1>10. ScopeInv'
  <2>1. RoleCalls' /\ GoneNotTracked' /\ TrackedExist'
    BY <1>2 DEF IInv, ScopeInv, RoleCalls, GoneNotTracked, TrackedExist, scopeVars, histVars
  <2>2. ForgottenUnsubscribed'
    BY <1>2 DEF IInv, TypeOK, ScopeInv, ForgottenUnsubscribed, scopeVars, histVars
  <2>3. CloseRange'
    BY <1>1, <1>2, <1>5 DEF IInv, TypeOK, ScopeInv, CloseRange, scopeVars, histVars
  <2> QED BY <2>1, <2>2, <2>3 DEF ScopeInv
<1> QED BY <1>4, <1>6, <1>7, <1>8, <1>9, <1>10 DEF IInv, FlagsInv

(* What is left of a subscription when a call begins or ends.              *)
LEMMA FlagsFrame ==
  ASSUME IInv, UNCHANGED subVars, UNCHANGED noticed PROVE ProducerFlags' /\ ErrorKept'
BY DEF IInv, FlagsInv, ProducerFlags, ErrorKept, subVars

(* A call begins, on a subscription that exists, of a caller who is not    *)
(* waiting in another.                                                     *)
LEMMA CallBegins ==
  ASSUME IInv, NEW c \in Callers, NEW s \in Subs, Call(c, s), upc[c] \in {"idle", "returned"},
         prod[s] # "none", UNCHANGED subVars, UNCHANGED noticed
  PROVE  /\ FunTypeOK' /\ FlagsInv' /\ QuitterWaits'
         /\ upc'[c] = "unsub" /\ target'[c] = s
         /\ \A d \in Callers : d # c => upc'[d] = upc[d] /\ target'[d] = target[d]
<1>1. /\ upc'[c] = "unsub" /\ target'[c] = s
      /\ \A d \in Callers : d # c => upc'[d] = upc[d] /\ target'[d] = target[d]
  BY DEF Call, IInv, TypeOK
<1>2. FunTypeOK'
  BY DEF Call, IInv, TypeOK, subVars
<1>3. CallTargets'
  BY <1>1 DEF IInv, FlagsInv, CallTargets, subVars
<1>4. QuitterWaits'
  BY <1>1 DEF IInv, QuitterWaits, subVars
<1> QED BY <1>1, <1>2, <1>3, <1>4, FlagsFrame DEF FlagsInv

LEMMA CallEnds ==
  ASSUME IInv, NEW c \in Callers, EndCall(c), upc[c] \in {"idle", "returned"},
         UNCHANGED subVars, UNCHANGED noticed
  PROVE  /\ FunTypeOK' /\ FlagsInv' /\ QuitterWaits'
         /\ upc'[c] = "idle"
         /\ \A d \in Callers : d # c => upc'[d] = upc[d] /\ target'[d] = target[d]
<1>1. /\ upc'[c] = "idle"
      /\ \A d \in Callers : d # c => upc'[d] = upc[d] /\ target'[d] = target[d]
  BY DEF EndCall, IInv, TypeOK
<1>2. FunTypeOK'
  BY DEF EndCall, IInv, TypeOK, subVars
<1>3. CallTargets'
  BY <1>1 DEF IInv, FlagsInv, CallTargets, subVars
<1>4. QuitterWaits'
  BY <1>1 DEF IInv, QuitterWaits, subVars
<1> QED BY <1>1, <1>2, <1>3, <1>4, FlagsFrame DEF FlagsInv

-----------------------------------------------------------------------------
LEMMA TrackInv == ASSUME IInv, NEW s \in Subs, Track(s) PROVE IInv'
<1>1. TypeOK'
  BY DEF Track, IInv, TypeOK, funVars, subVars, callVars
<1>2. FlagsInv'
  BY DEF Track, IInv, FlagsInv, ProducerFlags, ErrorKept, CallTargets, funVars, subVars, callVars
<1>3. QuitterWaits'
  BY DEF Track, IInv, QuitterWaits, funVars, subVars, callVars
<1>4. ScopeInv'
  BY DEF Track, IInv, TypeOK, ScopeInv, RoleCalls, TrackedExist, ForgottenUnsubscribed, CloseRange,
     GoneNotTracked, funVars, subVars, callVars
<1> QED BY <1>1, <1>2, <1>3, <1>4 DEF IInv

(* An Unsubscribe of the owner or of a wrapper begins.                     *)
LEMMA BeginInv ==
  ASSUME IInv, NEW c \in Callers, NEW s \in Subs, DirectUnsubscribe(c, s) \/ WrapperUnsubscribe(c, s)
  PROVE  IInv'
<1>1. /\ role[c] = "none" /\ upc[c] = "idle" /\ prod[s] # "none" /\ Call(c, s)
      /\ role'[c] \in {"direct", "wrapper"} /\ (role'[c] = "wrapper" => s \in tracked)
      /\ \A d \in Callers : d # c => role'[d] = role[d]
      /\ role' \in [Callers -> Roles]
      /\ UNCHANGED <<subVars, noticed, scopeVars, histVars>>
  BY DEF DirectUnsubscribe, WrapperUnsubscribe, IInv, TypeOK, ScopeInv, RoleCalls, TrackedExist
<1>2. /\ FunTypeOK' /\ FlagsInv' /\ QuitterWaits'
      /\ upc'[c] = "unsub" /\ target'[c] = s
      /\ \A d \in Callers : d # c => upc'[d] = upc[d] /\ target'[d] = target[d]
  BY <1>1, CallBegins
<1>3. TypeOK'
  BY <1>1, <1>2 DEF IInv, TypeOK, scopeVars, histVars
<1>4. ScopeInv'
  <2>1. RoleCalls'
    BY <1>1, <1>2 DEF IInv, ScopeInv, RoleCalls, histVars
  <2>2. TrackedExist' /\ ForgottenUnsubscribed' /\ GoneNotTracked'
    BY <1>1 DEF IInv, ScopeInv, TrackedExist, ForgottenUnsubscribed, GoneNotTracked, scopeVars, histVars, subVars
  <2>3. CloseRange'
    BY <1>1, <1>2 DEF IInv, ScopeInv, CloseRange, scopeVars, subVars
  <2> QED BY <2>1, <2>2, <2>3 DEF ScopeInv
<1> QED BY <1>2, <1>3, <1>4 DEF IInv

LEMMA DirectReturnInv == ASSUME IInv, NEW c \in Callers, DirectReturn(c) PROVE IInv'
<1>1. /\ role[c] = "direct" /\ role'[c] = "none" /\ EndCall(c) /\ upc[c] = "returned"
      /\ \A d \in Callers : d # c => role'[d] = role[d]
      /\ role' \in [Callers -> Roles]
      /\ UNCHANGED <<subVars, noticed, scopeVars, histVars>>
  BY DEF DirectReturn, IInv, TypeOK
<1>2. /\ FunTypeOK' /\ FlagsInv' /\ QuitterWaits' /\ upc'[c] = "idle"
      /\ \A d \in Callers : d # c => upc'[d] = upc[d] /\ target'[d] = target[d]
  BY <1>1, CallEnds
<1>3. TypeOK'
  BY <1>1, <1>2 DEF IInv, TypeOK, scopeVars, histVars
<1>4. ScopeInv'
  <2>1. RoleCalls'
    BY <1>1, <1>2 DEF IInv, ScopeInv, RoleCalls, histVars
  <2>2. TrackedExist' /\ ForgottenUnsubscribed' /\ GoneNotTracked'
    BY <1>1 DEF IInv, ScopeInv, TrackedExist, ForgottenUnsubscribed, GoneNotTracked, scopeVars, histVars, subVars
  <2>3. CloseRange'
    BY <1>1, <1>2 DEF IInv, ScopeInv, CloseRange, scopeVars, subVars
  <2> QED BY <2>1, <2>2, <2>3 DEF ScopeInv
<1> QED BY <1>2, <1>3, <1>4 DEF IInv

LEMMA ForgetInv == ASSUME IInv, NEW c \in Callers, Forget(c) PROVE IInv'
<1>1. PICK s \in Subs : s = target[c]
  BY DEF Forget, IInv, FlagsInv, CallTargets
<1>2. /\ role[c] = "wrapper" /\ role'[c] = "none" /\ EndCall(c) /\ upc[c] = "returned" /\ mu = Nobody
      /\ \A d \in Callers : d # c => role'[d] = role[d]
      /\ role' \in [Callers -> Roles]
      /\ subs' = subs \ {s} /\ gone' = gone \cup {s}
      /\ UNCHANGED <<subVars, noticed, mu, closed, left, tracked>>
  BY <1>1 DEF Forget, IInv, TypeOK
<1>3. /\ FunTypeOK' /\ FlagsInv' /\ QuitterWaits' /\ upc'[c] = "idle"
      /\ \A d \in Callers : d # c => upc'[d] = upc[d] /\ target'[d] = target[d]
  BY <1>2, CallEnds
<1>4. s \in tracked /\ unsubscribed[s]
  BY <1>1, <1>2 DEF IInv, ScopeInv, RoleCalls, FlagsInv, CallTargets
<1>5. TypeOK'
  BY <1>2, <1>3, <1>4 DEF IInv, TypeOK, ScopeInv, CloseRange
<1>6. ScopeInv'
  <2>1. RoleCalls'
    BY <1>2, <1>3 DEF IInv, ScopeInv, RoleCalls
  <2>2. TrackedExist' /\ ForgottenUnsubscribed' /\ GoneNotTracked'
    BY <1>2, <1>4 DEF IInv, ScopeInv, TrackedExist, ForgottenUnsubscribed, GoneNotTracked, subVars
  <2>3. CloseRange'
    BY <1>2, <1>3 DEF IInv, ScopeInv, CloseRange, subVars
  <2> QED BY <2>1, <2>2, <2>3 DEF ScopeInv
<1> QED BY <1>3, <1>5, <1>6 DEF IInv

LEMMA CloseInv == ASSUME IInv, NEW c \in Callers, Close(c) PROVE IInv'
<1>1. /\ role[c] = "none" /\ role'[c] = "closing" /\ mu = Nobody /\ mu' = c /\ closed' /\ closed' = TRUE
      /\ \A d \in Callers : d # c => role'[d] = role[d]
      /\ role' \in [Callers -> Roles] /\ left' = subs
      /\ UNCHANGED <<funVars, subs, tracked, gone>>
  BY DEF Close, IInv, TypeOK, histVars
<1>2. TypeOK'
  BY <1>1 DEF IInv, TypeOK, funVars, subVars, callVars
<1>3. FlagsInv' /\ QuitterWaits'
  BY <1>1 DEF IInv, FlagsInv, ProducerFlags, ErrorKept, CallTargets, QuitterWaits, funVars, subVars, callVars
<1>4. ScopeInv'
  <2>1. RoleCalls' /\ TrackedExist' /\ ForgottenUnsubscribed' /\ GoneNotTracked'
    BY <1>1 DEF IInv, ScopeInv, RoleCalls, TrackedExist, ForgottenUnsubscribed, GoneNotTracked,
       funVars, subVars, callVars
  <2>2. CloseRange'
    BY <1>1, <1>2 DEF TypeOK, CloseRange
  <2> QED BY <2>1, <2>2 DEF ScopeInv
<1> QED BY <1>2, <1>3, <1>4 DEF IInv

(* Close goes on to the next subscription: the call it comes from has      *)
(* unsubscribed its own.                                                   *)
LEMMA CloseNextInv == ASSUME IInv, NEW c \in Callers, CloseNext(c) PROVE IInv'
<1>1. PICK s \in left : Call(c, s) /\ left' = left \ {s}
  BY DEF CloseNext
<1>2. /\ role[c] = "closing" /\ mu = c /\ upc[c] \in {"idle", "returned"}
      /\ UNCHANGED <<subVars, noticed, mu, closed, subs, role, tracked, gone>>
  BY DEF CloseNext, IInv, TypeOK, histVars
<1>3. s \in Subs /\ s \in tracked /\ prod[s] # "none"
  BY <1>1 DEF IInv, TypeOK, ScopeInv, TrackedExist
<1>4. /\ FunTypeOK' /\ FlagsInv' /\ QuitterWaits'
      /\ upc'[c] = "unsub" /\ target'[c] = s
      /\ \A d \in Callers : d # c => upc'[d] = upc[d] /\ target'[d] = target[d]
  BY <1>1, <1>2, <1>3, CallBegins
<1>5. TypeOK'
  BY <1>1, <1>2, <1>4 DEF IInv, TypeOK
<1>6. ScopeInv'
  <2>1. RoleCalls'
    BY <1>2, <1>4 DEF IInv, ScopeInv, RoleCalls
  <2>2. TrackedExist' /\ ForgottenUnsubscribed' /\ GoneNotTracked'
    BY <1>2 DEF IInv, ScopeInv, TrackedExist, ForgottenUnsubscribed, GoneNotTracked, subVars
  <2>3. \A d \in Callers : role'[d] = "closing" => d = c
    BY <1>2 DEF IInv, TypeOK
  <2>4. CloseRange'
    BY <1>1, <1>2, <1>4, <2>3 DEF IInv, ScopeInv, CloseRange, subVars
  <2> QED BY <2>1, <2>2, <2>4 DEF ScopeInv
<1> QED BY <1>4, <1>5, <1>6 DEF IInv

LEMMA CloseReturnInv == ASSUME IInv, NEW c \in Callers, CloseReturn(c) PROVE IInv'
<1>1. /\ role[c] = "closing" /\ mu = c /\ upc[c] \in {"idle", "returned"} /\ left = {} /\ closed
      /\ EndCall(c) /\ subs' = {} /\ mu' = Nobody /\ role'[c] = "none"
      /\ \A d \in Callers : d # c => role'[d] = role[d]
      /\ role' \in [Callers -> Roles]
      /\ UNCHANGED <<subVars, noticed, closed, left, tracked, gone>>
  BY DEF CloseReturn, IInv, TypeOK, histVars, ScopeInv, CloseRange
<1>2. /\ FunTypeOK' /\ FlagsInv' /\ QuitterWaits' /\ upc'[c] = "idle"
      /\ \A d \in Callers : d # c => upc'[d] = upc[d] /\ target'[d] = target[d]
  BY <1>1, CallEnds
<1>3. \A s \in tracked : unsubscribed[s]
  BY <1>1 DEF IInv, ScopeInv, ForgottenUnsubscribed, CloseRange
<1>4. \A d \in Callers : d # c => role[d] # "closing"
  BY <1>1 DEF IInv, TypeOK
<1>5. TypeOK'
  BY <1>1, <1>2, <1>4 DEF IInv, TypeOK
<1>6. ScopeInv'
  <2>1. RoleCalls'
    BY <1>1, <1>2 DEF IInv, ScopeInv, RoleCalls
  <2>2. TrackedExist' /\ ForgottenUnsubscribed' /\ GoneNotTracked'
    BY <1>1, <1>3 DEF IInv, ScopeInv, TrackedExist, ForgottenUnsubscribed, GoneNotTracked, subVars
  <2>3. CloseRange'
    BY <1>1, <1>4 DEF CloseRange
  <2> QED BY <2>1, <2>2, <2>3 DEF ScopeInv
<1> QED BY <1>2, <1>5, <1>6 DEF IInv

LEMMA StepInv == IInv /\ [Next]_vars => IInv'
<1> SUFFICES ASSUME IInv, [Next]_vars PROVE IInv'
  OBVIOUS
<1>1. CASE \E s \in Subs : ProducerStep(s) /\ UNCHANGED <<scopeVars, role, histVars>>
  BY <1>1, ProducerInv
<1>2. CASE \E s \in Subs : Track(s)
  BY <1>2, TrackInv
<1>3. CASE \E c \in Callers : CallerStep(c)
  BY <1>3, CallStepInv, BeginInv, DirectReturnInv, ForgetInv, CloseInv, CloseNextInv, CloseReturnInv DEF CallerStep
<1>4. CASE UNCHANGED vars
  BY <1>4 DEF vars, funVars, subVars, callVars, scopeVars, histVars, IInv, TypeOK, FlagsInv, ProducerFlags,
     ErrorKept, CallTargets, QuitterWaits, ScopeInv, RoleCalls, TrackedExist, ForgottenUnsubscribed, CloseRange,
     GoneNotTracked
<1> QED BY <1>1, <1>2, <1>3, <1>4 DEF Next

LEMMA InvAlways == Spec => []IInv
BY InitInv, StepInv, PTL DEF Spec

-----------------------------------------------------------------------------
(* Every variable keeps its type; Close is under way exactly while         *)
(* somebody keeps the scope's mutex, and ranges over what is tracked.      *)
THEOREM TypeCorrect == Spec => []TypeOK
<1>1. IInv => TypeOK
  BY DEF IInv
<1> QED BY <1>1, InvAlways, PTL

(* No error is lost or swallowed, Close leaves no subscription behind that *)
(* nobody is waiting for, and none is tracked for ever.                    *)
THEOREM ScopeIsSound == Spec => []ScopeSound
<1>1. IInv => NoErrorSwallowed
  BY DEF IInv, TypeOK, FlagsInv, ErrorKept, ProducerFlags, CallTargets, NoErrorSwallowed
<1>2. IInv => CloseUnsubscribesAll
  BY DEF IInv, TypeOK, FlagsInv, ProducerFlags, QuitterWaits, ScopeInv, CloseRange, ForgottenUnsubscribed,
     CloseUnsubscribesAll
<1>3. IInv => GoneNotTracked
  BY DEF IInv, ScopeInv
<1>4. IInv => ScopeSound
  BY <1>1, <1>2, <1>3 DEF ScopeSound
<1> QED BY <1>4, InvAlways, PTL

-----------------------------------------------------------------------------
(* ResubscribeErr.                                                         *)

(* Powers of two, by the number of subsets of an interval.                 *)
LEMMA PowerZero == 2^0 = 1
<1>1. IsFiniteSet({}) /\ Cardinality({}) = 0
  BY FS_EmptySet
<1>2. Cardinality(SUBSET {}) = 2^0
  BY <1>1, FS_SUBSET
<1>3. SUBSET {} = {{}}
  OBVIOUS
<1> QED BY <1>2, <1>3, FS_Singleton

LEMMA PowerNext == ASSUME NEW q \in Nat PROVE 2^q \in Nat /\ 2^(q + 1) = 2 * 2^q
<1> DEFINE I == 1..q
           Low == SUBSET I
           High == {T \cup {q + 1} : T \in SUBSET I}
<1>1. IsFiniteSet(I) /\ Cardinality(I) = q
  BY FS_Interval
<1>2. IsFiniteSet(Low) /\ Cardinality(Low) = 2^q
  BY <1>1, FS_SUBSET
<1>3. IsFiniteSet(1..(q + 1)) /\ Cardinality(1..(q + 1)) = q + 1
  BY FS_Interval
<1>4. Cardinality(SUBSET (1..(q + 1))) = 2^(q + 1)
  BY <1>3, FS_SUBSET
<1>5. IsFiniteSet(High) /\ Cardinality(High) = Cardinality(Low)
  <2> DEFINE f == [T \in Low |-> T \cup {q + 1}]
  <2>1. \A T \in Low : q + 1 \notin T
    OBVIOUS
  <2>2. f \in Bijection(Low, High)
    <3>1. f \in [Low -> High]
      OBVIOUS
    <3>2. ASSUME NEW S \in Low, NEW T \in Low, f[S] = f[T] PROVE S = T
      <4>1. S = f[S] \ {q + 1} /\ T = f[T] \ {q + 1}
        BY <2>1
      <4> QED BY <4>1, <3>2
    <3>3. \A U \in High : \E T \in Low : f[T] = U
      OBVIOUS
    <3> QED BY <3>1, <3>2, <3>3 DEF Bijection, Injection, Surjection, IsInjective
  <2> QED BY <2>2, <1>2, FS_Bijection DEF ExistsBijection
<1>6. SUBSET (1..(q + 1)) = Low \cup High /\ Low \cap High = {}
  <2>1. ASSUME NEW S \in SUBSET (1..(q + 1)), q + 1 \in S PROVE S \in High
    <3>1. S \ {q + 1} \in Low
      OBVIOUS
    <3>2. S = (S \ {q + 1}) \cup {q + 1}
      BY <2>1, Zenon
    <3> QED BY <3>1, <3>2, Zenon
  <2>2. ASSUME NEW S \in SUBSET (1..(q + 1)), q + 1 \notin S PROVE S \in Low
    BY <2>2
  <2>3. ASSUME NEW T \in Low PROVE T \subseteq 1..(q + 1) /\ T \cup {q + 1} \subseteq 1..(q + 1)
    OBVIOUS
  <2>4. \A S \in Low : q + 1 \notin S
    OBVIOUS
  <2>5. \A S \in High : q + 1 \in S
    OBVIOUS
  <2>6. High \subseteq SUBSET (1..(q + 1)) /\ Low \subseteq SUBSET (1..(q + 1))
    BY <2>3
  <2> HIDE DEF Low, High
  <2>7. SUBSET (1..(q + 1)) \subseteq Low \cup High
    BY <2>1, <2>2
  <2> QED BY <2>4, <2>5, <2>6, <2>7
<1>7. Cardinality(SUBSET (1..(q + 1))) = 2^q + 2^q
  <2> HIDE DEF Low, High
  <2>1. Cardinality(Low \cap High) = 0
    BY <1>6, FS_EmptySet
  <2>2. Cardinality(Low \cup High) = Cardinality(Low) + Cardinality(High) - Cardinality(Low \cap High)
    BY <1>2, <1>5, FS_Union
  <2>3. Cardinality(Low) \in Nat
    BY <1>2, FS_CardinalityType
  <2>4. Cardinality(SUBSET (1..(q + 1))) = Cardinality(Low) + Cardinality(Low)
    <3>1. Cardinality(Low \cup High) = Cardinality(Low) + Cardinality(Low)
      BY <1>5, <2>1, <2>2, <2>3
    <3>2. SUBSET (1..(q + 1)) = Low \cup High
      BY <1>6
    <3> QED BY <3>1, <3>2, Zenon
  <2> QED BY <1>2, <2>4
<1>8. 2^q \in Nat
  BY <1>2, FS_CardinalityType
<1> QED BY <1>4, <1>7, <1>8

(* unsubOnce is busy exactly while one caller is inside it; the goroutine  *)
(* of fn is that of the attempt the loop waits for; nothing but fn's       *)
(* subscription is left of it.                                             *)
Inside == {c \in LoopCallers : lcall[c] \in {"sending", "wait"}}
OnceHeld == IF once = "running" THEN \E c \in LoopCallers : Inside = {c} ELSE Inside = {}
FnAwaited == \A k \in Attempts : fpc[k] # "none" => k = cur /\ lpc \in {"await", "drain"}
NothingGranted == \A k \in Attempts : fpc[k] = "sending" /\ res[k] # "sub" => inner[k] = "none"
DoneEnds == once = "done" => lpc = "ended"
LoopTypes ==
  /\ lpc \in Loop!LoopStates /\ cur \in Attempts
  /\ fpc \in [Attempts -> {"none", "calling", "sending"}]
  /\ res \in [Attempts -> Loop!Results]
  /\ inner \in [Attempts -> Loop!InnerStates]
  /\ waitTime \in Nat /\ quick \in Nat
  /\ once \in {"free", "running", "done"}
  /\ lcall \in [LoopCallers -> {"idle", "once", "sending", "wait"}]
  /\ dropped \subseteq Attempts

LoopInv ==
  /\ LoopTypes /\ OnceHeld /\ FnAwaited /\ NothingGranted /\ DoneEnds
  /\ Loop!OneAtATime /\ Loop!BackoffGrows

LEMMA BaseIs == Loop!Base \in Nat /\ Loop!Base <= BackoffMax
BY BackoffAssumption DEF Loop!Base

LEMMA LoopInit == Loop!Init => LoopInv
<1> SUFFICES ASSUME Loop!Init PROVE LoopInv
  OBVIOUS
<1>1. LoopTypes
  BY BaseIs DEF Loop!Init, LoopTypes, Loop!LoopStates, Loop!Results, Loop!InnerStates
<1>2. OnceHeld /\ FnAwaited /\ NothingGranted /\ DoneEnds /\ Loop!OneAtATime
  BY DEF Loop!Init, OnceHeld, Inside, FnAwaited, NothingGranted, DoneEnds, Loop!OneAtATime, Loop!Unreleased
<1>3. Loop!BackoffGrows
  <2>1. waitTime = Loop!Base /\ quick = 0
    BY DEF Loop!Init
  <2>2. Loop!Base * 2^quick = Loop!Base
    BY <2>1, PowerZero, BaseIs
  <2> QED BY <2>1, <2>2, BaseIs, BackoffAssumption DEF Loop!BackoffGrows
<1> QED BY <1>1, <1>2, <1>3 DEF LoopInv

(* A backoff doubles the wait, or is the first of a row.                   *)
LEMMA BackoffStep ==
  ASSUME LoopInv, NEW slow \in BOOLEAN, Loop!Backoff(slow)
  PROVE  waitTime' \in Nat /\ quick' \in Nat /\ Loop!BackoffGrows'
<1> DEFINE P == 2^quick
<1>1. waitTime \in Nat /\ quick \in Nat /\ P \in Nat
  BY PowerNext DEF LoopInv, LoopTypes
<1>2. waitTime = IF Loop!Base * P > BackoffMax THEN BackoffMax ELSE Loop!Base * P
  BY DEF LoopInv, Loop!BackoffGrows
<1>3. CASE slow
  <2>1. waitTime' = Loop!Base /\ quick' = 0
    BY <1>3 DEF Loop!Backoff
  <2>2. Loop!Base * 2^quick' = Loop!Base
    BY <2>1, PowerZero, BaseIs
  <2> QED BY <2>1, <2>2, BaseIs, BackoffAssumption DEF Loop!BackoffGrows
<1>4. CASE ~slow /\ waitTime < BackoffMax
  <2>1. waitTime' = Loop!Doubled(waitTime) /\ quick' = quick + 1
    BY <1>4, <1>1 DEF Loop!Backoff
  <2>2. 2^quick' = 2 * P
    BY <2>1, <1>1, PowerNext
  <2>3. waitTime = Loop!Base * P
    BY <1>2, <1>4, <1>1, BackoffAssumption
  <2>4. Loop!Base * (2 * P) = 2 * (Loop!Base * P)
    <3> HIDE DEF P
    <3> QED BY <1>1, BaseIs
  <2>5. Loop!Base * 2^quick' = 2 * waitTime
    BY <2>2, <2>3, <2>4
  <2> QED BY <2>1, <2>5, <1>1, BackoffAssumption DEF Loop!BackoffGrows, Loop!Doubled
<1>5. CASE ~slow /\ ~(waitTime < BackoffMax)
  <2>1. waitTime = BackoffMax
    BY <1>2, <1>5, <1>1, BackoffAssumption
  <2>2. waitTime' = waitTime /\ quick' = quick
    BY <1>5, <1>1, <2>1, BackoffAssumption DEF Loop!Backoff, Loop!Doubled
  <2> QED BY <2>2, <1>1, <1>2 DEF Loop!BackoffGrows
<1> QED BY <1>3, <1>4, <1>5

(* The goroutine of fn and the inner subscription.                         *)
LEMMA FnStep ==
  ASSUME LoopInv, NEW k \in Attempts,
         (\E r \in Loop!Results : Loop!FnReturns(k, r)) \/ (\E e \in {"failed", "finished"} : Loop!InnerEnds(k, e))
  PROVE  LoopInv'
<1> USE DEF LoopInv, LoopTypes, Loop!Results, Loop!InnerStates, Loop!backoffVars, Loop!callVars
<1>1. ASSUME NEW r \in Loop!Results, Loop!FnReturns(k, r) PROVE LoopInv'
  <2>1. LoopTypes' /\ UNCHANGED <<lpc, cur, waitTime, quick, once, lcall, dropped>>
    BY <1>1 DEF Loop!FnReturns
  <2>2. OnceHeld' /\ DoneEnds' /\ Loop!BackoffGrows'
    BY <2>1 DEF OnceHeld, Inside, DoneEnds, Loop!BackoffGrows
  <2>3. k = cur /\ lpc \in {"await", "drain"}
    BY <1>1 DEF Loop!FnReturns, FnAwaited
  <2>4. FnAwaited' /\ NothingGranted' /\ Loop!OneAtATime'
    BY <1>1, <2>1, <2>3 DEF Loop!FnReturns, FnAwaited, NothingGranted, Loop!OneAtATime, Loop!Unreleased
  <2> QED BY <2>1, <2>2, <2>4
<1>2. ASSUME NEW e \in {"failed", "finished"}, Loop!InnerEnds(k, e) PROVE LoopInv'
  <2>1. LoopTypes' /\ UNCHANGED <<lpc, cur, fpc, res, waitTime, quick, once, lcall, dropped>>
    BY <1>2 DEF Loop!InnerEnds
  <2>2. OnceHeld' /\ DoneEnds' /\ Loop!BackoffGrows' /\ FnAwaited'
    BY <2>1 DEF OnceHeld, Inside, DoneEnds, Loop!BackoffGrows, FnAwaited
  <2>3. NothingGranted' /\ Loop!OneAtATime'
    BY <1>2, <2>1 DEF Loop!InnerEnds, NothingGranted, Loop!OneAtATime, Loop!Unreleased
  <2> QED BY <2>1, <2>2, <2>3
<1> QED BY <1>1, <1>2

(* The loop.                                                               *)
LEMMA LoopStepInv == ASSUME LoopInv, Loop!LoopStep PROVE LoopInv'
<1> USE DEF LoopInv, LoopTypes, Loop!Results, Loop!InnerStates, Loop!LoopStates, Loop!backoffVars, Loop!callVars,
       Loop!attemptVars
<1>1. once' = once /\ lcall' = lcall
  BY DEF Loop!LoopStep, Loop!StartAttempt, Loop!Subscribed, Loop!Drain, Loop!BackoffOver, Loop!InnerError, Loop!Release
<1>2. OnceHeld'
  BY <1>1 DEF OnceHeld, Inside
<1>3. ASSUME NEW k \in Attempts, Loop!StartAttempt(k) PROVE LoopInv'
  <2>1. LoopTypes' /\ Loop!BackoffGrows'
    BY <1>3 DEF Loop!StartAttempt, Loop!BackoffGrows
  <2>2. FnAwaited' /\ NothingGranted' /\ DoneEnds' /\ Loop!OneAtATime'
    BY <1>1, <1>3 DEF Loop!StartAttempt, FnAwaited, NothingGranted, DoneEnds, Loop!OneAtATime, Loop!Unreleased
  <2> QED BY <1>2, <2>1, <2>2
<1>4. ASSUME NEW slow \in BOOLEAN, Loop!Subscribed(slow) PROVE LoopInv'
  <2>1. lpc = "await" /\ fpc[cur] = "sending" /\ fpc' = [fpc EXCEPT ![cur] = "none"]
        /\ UNCHANGED <<cur, res, inner, dropped>>
    BY <1>4 DEF Loop!Subscribed
  <2>2. \/ res[cur] = "sub" /\ lpc' = "wait" /\ UNCHANGED <<waitTime, quick>>
        \/ res[cur] = "neither" /\ lpc' = "panicked" /\ UNCHANGED <<waitTime, quick>>
        \/ res[cur] = "error" /\ lpc' = "backoff" /\ Loop!Backoff(slow)
    BY <1>4 DEF Loop!Subscribed
  <2>3. waitTime' \in Nat /\ quick' \in Nat /\ Loop!BackoffGrows'
    <3>1. CASE UNCHANGED <<waitTime, quick>>
      BY <3>1 DEF Loop!BackoffGrows
    <3>2. CASE Loop!Backoff(slow)
      BY <3>2, BackoffStep
    <3> QED BY <2>2, <3>1, <3>2
  <2>4. LoopTypes'
    BY <1>1, <2>1, <2>2, <2>3
  <2>5. FnAwaited' /\ NothingGranted' /\ DoneEnds'
    BY <1>1, <2>1, <2>2 DEF FnAwaited, NothingGranted, DoneEnds
  <2>6. Loop!OneAtATime'
    BY <2>1, <2>2 DEF Loop!OneAtATime, Loop!Unreleased, NothingGranted
  <2> QED BY <1>2, <2>3, <2>4, <2>5, <2>6
<1>5. ASSUME Loop!Drain \/ Loop!BackoffOver \/ Loop!InnerError \/ Loop!Release PROVE LoopInv'
  <2>1. LoopTypes' /\ UNCHANGED <<cur, res, waitTime, quick>>
    BY <1>1, <1>5 DEF Loop!Drain, Loop!BackoffOver, Loop!InnerError, Loop!Release
  <2>2. Loop!BackoffGrows'
    BY <2>1 DEF Loop!BackoffGrows
  <2>3. CASE Loop!Drain
    BY <1>1, <1>2, <2>1, <2>2, <2>3 DEF Loop!Drain, FnAwaited, NothingGranted, DoneEnds, Loop!OneAtATime, Loop!Unreleased
  <2>4. CASE Loop!BackoffOver
    BY <1>1, <1>2, <2>1, <2>2, <2>4 DEF Loop!BackoffOver, FnAwaited, NothingGranted, DoneEnds, Loop!OneAtATime,
       Loop!Unreleased
  <2>5. CASE Loop!InnerError
    BY <1>1, <1>2, <2>1, <2>2, <2>5 DEF Loop!InnerError, FnAwaited, NothingGranted, DoneEnds, Loop!OneAtATime,
       Loop!Unreleased
  <2>6. CASE Loop!Release
    BY <1>1, <1>2, <2>1, <2>2, <2>6 DEF Loop!Release, FnAwaited, NothingGranted, DoneEnds, Loop!OneAtATime,
       Loop!Unreleased
  <2> QED BY <1>5, <2>3, <2>4, <2>5, <2>6
<1> QED BY <1>3, <1>4, <1>5 DEF Loop!LoopStep

(* The callers of Unsubscribe.                                             *)
LEMMA CallerInv ==
  ASSUME LoopInv, NEW c \in LoopCallers, Loop!UnsubscribeCall(c) \/ Loop!CallStep(c)
  PROVE  LoopInv'
<1> USE DEF LoopInv, LoopTypes, Loop!LoopStates, Loop!backoffVars, Loop!attemptVars
<1>1. /\ UNCHANGED <<cur, fpc, res, inner, waitTime, quick, dropped>>
      /\ \A d \in LoopCallers \ {c} : lcall'[d] = lcall[d]
      /\ LoopTypes' /\ Loop!BackoffGrows'
  BY DEF Loop!UnsubscribeCall, Loop!CallStep, Loop!TakeUnsub, Loop!UnsubscribeReturn, Loop!OnceReturn,
     Loop!BackoffGrows
<1>2. NothingGranted'
  BY <1>1 DEF NothingGranted
<1>3. CASE Loop!UnsubscribeCall(c)
  <2>1. OnceHeld' /\ DoneEnds'
    BY <1>1, <1>3 DEF Loop!UnsubscribeCall, OnceHeld, Inside, DoneEnds
  <2> QED BY <1>1, <1>2, <1>3, <2>1 DEF Loop!UnsubscribeCall, FnAwaited, Loop!OneAtATime, Loop!Unreleased
<1>4. CASE Loop!TakeUnsub(c)
  <2>1. OnceHeld' /\ DoneEnds'
    BY <1>1, <1>4 DEF Loop!TakeUnsub, OnceHeld, Inside, DoneEnds
  <2> QED BY <1>1, <1>2, <1>4, <2>1 DEF Loop!TakeUnsub, FnAwaited, Loop!OneAtATime, Loop!Unreleased
<1>5. CASE Loop!UnsubscribeReturn(c) \/ Loop!OnceReturn(c)
  <2>1. OnceHeld' /\ DoneEnds'
    BY <1>1, <1>5 DEF Loop!UnsubscribeReturn, Loop!OnceReturn, OnceHeld, Inside, DoneEnds
  <2>2. lpc' = lpc
    BY <1>5 DEF Loop!UnsubscribeReturn, Loop!OnceReturn
  <2> QED BY <1>1, <1>2, <2>1, <2>2 DEF FnAwaited, Loop!OneAtATime, Loop!Unreleased
<1> QED BY <1>3, <1>4, <1>5 DEF Loop!CallStep

LEMMA LoopAlways == MCSpec => []LoopInv
<1>1. LoopInv /\ [MCNext]_allVars => LoopInv'
  <2> SUFFICES ASSUME LoopInv, [MCNext]_allVars PROVE LoopInv'
    OBVIOUS
  <2>1. CASE Loop!Next
    BY <2>1, FnStep, LoopStepInv, CallerInv DEF Loop!Next
  <2>2. CASE UNCHANGED loopVars
    BY <2>2 DEF loopVars, LoopInv, LoopTypes, OnceHeld, Inside, FnAwaited, NothingGranted, DoneEnds,
       Loop!OneAtATime, Loop!Unreleased, Loop!BackoffGrows
  <2> QED BY <2>1, <2>2 DEF MCNext, allVars
<1>2. MCInit => LoopInv
  BY LoopInit DEF MCInit
<1> QED BY <1>1, <1>2, PTL DEF MCSpec

(* ResubscribeErr keeps one inner subscription at a time and has released  *)
(* it when it calls fn again; once Unsubscribe has returned its loop is    *)
(* over and no fn is running, and an inner subscription is left only if    *)
(* subscribe threw it away (line 177); it waits twice as long after every  *)
(* quick failure, up to backoffMax.                                        *)
THEOREM ResubscribeIsSound == MCSpec => []ResubscribeSound
<1>1. ASSUME LoopInv PROVE Loop!TypeOK
  <2>1. Cardinality(Inside) = IF once = "running" THEN 1 ELSE 0
    BY <1>1, FS_EmptySet, FS_Singleton DEF LoopInv, OnceHeld
  <2>2. Inside = {c \in LoopCallers : lcall[c] \in {"sending", "wait"}}
    BY DEF Inside
  <2> HIDE DEF Inside
  <2>3. Loop!Cardinality(Inside) = Cardinality(Inside)
    BY Zenon DEF Loop!Cardinality, Cardinality
  <2> QED BY <1>1, <2>1, <2>2, <2>3 DEF LoopInv, LoopTypes, Loop!TypeOK
<1>2. LoopInv => Loop!OneAtATime /\ Loop!QuietAfterUnsubscribe /\ Loop!BackoffGrows
  BY DEF LoopInv, LoopTypes, FnAwaited, DoneEnds, Loop!QuietAfterUnsubscribe
<1>3. LoopInv => ResubscribeSound
  BY <1>1, <1>2 DEF ResubscribeSound
<1> QED BY <1>3, LoopAlways, PTL

=============================================================================
