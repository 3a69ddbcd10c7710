----------------------------- MODULE Resubscribe -----------------------------
(***************************************************************************)
(* event.ResubscribeErr (event/subscription.go): a loop that keeps one     *)
(* inner subscription established.  It calls fn in a goroutine, waits for  *)
(* the result or for Unsubscribe, backs off after a failure, waits for the *)
(* error of an established subscription, and starts again.                 *)
(*                                                                         *)
(* An attempt stands for one call of fn, its goroutine and the inner       *)
(* subscription it may return; an attempt all of which is gone is reused.  *)
(***************************************************************************)
EXTENDS Integers, FiniteSets

CONSTANTS
  Attempts,    \* calls of fn that may be remembered at once
  Callers,     \* goroutines that call Unsubscribe
  BackoffMax   \* s.backoffMax

VARIABLES
  lpc,       \* where the loop is
  cur,       \* the attempt it is at: subscribed, sub
  fpc,       \* fpc[k]: where the goroutine that calls fn is
  res,       \* res[k]: what fn returned
  inner,     \* inner[k]: the subscription fn returned
  waitTime,  \* s.waitTime
  quick,     \* history: failures in a row within backoffMax of the attempt
  once,      \* s.unsubOnce
  upc,       \* upc[c]: where the Unsubscribe that c calls is
  dropped    \* history: attempts whose result was received and thrown away

attemptVars == <<fpc, res, inner>>
backoffVars == <<waitTime, quick>>
callVars == <<once, upc>>
vars == <<lpc, cur, attemptVars, backoffVars, callVars, dropped>>

(* "await": the select over subscribed and unsub; "drain": <-subscribed    *)
(* after unsub; "wait": waitForError; "release": the Unsubscribe of a live *)
(* inner subscription; "ended": s.err is closed; "panicked": the program   *)
(* is gone.                                                                *)
LoopStates == {"subscribe", "await", "drain", "backoff", "wait", "release", "ended", "panicked"}
Results == {"sub", "error", "neither"}
InnerStates == {"none", "live", "failed", "finished", "unsubscribed"}
Base == BackoffMax \div 10

Init ==
  /\ lpc = "subscribe"
  /\ cur \in Attempts
  /\ fpc = [k \in Attempts |-> "none"]
  /\ res = [k \in Attempts |-> "error"]
  /\ inner = [k \in Attempts |-> "none"]
  /\ waitTime = Base /\ quick = 0
  /\ once = "free"
  /\ upc = [c \in Callers |-> "idle"]
  /\ dropped = {}

-----------------------------------------------------------------------------
(* The goroutine of fn and the inner subscription.                         *)

FnReturns(k, r) ==
  /\ fpc[k] = "calling"
  /\ fpc' = [fpc EXCEPT ![k] = "sending"]
  /\ res' = [res EXCEPT ![k] = r]
  /\ inner' = [inner EXCEPT ![k] = IF r = "sub" THEN "live" ELSE "none"]
  /\ UNCHANGED <<lpc, cur, backoffVars, callVars, dropped>>

(* "failed": an error comes out of Err(); "finished": Err() is closed.     *)
InnerEnds(k, e) ==
  /\ inner[k] = "live"
  /\ inner' = [inner EXCEPT ![k] = e]
  /\ UNCHANGED <<lpc, cur, fpc, res, backoffVars, callVars, dropped>>

-----------------------------------------------------------------------------
(* The loop.                                                               *)

StartAttempt(k) ==
  /\ lpc = "subscribe"
  /\ fpc[k] = "none" /\ inner[k] \in {"none", "unsubscribed"}
  /\ lpc' = "await"
  /\ cur' = k
  /\ fpc' = [fpc EXCEPT ![k] = "calling"]
  /\ inner' = [inner EXCEPT ![k] = "none"]
  /\ UNCHANGED <<res, backoffVars, callVars, dropped>>

Doubled(w) == IF 2 * w > BackoffMax THEN BackoffMax ELSE 2 * w

(* slow: the attempt began more than backoffMax ago.  quick stops counting *)
(* where it makes no more difference.                                      *)
Backoff(slow) ==
  /\ waitTime' = IF slow THEN Base ELSE Doubled(waitTime)
  /\ quick' = IF slow THEN 0 ELSE quick + (IF waitTime < BackoffMax THEN 1 ELSE 0)

(* err := <-subscribed                                                     *)
Subscribed(slow) ==
  /\ lpc = "await" /\ fpc[cur] = "sending"
  /\ fpc' = [fpc EXCEPT ![cur] = "none"]
  /\ CASE res[cur] = "sub" -> lpc' = "wait" /\ UNCHANGED backoffVars
       [] res[cur] = "neither" -> lpc' = "panicked" /\ UNCHANGED backoffVars
       [] res[cur] = "error" -> lpc' = "backoff" /\ Backoff(slow)
  /\ UNCHANGED <<cur, res, inner, callVars, dropped>>

(* Mutant: the loop goes on after it has been told to end.                 *)
DrainRetries ==
  /\ lpc = "drain" /\ fpc[cur] = "sending"
  /\ fpc' = [fpc EXCEPT ![cur] = "none"]
  /\ lpc' = IF res[cur] = "error" THEN "subscribe" ELSE "ended"
  /\ dropped' = dropped \cup {cur}
  /\ UNCHANGED <<cur, res, inner, backoffVars, callVars>>

(* <-subscribed once unsub has been received: whatever fn returned is      *)
(* thrown away.                                                            *)
Drain ==
  /\ lpc = "drain" /\ fpc[cur] = "sending"
  /\ fpc' = [fpc EXCEPT ![cur] = "none"]
  /\ lpc' = "ended"
  /\ dropped' = dropped \cup {cur}
  /\ UNCHANGED <<cur, res, inner, backoffVars, callVars>>

BackoffOver ==
  /\ lpc = "backoff"
  /\ lpc' = "subscribe"
  /\ UNCHANGED <<cur, attemptVars, backoffVars, callVars, dropped>>

(* err := <-sub.Err(): the inner subscription has ended by itself; its     *)
(* Unsubscribe, called twice, returns at once.                             *)
InnerError ==
  /\ lpc = "wait" /\ inner[cur] \in {"failed", "finished"}
  /\ lpc' = IF inner[cur] = "failed" THEN "subscribe" ELSE "ended"
  /\ inner' = [inner EXCEPT ![cur] = "unsubscribed"]
  /\ UNCHANGED <<cur, fpc, res, backoffVars, callVars, dropped>>

(* Unsubscribe of the inner subscription returns once its producer has     *)
(* ended.                                                                  *)
Release ==
  /\ lpc = "release"
  /\ inner' = [inner EXCEPT ![cur] = "unsubscribed"]
  /\ lpc' = "ended"
  /\ UNCHANGED <<cur, fpc, res, backoffVars, callVars, dropped>>

-----------------------------------------------------------------------------
(* Unsubscribe: unsubOnce lets one caller in and makes others wait for it. *)

UnsubscribeCall(c) ==
  /\ upc[c] = "idle" /\ once # "done"
  /\ IF once = "free"
       THEN once' = "running" /\ upc' = [upc EXCEPT ![c] = "sending"]
       ELSE upc' = [upc EXCEPT ![c] = "once"] /\ UNCHANGED once
  /\ UNCHANGED <<lpc, cur, attemptVars, backoffVars, dropped>>

(* Mutant: Unsubscribe interrupts a call of fn and does not wait for it.   *)
TakeUnsubLeaves(c) ==
  /\ upc[c] = "sending"
  /\ lpc \in {"await", "backoff", "wait"}
  /\ upc' = [upc EXCEPT ![c] = "wait"]
  /\ lpc' = IF lpc = "wait" THEN "release" ELSE "ended"
  /\ UNCHANGED <<cur, attemptVars, backoffVars, once, dropped>>

(* s.unsub <- struct{}{}: the loop takes it in any of its three selects.   *)
TakeUnsub(c) ==
  /\ upc[c] = "sending"
  /\ \/ lpc = "await" /\ lpc' = "drain"
     \/ lpc = "backoff" /\ lpc' = "ended"
     \/ lpc = "wait" /\ lpc' = "release"
  /\ upc' = [upc EXCEPT ![c] = "wait"]
  /\ UNCHANGED <<cur, attemptVars, backoffVars, once, dropped>>

UnsubscribeReturn(c) ==
  /\ upc[c] = "wait" /\ lpc = "ended"
  /\ upc' = [upc EXCEPT ![c] = "idle"]
  /\ once' = "done"
  /\ UNCHANGED <<lpc, cur, attemptVars, backoffVars, dropped>>

OnceReturn(c) ==
  /\ upc[c] = "once" /\ once = "done"
  /\ upc' = [upc EXCEPT ![c] = "idle"]
  /\ UNCHANGED <<lpc, cur, attemptVars, backoffVars, once, dropped>>

-----------------------------------------------------------------------------
(* A call that can go on.                                                  *)
CallStep(c) == TakeUnsub(c) \/ UnsubscribeReturn(c) \/ OnceReturn(c)

LoopStep ==
  \/ \E k \in Attempts : StartAttempt(k)
  \/ \E slow \in BOOLEAN : Subscribed(slow)
  \/ Drain \/ BackoffOver \/ InnerError \/ Release

Running == lpc # "panicked"

Next ==
  /\ Running
  /\ \/ LoopStep
     \/ \E k \in Attempts : \/ \E r \in Results : FnReturns(k, r)
                            \/ \E e \in {"failed", "finished"} : InnerEnds(k, e)
     \/ \E c \in Callers : UnsubscribeCall(c) \/ CallStep(c)

Spec == Init /\ [][Next]_vars

(* The loop and the callers run on, the timer of the backoff fires, and fn *)
(* returns once its context is cancelled.  A select that is offered unsub  *)
(* again and again may still choose the other channel each time.           *)
FnCancelled(k) == lpc = "drain" /\ \E r \in Results : FnReturns(k, r)

OthersFair ==
  /\ \A k \in Attempts : WF_vars(FnCancelled(k))
  /\ \A c \in Callers : WF_vars(CallStep(c))

Fairness == WF_vars(LoopStep) /\ OthersFair

FairSpec == Spec /\ Fairness

-----------------------------------------------------------------------------
(* Types; unsubOnce is busy exactly while one caller is inside it.         *)
TypeOK ==
  /\ lpc \in LoopStates /\ cur \in Attempts
  /\ fpc \in [Attempts -> {"none", "calling", "sending"}]
  /\ res \in [Attempts -> Results]
  /\ inner \in [Attempts -> InnerStates]
  /\ waitTime \in Nat /\ quick \in Nat
  /\ once \in {"free", "running", "done"}
  /\ upc \in [Callers -> {"idle", "once", "sending", "wait"}]
  /\ dropped \subseteq Attempts
  /\ Cardinality({c \in Callers : upc[c] \in {"sending", "wait"}}) =
       IF once = "running" THEN 1 ELSE 0

(* The loop keeps one inner subscription at a time: the one before is      *)
(* unsubscribed when fn is called again.  When the loop has ended one may  *)
(* be left, the one that subscribe received after unsub and threw away     *)
(* (line 177): it goes on, and nobody can end it any more.                 *)
Unreleased == {k \in Attempts : inner[k] \in {"live", "failed", "finished"}}

OneAtATime ==
  /\ Unreleased \subseteq {cur}
  /\ lpc \in {"subscribe", "backoff"} => Unreleased = {}
  /\ lpc = "ended" => Unreleased \subseteq dropped

(* When Unsubscribe has returned, the loop is over and no fn is running.   *)
QuietAfterUnsubscribe ==
  once = "done" => lpc = "ended" /\ \A k \in Attempts : fpc[k] = "none"

(* The wait after the n-th quick failure in a row is 2^n tenths of         *)
(* backoffMax, and never more than backoffMax.                             *)
BackoffGrows ==
  waitTime = IF Base * 2^quick > BackoffMax THEN BackoffMax ELSE Base * 2^quick

(* An Unsubscribe the loop has taken notice of returns, whatever fn and    *)
(* the inner subscription were doing.                                      *)
NoticedReturns ==
  \A c \in Callers : Running /\ upc[c] = "wait" ~> upc[c] = "idle"

(* After every failure the loop tries again, or has been told to end.      *)
TriesAgain == lpc = "backoff" ~> lpc \in {"await", "ended"}

(* What the comment of Subscription says: that Unsubscribe is to be called *)
(* in all cases so that the resources of a subscription are released.  The *)
(* inner subscription of a call of fn is one of them.                      *)
ReleasedAfterUnsubscribe == once = "done" => Unreleased = {}

(* What the comment of Subscription says (Unsubscribe must be called in    *)
(* all cases, and any number of times): that it returns.                   *)
UnsubscribeReturns ==
  \A c \in Callers : upc[c] # "idle" ~> (upc[c] = "idle" \/ ~Running)

=============================================================================
