------------------------------- MODULE FunSub -------------------------------
(***************************************************************************)
(* event.NewSubscription and funSub (event/subscription.go): a producer    *)
(* function runs in a goroutine of its own until it returns or is told to  *)
(* quit; any number of callers may unsubscribe, the first of them waits    *)
(* for the producer.  A section under funSub.mu has no waiting point and   *)
(* is one action.                                                          *)
(***************************************************************************)
EXTENDS Integers, FiniteSets

CONSTANTS
  Subs,     \* subscriptions
  Callers,  \* goroutines that call Unsubscribe
  Nobody    \* stands for no subscription and no caller

ASSUME NobodyAssumption == Nobody \notin Subs \cup Callers

VARIABLES
  prod,          \* prod[s]: where the goroutine of NewSubscription is
  failed,        \* failed[s]: the producer function returned an error
  unsubscribed,  \* unsubscribed[s]: s.unsubscribed
  quit,          \* quit[s]: s.unsub is closed
  err,           \* err[s]: the number of values in the buffer of s.err
  upc,           \* upc[c]: where the Unsubscribe that c calls is
  target,        \* target[c]: the subscription it is called on, or Nobody
  noticed        \* history: the errors the owner has received from s.err

subVars == <<prod, failed, unsubscribed, quit, err>>
callVars == <<upc, target>>
funVars == <<subVars, callVars, noticed>>

(* "returned": the function has returned; "ended": so has the section      *)
(* under the mutex; "closed": s.err is closed and the goroutine is gone.   *)
ProdStates == {"none", "running", "returned", "ended", "closed"}
CallStates == {"idle", "unsub", "wait", "returned"}

FunInit ==
  /\ prod = [s \in Subs |-> "none"]
  /\ failed = [s \in Subs |-> FALSE]
  /\ unsubscribed = [s \in Subs |-> FALSE]
  /\ quit = [s \in Subs |-> FALSE]
  /\ err = [s \in Subs |-> 0]
  /\ upc = [c \in Callers |-> "idle"]
  /\ target = [c \in Callers |-> Nobody]
  /\ noticed = [s \in Subs |-> 0]

-----------------------------------------------------------------------------
NewSubscription(s) ==
  /\ prod[s] = "none"
  /\ prod' = [prod EXCEPT ![s] = "running"]
  /\ UNCHANGED <<failed, unsubscribed, quit, err, callVars, noticed>>

ProducerReturns(s, e) ==
  /\ prod[s] = "running"
  /\ prod' = [prod EXCEPT ![s] = "returned"]
  /\ failed' = [failed EXCEPT ![s] = e]
  /\ UNCHANGED <<unsubscribed, quit, err, callVars, noticed>>

(* Mutant: the error is sent even if Unsubscribe came first.               *)
ProducerEndsAlwaysSends(s) ==
  /\ prod[s] = "returned"
  /\ prod' = [prod EXCEPT ![s] = "ended"]
  /\ unsubscribed' = [unsubscribed EXCEPT ![s] = TRUE]
  /\ err' = IF failed[s] THEN [err EXCEPT ![s] = @ + 1] ELSE err
  /\ UNCHANGED <<failed, quit, callVars, noticed>>

(* Under s.mu: report the error, unless an Unsubscribe came first.         *)
ProducerEnds(s) ==
  /\ prod[s] = "returned"
  /\ prod' = [prod EXCEPT ![s] = "ended"]
  /\ unsubscribed' = [unsubscribed EXCEPT ![s] = TRUE]
  /\ err' = IF failed[s] /\ ~unsubscribed[s] THEN [err EXCEPT ![s] = @ + 1] ELSE err
  /\ UNCHANGED <<failed, quit, callVars, noticed>>

(* The deferred close(s.err), after the mutex has been released.           *)
CloseErr(s) ==
  /\ prod[s] = "ended"
  /\ prod' = [prod EXCEPT ![s] = "closed"]
  /\ UNCHANGED <<failed, unsubscribed, quit, err, callVars, noticed>>

(* The owner receives from s.Err().                                        *)
OwnerReceives(s) ==
  /\ err[s] > 0
  /\ err' = [err EXCEPT ![s] = @ - 1]
  /\ noticed' = [noticed EXCEPT ![s] = @ + 1]
  /\ UNCHANGED <<prod, failed, unsubscribed, quit, callVars>>

Call(c, s) ==
  /\ upc' = [upc EXCEPT ![c] = "unsub"]
  /\ target' = [target EXCEPT ![c] = s]

EndCall(c) ==
  /\ upc' = [upc EXCEPT ![c] = "idle"]
  /\ target' = [target EXCEPT ![c] = Nobody]

(* Under s.mu: the first caller closes s.unsub, any other returns.         *)
MarkUnsubscribed(c) ==
  /\ upc[c] = "unsub"
  /\ LET s == target[c] IN
       IF unsubscribed[s]
         THEN /\ upc' = [upc EXCEPT ![c] = "returned"]
              /\ UNCHANGED <<unsubscribed, quit>>
         ELSE /\ upc' = [upc EXCEPT ![c] = "wait"]
              /\ unsubscribed' = [unsubscribed EXCEPT ![s] = TRUE]
              /\ quit' = [quit EXCEPT ![s] = TRUE]
  /\ UNCHANGED <<prod, failed, err, target, noticed>>

(* <-s.err: a value if there is one, else the channel is closed.           *)
ProducerAwaited(c) ==
  /\ upc[c] = "wait"
  /\ LET s == target[c] IN
       /\ err[s] > 0 \/ prod[s] = "closed"
       /\ err' = IF err[s] > 0 THEN [err EXCEPT ![s] = @ - 1] ELSE err
  /\ upc' = [upc EXCEPT ![c] = "returned"]
  /\ UNCHANGED <<prod, failed, unsubscribed, quit, target, noticed>>

-----------------------------------------------------------------------------
(* The steps inside NewSubscription's goroutine and inside a call.         *)
ProducerStep(s) ==
  \/ NewSubscription(s)
  \/ \E e \in BOOLEAN : ProducerReturns(s, e)
  \/ ProducerEnds(s)
  \/ CloseErr(s)
  \/ OwnerReceives(s)

CallStep(c) == MarkUnsubscribed(c) \/ ProducerAwaited(c)

(* A producer function returns once its quit channel is closed; nothing    *)
(* else makes it return.                                                   *)
Quits(s) == quit[s] /\ \E e \in BOOLEAN : ProducerReturns(s, e)

FunTypeOK ==
  /\ prod \in [Subs -> ProdStates]
  /\ failed \in [Subs -> BOOLEAN]
  /\ unsubscribed \in [Subs -> BOOLEAN]
  /\ quit \in [Subs -> BOOLEAN]
  /\ err \in [Subs -> 0..1]
  /\ upc \in [Callers -> CallStates]
  /\ target \in [Callers -> Subs \cup {Nobody}]
  /\ noticed \in [Subs -> 0..1]

=============================================================================
