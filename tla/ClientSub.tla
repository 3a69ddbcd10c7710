----------------------------- MODULE ClientSub -----------------------------
(***************************************************************************)
(* ClientSubscription (rpc/subscription.go): a forwarding goroutine (run)  *)
(* between the connection's dispatcher, which must never be kept waiting,  *)
(* and the owner, who may not read.  The channels in, quit and err are     *)
(* unbuffered: a send on them is one action with its receive.  The methods *)
(* of the dispatcher are modelled to the end of their select.              *)
(***************************************************************************)
EXTENDS Integers, Sequences, SequencesExt

CONSTANTS
  Unsubscribers,  \* goroutines that call Unsubscribe
  BufferLimit,    \* maxClientSubscriptionBuffer
  MaxValues       \* bound: notifications of one subscription

VARIABLES
  run,       \* where the goroutine of run is
  result,    \* what forward returned: the error, and whether to unsubscribe
  buffer,    \* forward's list of values the owner has not taken
  dispatch,  \* the dispatcher: "idle", or in the select of deliver or close
  ucall,     \* ucall[u]: where the Unsubscribe that u calls is
  once,      \* sub.errOnce: "new", "busy" or "done"; sub.err is closed when done
  online,    \* the connection has not been closed
  accepted,  \* history: the number of notifications forward has received
  taken,     \* history: the values the owner has received, in order
  told       \* history: the errors the owner has received from Err

clientSubVars ==
  <<run, result, buffer, dispatch, ucall, once, online, accepted, taken, told>>

RunStates == {"forward", "forwarded", "unsubscribing", "reporting", "done"}
Errors == {"none", "nil", "bad value", "overflow", "lost"}
CallStates == {"idle", "once", "select", "await", "returned"}

ForwardDone == run \notin {"forward", "forwarded"}
UnsubDone == run = "done"

Init ==
  /\ run = "forward" /\ result = [err |-> "none", server |-> FALSE]
  /\ buffer = <<>> /\ dispatch = "idle"
  /\ ucall = [u \in Unsubscribers |-> "idle"]
  /\ once = "new" /\ online = TRUE
  /\ accepted = 0 /\ taken = <<>> /\ told = <<>>

-----------------------------------------------------------------------------
(* The dispatcher.                                                         *)

(* A notification whose payload decodes, or does not; or the connection is *)
(* closed, by the client ("nil" is what ErrClientQuit becomes) or not.     *)
Dispatch(what) ==
  /\ dispatch = "idle" /\ online
  /\ what \in {"value", "bad value"} => accepted < MaxValues
  /\ dispatch' = what
  /\ online' = (what \in {"value", "bad value"})
  /\ UNCHANGED <<run, result, buffer, ucall, once, accepted, taken, told>>

(* deliver and close give up when forward has ended.                       *)
GiveUp ==
  /\ dispatch # "idle" /\ ForwardDone
  /\ dispatch' = "idle"
  /\ UNCHANGED <<run, result, buffer, ucall, once, online, accepted, taken, told>>

-----------------------------------------------------------------------------
(* forward.                                                                *)

Return(err, server) ==
  /\ run' = "forwarded"
  /\ result' = [err |-> err, server |-> server]

(* Mutant: the buffer is bounded one too late.                             *)
TakeInLate ==
  /\ run = "forward" /\ dispatch \in {"value", "bad value"}
  /\ dispatch' = "idle"
  /\ \/ dispatch = "bad value" /\ Return("bad value", TRUE) /\ UNCHANGED <<buffer, accepted>>
     \/ /\ dispatch = "value" /\ Len(buffer) > BufferLimit
        /\ Return("overflow", TRUE) /\ UNCHANGED <<buffer, accepted>>
     \/ /\ dispatch = "value" /\ Len(buffer) <= BufferLimit
        /\ accepted' = accepted + 1 /\ buffer' = Append(buffer, accepted')
        /\ UNCHANGED <<run, result>>
  /\ UNCHANGED <<ucall, once, online, taken, told>>

TakeIn ==
  /\ run = "forward" /\ dispatch \in {"value", "bad value"}
  /\ dispatch' = "idle"
  /\ \/ dispatch = "bad value" /\ Return("bad value", TRUE) /\ UNCHANGED <<buffer, accepted>>
     \/ /\ dispatch = "value" /\ Len(buffer) = BufferLimit
        /\ Return("overflow", TRUE) /\ UNCHANGED <<buffer, accepted>>
     \/ /\ dispatch = "value" /\ Len(buffer) # BufferLimit
        /\ accepted' = accepted + 1 /\ buffer' = Append(buffer, accepted')
        /\ UNCHANGED <<run, result>>
  /\ UNCHANGED <<ucall, once, online, taken, told>>

(* The quit of close: the error of the connection, nil when it has none.   *)
QuitByClose ==
  /\ run = "forward" /\ dispatch \in {"nil", "lost"}
  /\ dispatch' = "idle"
  /\ Return(dispatch, FALSE)
  /\ UNCHANGED <<buffer, ucall, once, online, accepted, taken, told>>

(* Mutant: Unsubscribe does not wait for the goroutine.                    *)
QuitByUnsubscribeOnly(u) ==
  /\ run = "forward" /\ ucall[u] = "select"
  /\ ucall' = [ucall EXCEPT ![u] = "returned"] /\ once' = "done"
  /\ Return("none", TRUE)
  /\ UNCHANGED <<buffer, dispatch, online, accepted, taken, told>>

QuitByUnsubscribe(u) ==
  /\ run = "forward" /\ ucall[u] = "select"
  /\ ucall' = [ucall EXCEPT ![u] = "await"]
  /\ Return("none", TRUE)
  /\ UNCHANGED <<buffer, dispatch, once, online, accepted, taken, told>>

(* The owner takes the first value.                                        *)
Forward ==
  /\ run = "forward" /\ buffer # <<>>
  /\ buffer' = Tail(buffer) /\ taken' = Append(taken, Head(buffer))
  /\ UNCHANGED <<run, result, dispatch, ucall, once, online, accepted, told>>

-----------------------------------------------------------------------------
(* run, after forward.                                                     *)

AfterForward == IF result.server THEN "unsubscribing"
                ELSE IF result.err # "none" THEN "reporting" ELSE "done"

(* Mutant: forwardDone is closed after the call to the server.             *)
CloseForwardDoneLate ==
  /\ run = "forwarded"
  /\ result.server => (dispatch = "idle" \/ ~online)
  /\ run' = IF result.err # "none" THEN "reporting" ELSE "done"
  /\ UNCHANGED <<result, buffer, dispatch, ucall, once, online, accepted, taken, told>>

CloseForwardDone ==
  /\ run = "forwarded"
  /\ run' = AfterForward
  /\ UNCHANGED <<result, buffer, dispatch, ucall, once, online, accepted, taken, told>>

(* requestUnsubscribe: a call over the connection, whose answer comes      *)
(* through the dispatcher; without a connection it fails.                  *)
RequestUnsubscribe ==
  /\ run = "unsubscribing"
  /\ dispatch = "idle" \/ ~online
  /\ run' = IF result.err # "none" THEN "reporting" ELSE "done"
  /\ UNCHANGED <<result, buffer, dispatch, ucall, once, online, accepted, taken, told>>

(* sub.err <- err: the owner receives the error.                           *)
Report ==
  /\ run = "reporting"
  /\ run' = "done"
  /\ told' = Append(told, result.err)
  /\ UNCHANGED <<result, buffer, dispatch, ucall, once, online, accepted, taken>>

-----------------------------------------------------------------------------
(* Unsubscribe.                                                            *)

Call(u) ==
  /\ ucall[u] = "idle"
  /\ ucall' = [ucall EXCEPT ![u] = "once"]
  /\ UNCHANGED <<run, result, buffer, dispatch, once, online, accepted, taken, told>>

(* errOnce: the first goes on, later callers wait until it is done.        *)
Once(u) ==
  /\ ucall[u] = "once"
  /\ \/ once = "new" /\ once' = "busy" /\ ucall' = [ucall EXCEPT ![u] = "select"]
     \/ once = "done" /\ once' = once /\ ucall' = [ucall EXCEPT ![u] = "returned"]
  /\ UNCHANGED <<run, result, buffer, dispatch, online, accepted, taken, told>>

(* <-sub.unsubDone, with quit sent or not, and close(sub.err).             *)
Unsubscribed(u) ==
  /\ ucall[u] \in {"select", "await"} /\ UnsubDone
  /\ ucall' = [ucall EXCEPT ![u] = "returned"]
  /\ once' = "done"
  /\ UNCHANGED <<run, result, buffer, dispatch, online, accepted, taken, told>>

-----------------------------------------------------------------------------
DispatchStep == GiveUp \/ TakeIn \/ QuitByClose
CallStep(u) == Once(u) \/ QuitByUnsubscribe(u) \/ Unsubscribed(u)

Next ==
  \/ \E what \in {"value", "bad value", "nil", "lost"} : Dispatch(what)
  \/ DispatchStep \/ CloseForwardDone \/ RequestUnsubscribe \/ Forward \/ Report
  \/ \E u \in Unsubscribers : Call(u) \/ CallStep(u)

Spec == Init /\ [][Next]_clientSubVars

(* Goroutines go on when they can; neither the channel nor Err has to be   *)
(* read.  The answer to the unsubscribe call comes in order with the other *)
(* messages: a dispatcher that is free again and again gets to it.         *)
Fairness ==
  /\ WF_clientSubVars(CloseForwardDone) /\ SF_clientSubVars(RequestUnsubscribe)
  /\ WF_clientSubVars(DispatchStep)
  /\ \A u \in Unsubscribers : WF_clientSubVars(CallStep(u))

-----------------------------------------------------------------------------
(* Types; the buffer keeps to its limit, and nobody who is told an error   *)
(* is told another.                                                        *)
TypeOK ==
  /\ run \in RunStates /\ result \in [err : Errors, server : BOOLEAN]
  /\ buffer \in Seq(1..MaxValues) /\ Len(buffer) <= BufferLimit
  /\ dispatch \in {"idle", "value"} \cup Errors
  /\ ucall \in [Unsubscribers -> CallStates]
  /\ once \in {"new", "busy", "done"} /\ online \in BOOLEAN
  /\ accepted \in 0..MaxValues /\ taken \in Seq(1..MaxValues)
  /\ told \in Seq(Errors) /\ Len(told) <= 1

(* What the owner gets is what the server sent, in order and without a     *)
(* gap, and once Unsubscribe has returned the goroutine is gone: it can    *)
(* neither send a value nor the error on the channel that is now closed.   *)
ForwardsInOrder ==
  /\ taken \o buffer = [i \in 1..accepted |-> i]
  /\ once = "done" => run = "done"

(* deliver and close never keep the dispatcher waiting, whatever the owner *)
(* does with his channels: forwardDone is closed before the goroutine      *)
(* waits for anything that needs the dispatcher.                           *)
DispatcherFree == dispatch # "idle" ~> dispatch = "idle"

(* Unsubscribe returns if the owner goes on reading Err.                   *)
ReaderUnsubscribes ==
  WF_clientSubVars(Report) =>
    \A u \in Unsubscribers : ucall[u] # "idle" ~> ucall[u] = "returned"

=============================================================================
