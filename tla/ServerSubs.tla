---------------------------- MODULE ServerSubs -----------------------------
(***************************************************************************)
(* Subscriptions on the server's side of a connection: the Notifier        *)
(* (rpc/subscription.go) buffers what the service notifies until the       *)
(* client has been sent the subscription's id, and the handler             *)
(* (rpc/handler.go) keeps the subscriptions until the client unsubscribes  *)
(* or the connection closes.  Each subscribe call runs in a goroutine of   *)
(* its own (startCallProc); what that goroutine does with the answer, and  *)
(* in which order, is not in this commit and follows the comments of       *)
(* takeSubscription and activate.                                          *)
(***************************************************************************)
EXTENDS Integers, Sequences, FiniteSets

CONSTANTS
  Calls,          \* subscribe calls, each with a notifier of its own
  MaxNotify       \* bound: notifications of one subscription

VARIABLES
  call,        \* call[k]: where the goroutine of the call is
  notifier,    \* notifier[k]: its sub, callReturned, activated and buffer
  notified,    \* notified[k]: how many notifications the service has made
  flushed,     \* flushed[k]: how many of the buffer activate has sent
  wire,        \* what has been written to the connection
  broken,      \* writing to the connection fails from now on
  serverSubs,  \* h.serverSubs
  errch,       \* errch[k]: sub.err: values sent into it, and its closes
  closing      \* h.close: "open", in CallWG.Wait, or "closed"

serverVars ==
  <<call, notifier, notified, flushed, wire, broken, serverSubs, errch, closing>>

CallStates == {"none", "running", "returned", "activating", "done"}
NoNotifier == [created |-> FALSE, returned |-> FALSE, activated |-> FALSE, buffer |-> <<>>]

Init ==
  /\ call = [k \in Calls |-> "none"]
  /\ notifier = [k \in Calls |-> NoNotifier]
  /\ notified = [k \in Calls |-> 0] /\ flushed = [k \in Calls |-> 0]
  /\ wire = <<>> /\ broken = FALSE
  /\ serverSubs = {}
  /\ errch = [k \in Calls |-> [sent |-> 0, closes |-> 0]]
  /\ closing = "open"

(* A notification on the wire: of which subscription, and which one.       *)
Value(k, n) == <<"value", k, n>>

Goto(k, at) == call' = [call EXCEPT ![k] = at]

-----------------------------------------------------------------------------
(* A call of the client; the dispatcher takes none once it has closed.     *)
startCallProc(k) ==
  /\ closing = "open" /\ call[k] = "none"
  /\ Goto(k, "running")
  /\ UNCHANGED <<notifier, notified, flushed, wire, broken, serverSubs, errch, closing>>

(* The service creates its subscription during the call, once: a second    *)
(* one, or one after the call has returned, makes it panic.                *)
CreateSubscription(k) ==
  /\ call[k] = "running" /\ ~notifier[k].created /\ ~notifier[k].returned
  /\ notifier' = [notifier EXCEPT ![k].created = TRUE]
  /\ UNCHANGED <<call, notified, flushed, wire, broken, serverSubs, errch, closing>>

(* The callback returns: takeSubscription and addSubscriptions.            *)
addSubscriptions(k) ==
  /\ call[k] = "running"
  /\ notifier' = [notifier EXCEPT ![k].returned = TRUE]
  /\ serverSubs' = IF notifier[k].created THEN serverSubs \cup {k} ELSE serverSubs
  /\ Goto(k, "returned")
  /\ UNCHANGED <<notified, flushed, wire, broken, errch, closing>>

(* The answer, with the id, is written; activate takes n.mu.               *)
Answer(k) ==
  /\ call[k] = "returned"
  /\ \/ notifier[k].created /\ ~broken /\ Goto(k, "activating") /\ wire' = Append(wire, <<"id", k>>)
     \/ notifier[k].created /\ broken /\ Goto(k, "activating") /\ UNCHANGED wire
     \/ ~notifier[k].created /\ Goto(k, "done") /\ UNCHANGED wire
  /\ UNCHANGED <<notifier, notified, flushed, broken, serverSubs, errch, closing>>

-----------------------------------------------------------------------------
(* Under n.mu, which activate keeps from its first to its last write.      *)
Locked(k) == call[k] = "activating" /\ flushed[k] > 0

Flush(k) ==
  /\ call[k] = "activating" /\ flushed[k] < Len(notifier[k].buffer) /\ ~broken
  /\ wire' = Append(wire, Value(k, notifier[k].buffer[flushed[k] + 1]))
  /\ flushed' = [flushed EXCEPT ![k] = @ + 1]
  /\ UNCHANGED <<call, notifier, notified, broken, serverSubs, errch, closing>>

(* activate gives up at the first error and leaves the buffer as it is.    *)
FlushFails(k) ==
  /\ call[k] = "activating" /\ flushed[k] < Len(notifier[k].buffer) /\ broken
  /\ Goto(k, "done")
  /\ UNCHANGED <<notifier, notified, flushed, wire, broken, serverSubs, errch, closing>>

Activated(k) ==
  /\ call[k] = "activating" /\ flushed[k] = Len(notifier[k].buffer)
  /\ notifier' = [notifier EXCEPT ![k].activated = TRUE]
  /\ Goto(k, "done")
  /\ UNCHANGED <<notified, flushed, wire, broken, serverSubs, errch, closing>>

(* Mutant: an answered call counts as activated.                           *)
NotifyDirectly(k) ==
  /\ notifier[k].created /\ ~Locked(k) /\ notified[k] < MaxNotify
  /\ notified' = [notified EXCEPT ![k] = @ + 1]
  /\ \/ notifier[k].returned /\ ~broken
        /\ wire' = Append(wire, Value(k, notified'[k])) /\ UNCHANGED notifier
     \/ notifier[k].returned /\ broken /\ UNCHANGED <<wire, notifier>>
     \/ ~notifier[k].returned /\ UNCHANGED wire
        /\ notifier' = [notifier EXCEPT ![k].buffer = Append(@, notified'[k])]
  /\ UNCHANGED <<call, flushed, broken, serverSubs, errch, closing>>

(* The service notifies: written at once, with an error if that fails, or  *)
(* buffered if the subscription is not active.                             *)
Notify(k) ==
  /\ notifier[k].created /\ ~Locked(k) /\ notified[k] < MaxNotify
  /\ notified' = [notified EXCEPT ![k] = @ + 1]
  /\ \/ notifier[k].activated /\ ~broken
        /\ wire' = Append(wire, Value(k, notified'[k])) /\ UNCHANGED notifier
     \/ notifier[k].activated /\ broken /\ UNCHANGED <<wire, notifier>>
     \/ ~notifier[k].activated /\ UNCHANGED wire
        /\ notifier' = [notifier EXCEPT ![k].buffer = Append(@, notified'[k])]
  /\ UNCHANGED <<call, flushed, broken, serverSubs, errch, closing>>

(* The connection breaks.                                                  *)
Break ==
  /\ ~broken /\ broken' = TRUE
  /\ UNCHANGED <<call, notifier, notified, flushed, wire, serverSubs, errch, closing>>

-----------------------------------------------------------------------------
(* The client unsubscribes, in a call of its own; an id that is not in the *)
(* table changes nothing.                                                  *)
unsubscribe(k) ==
  /\ closing # "closed" /\ k \in serverSubs
  /\ errch' = [errch EXCEPT ![k].closes = @ + 1]
  /\ serverSubs' = serverSubs \ {k}
  /\ UNCHANGED <<call, notifier, notified, flushed, wire, broken, closing>>

(* close: no call is started any more, and those under way are awaited.    *)
Close ==
  /\ closing = "open" /\ closing' = "waiting"
  /\ UNCHANGED <<call, notifier, notified, flushed, wire, broken, serverSubs, errch>>

Waited == \A k \in Calls : call[k] \in {"none", "done"}

CancelAll ==
  /\ errch' = [k \in Calls |-> IF k \in serverSubs
                                 THEN [sent |-> errch[k].sent + 1, closes |-> errch[k].closes + 1]
                                 ELSE errch[k]]
  /\ serverSubs' = {} /\ closing' = "closed"

cancelServerSubscriptions ==
  /\ closing = "waiting" /\ Waited
  /\ CancelAll
  /\ UNCHANGED <<call, notifier, notified, flushed, wire, broken>>

-----------------------------------------------------------------------------
CallStep(k) ==
  \/ CreateSubscription(k) \/ addSubscriptions(k) \/ Answer(k)
  \/ Flush(k) \/ FlushFails(k) \/ Activated(k)

Next ==
  \/ \E k \in Calls : startCallProc(k) \/ CallStep(k) \/ Notify(k) \/ unsubscribe(k)
  \/ Break \/ Close \/ cancelServerSubscriptions

Spec == Init /\ [][Next]_serverVars

(* The calls run to their end and close goes on after them.                *)
Fairness ==
  /\ \A k \in Calls : WF_serverVars(addSubscriptions(k) \/ Answer(k) \/ Flush(k)
                                      \/ FlushFails(k) \/ Activated(k))
  /\ WF_serverVars(cancelServerSubscriptions)

-----------------------------------------------------------------------------
TypeOK ==
  /\ call \in [Calls -> CallStates]
  /\ \A k \in Calls : /\ notifier[k].created \in BOOLEAN /\ notifier[k].activated \in BOOLEAN
                      /\ notifier[k].returned \in BOOLEAN
                      /\ notifier[k].buffer \in Seq(1..MaxNotify)
  /\ notified \in [Calls -> 0..MaxNotify] /\ flushed \in [Calls -> 0..MaxNotify]
  /\ broken \in BOOLEAN /\ serverSubs \subseteq Calls
  /\ closing \in {"open", "waiting", "closed"}

(* The client learns the id of a subscription before its first             *)
(* notification, and gets the notifications in the order they were made,   *)
(* each once and without a gap: what Notify buffers is flushed by activate *)
(* and what it writes directly follows, under n.mu.                        *)
Before(m, j) == \E i \in 1..(j - 1) : wire[i] = m

NotificationsFollowId ==
  \A k \in Calls :
    /\ \A j \in DOMAIN wire, n \in 1..MaxNotify : wire[j] = Value(k, n) =>
         /\ Before(<<"id", k>>, j) /\ ~Before(Value(k, n), j)
         /\ \A m \in 1..(n - 1) : Before(Value(k, m), j)
    /\ ~broken /\ notifier[k].activated =>
         \A n \in 1..notified[k] : \E j \in DOMAIN wire : wire[j] = Value(k, n)

(* What the comment of CreateSubscription says: notifications are dropped  *)
(* until the subscription is active.  Those of the buffer were made before.*)
DroppedUntilActive ==
  \A k \in Calls, j \in DOMAIN wire, n \in 1..MaxNotify :
    wire[j] = Value(k, n) => \A i \in DOMAIN notifier[k].buffer : notifier[k].buffer[i] # n

(* The service is told once that a subscription is over, and is told of    *)
(* every one when the connection closes: none is added after the table has *)
(* been emptied, and none is closed by unsubscribe and close.              *)
EverySubscriptionEnds ==
  /\ \A k \in Calls : errch[k].closes <= 1 /\ errch[k].sent <= errch[k].closes
  /\ closing = "closed" =>
       \A k \in Calls : call[k] = "done" /\ notifier[k].created => errch[k].closes = 1

(* close comes to its end: the buffer of one of sub.err never lets it wait *)
(* and a call under way is not kept from its end by close.                 *)
CloseReturns == closing = "waiting" ~> closing = "closed"

=============================================================================
