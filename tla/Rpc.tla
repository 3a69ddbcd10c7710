-------------------------------- MODULE Rpc --------------------------------
(***************************************************************************)
(* The parts of rpc that share no state, side by side: a behaviour is one  *)
(* of a part, and the others stay as they start.  Constants and variables  *)
(* are those of the parts.                                                 *)
(***************************************************************************)
EXTENDS Integers, Sequences, FiniteSets

CONSTANTS
  Unsubscribers, BufferLimit, MaxValues,  \* ClientSub
  Ops, SubOps, OpIds, NoOp,               \* ClientCalls
  Calls, MaxNotify,                       \* ServerSubs
  BatchMsgs, Notifications,               \* Batch
  Codecs, Requests,                       \* Server
  Names, Receivers                        \* Registry

VARIABLES
  part,
  run, result, buffer, dispatch, ucall, once, online, accepted, taken, told,
  respWait, resp, closes, opErr, caller, clientSubs, running, open,
  call, notifier, notified, flushed, wire, broken, serverSubs, errch, closing,
  calls, answers, wrote, written, worker, batch,
  serving, codecs, codecState, codecOpen, request, afterStop,
  services, latest

(* Two operations have no id in common (the client's counter), and a       *)
(* subscription is one request.  The variadic parameter is a slice, so no  *)
(* context.                                                                *)
ASSUME BoundsAssumption ==
  /\ BufferLimit \in Nat /\ MaxValues \in Nat /\ MaxNotify \in Nat
  /\ IsFiniteSet(BatchMsgs)
ASSUME OpsAssumption ==
  /\ NoOp \notin Ops /\ SubOps \subseteq Ops
  /\ \A o, p \in Ops : o # p => OpIds[o] \cap OpIds[p] = {}
  /\ \A o \in SubOps : \A i, j \in OpIds[o] : i = j

ASSUME MethodsAssumption ==
  /\ Names \subseteq Seq(STRING)
  /\ \A r \in Receivers : \A f \in DOMAIN r :
       /\ f \in Seq(STRING) /\ r[f].in \in Seq(STRING) /\ r[f].variadic \in BOOLEAN
       /\ r[f].variadic => Len(r[f].in) > 0 /\ r[f].in[Len(r[f].in)] = "other"

Sub == INSTANCE ClientSub
Cli == INSTANCE ClientCalls
Srv == INSTANCE ServerSubs
Bat == INSTANCE Batch
Stp == INSTANCE Server
Reg == INSTANCE Registry

subVars == <<run, result, buffer, dispatch, ucall, once, online, accepted, taken, told>>
cliVars == <<respWait, resp, closes, opErr, caller, clientSubs, running, open>>
srvVars == <<call, notifier, notified, flushed, wire, broken, serverSubs, errch, closing>>
batVars == <<calls, answers, wrote, written, worker, batch>>
stpVars == <<serving, codecs, codecState, codecOpen, request, afterStop>>
regVars == <<services, latest>>
rpcVars == <<subVars, cliVars, srvVars, batVars, stpVars, regVars>>

RpcParts == {"client subscription", "calls", "server subscriptions", "batch", "server", "registry"}

RpcInit == Sub!Init /\ Cli!Init /\ Srv!Init /\ Bat!Init /\ Stp!Init /\ Reg!Init

RpcNext ==
  /\ UNCHANGED part
  /\ \/ /\ part = "client subscription" /\ Sub!Next
        /\ UNCHANGED <<cliVars, srvVars, batVars, stpVars, regVars>>
     \/ /\ part = "calls" /\ Cli!Next
        /\ UNCHANGED <<subVars, srvVars, batVars, stpVars, regVars>>
     \/ /\ part = "server subscriptions" /\ Srv!Next
        /\ UNCHANGED <<subVars, cliVars, batVars, stpVars, regVars>>
     \/ /\ part = "batch" /\ Bat!Next
        /\ UNCHANGED <<subVars, cliVars, srvVars, stpVars, regVars>>
     \/ /\ part = "server" /\ Stp!Next
        /\ UNCHANGED <<subVars, cliVars, srvVars, batVars, regVars>>
     \/ /\ part = "registry" /\ Reg!Next
        /\ UNCHANGED <<subVars, cliVars, srvVars, batVars, stpVars>>

RpcSpec == RpcInit /\ part \in RpcParts /\ [][RpcNext]_<<part, rpcVars>>

(* The fair actions of a part that is not run are disabled where it starts.*)
RpcFairness == Sub!Fairness /\ Srv!Fairness

-----------------------------------------------------------------------------
(* The types of all parts' variables; see their modules.                   *)
TypeOK == Sub!TypeOK /\ Cli!TypeOK /\ Srv!TypeOK /\ Bat!TypeOK /\ Stp!TypeOK

(* ClientSubscription: a subscriber gets what the server sent, in order    *)
(* and without a gap, and once Unsubscribe has returned the forwarding     *)
(* goroutine is gone.                                                      *)
ForwardsInOrder == Sub!ForwardsInOrder

(* handler: op.resp is never closed twice or sent on after that, and no    *)
(* waiting caller is neither in the table nor answered.                    *)
CallsSound == Cli!CallsSound

(* Notifier and handler: the client learns a subscription's id first and   *)
(* then every notification once and in order, those kept in the buffer     *)
(* until then included; the service is told once that a subscription is    *)
(* over, also when the connection closes.                                  *)
ServerSubsSound == Srv!NotificationsFollowId /\ Srv!EverySubscriptionEnds

(* handleBatch: a batch is answered in one message with one answer for     *)
(* each of its calls, timeout or not.                                      *)
AnsweredOnce == Bat!AnsweredOnce

(* Server: once Stop has returned there is no open connection that the     *)
(* server serves, and no single request that is called then is served.     *)
StoppedServesNone == Stp!StoppedServesNone

(* serviceRegistry: what a client can call is what the last receivers      *)
(* registered under a name expose.                                         *)
MethodsFound == Reg!MethodsFound

(* A connection's dispatcher is never kept waiting by a subscriber, a      *)
(* subscriber's Unsubscribe returns if he reads Err, and close of the      *)
(* server's side comes to its end.                                         *)
ConnectionsGoOn == Sub!DispatcherFree /\ Sub!ReaderUnsubscribes /\ Srv!CloseReturns

=============================================================================
