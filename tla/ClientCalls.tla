---------------------------- MODULE ClientCalls ----------------------------
(***************************************************************************)
(* The calls a client makes over one connection: the request table of the  *)
(* handler (rpc/handler.go).  The dispatcher alone touches the table; the  *)
(* callers wait on the resp channel of their operation.  The dispatcher's  *)
(* loop and op.wait are not in this commit: when they register, give up    *)
(* and close follows the handler's comment (handler.go:21-34).             *)
(***************************************************************************)
EXTENDS Integers, Sequences, FiniteSets

CONSTANTS
  Ops,     \* operations: calls, batches and subscriptions
  SubOps,  \* those with op.sub set
  OpIds,   \* OpIds[o]: the ids of o's messages
  NoOp     \* no operation

VARIABLES
  respWait,    \* respWait[i]: h.respWait
  resp,        \* resp[o]: what the handler has sent on op.resp
  closes,      \* closes[o]: how often op.resp has been closed
  opErr,       \* opErr[o]: op.err
  caller,      \* caller[o]: where the goroutine that waits for o is
  clientSubs,  \* h.clientSubs: at most the subscription with the empty id
  running,     \* the subscriptions whose run has been started
  open         \* the dispatcher has not called close

callVars == <<respWait, resp, closes, opErr, caller, clientSubs, running, open>>

Ids == UNION {OpIds[o] : o \in Ops}
CallerStates == {"new", "writing", "waiting", "timed out", "ended"}

(* What a response says: a result (of a subscription: its id), an error,   *)
(* or a result that is not the string a subscription id has to be.         *)
Verdicts == {"result", "error", "bad result"}

Init ==
  /\ respWait = [i \in Ids |-> NoOp]
  /\ resp = [o \in Ops |-> <<>>] /\ closes = [o \in Ops |-> 0]
  /\ opErr = [o \in Ops |-> "none"]
  /\ caller = [o \in Ops |-> "new"]
  /\ clientSubs = {} /\ running = {} /\ open = TRUE

-----------------------------------------------------------------------------
addRequestOp(o) == respWait' = [i \in Ids |-> IF i \in OpIds[o] THEN o ELSE respWait[i]]
removeRequestOp(o) == respWait' = [i \in Ids |-> IF i \in OpIds[o] THEN NoOp ELSE respWait[i]]

(* An operation is registered, then written; one is written at a time.     *)
Register(o) ==
  /\ open /\ caller[o] = "new" /\ \A p \in Ops : caller[p] # "writing"
  /\ caller' = [caller EXCEPT ![o] = "writing"]
  /\ addRequestOp(o)
  /\ UNCHANGED <<resp, closes, opErr, clientSubs, running, open>>

Written(o) ==
  /\ open /\ caller[o] = "writing"
  /\ caller' = [caller EXCEPT ![o] = "waiting"]
  /\ UNCHANGED <<respWait, resp, closes, opErr, clientSubs, running, open>>

(* The write fails, and its caller is told so by the write.                *)
WriteFails(o) ==
  /\ open /\ caller[o] = "writing"
  /\ caller' = [caller EXCEPT ![o] = "ended"]
  /\ removeRequestOp(o)
  /\ UNCHANGED <<resp, closes, opErr, clientSubs, running, open>>

(* The caller gives up; the dispatcher hears of it later.                  *)
Timeout(o) ==
  /\ caller[o] = "waiting"
  /\ caller' = [caller EXCEPT ![o] = "timed out"]
  /\ UNCHANGED <<respWait, resp, closes, opErr, clientSubs, running, open>>

TimedOut(o) ==
  /\ open /\ caller[o] = "timed out"
  /\ caller' = [caller EXCEPT ![o] = "ended"]
  /\ removeRequestOp(o)
  /\ UNCHANGED <<resp, closes, opErr, clientSubs, running, open>>

(* The caller has its answers, or finds op.resp closed.                    *)
Answered(o) ==
  /\ caller[o] = "waiting"
  /\ Len(resp[o]) = Cardinality(OpIds[o]) \/ closes[o] > 0
  /\ caller' = [caller EXCEPT ![o] = "ended"]
  /\ UNCHANGED <<respWait, resp, closes, opErr, clientSubs, running, open>>

-----------------------------------------------------------------------------
(* A response for id i: late, repeated and unsolicited ones have no        *)
(* operation in the table.  A subscription is started when its id does not *)
(* decode; the id it is kept under is then empty.                          *)
Respond(i, verdict) ==
  LET o == respWait[i] IN
    /\ o # NoOp
    /\ \/ /\ o \notin SubOps
          /\ resp' = [resp EXCEPT ![o] = Append(@, i)]
          /\ UNCHANGED <<closes, opErr, clientSubs, running>>
       \/ /\ o \in SubOps
          /\ closes' = [closes EXCEPT ![o] = @ + 1]
          /\ \/ /\ verdict = "result"
                /\ opErr' = [opErr EXCEPT ![o] = "none"]
                /\ UNCHANGED <<clientSubs, running>>
             \/ /\ verdict # "result"
                /\ opErr' = [opErr EXCEPT ![o] = "not decoded"]
                /\ clientSubs' = {o} /\ running' = running \cup {o}
          /\ UNCHANGED resp

(* Mutant: the operation stays in the table.                               *)
HandleResponseKeeps(i, verdict) ==
  /\ open
  /\ Respond(i, verdict)
  /\ UNCHANGED <<respWait, caller, open>>

handleResponse(i, verdict) ==
  /\ open
  /\ Respond(i, verdict)
  /\ respWait' = [respWait EXCEPT ![i] = NoOp]
  /\ UNCHANGED <<caller, open>>

(* close: every operation in the table fails, except the one being         *)
(* written, whose caller learns it from the write; op.resp of a batch is   *)
(* closed once although several of its ids may still be in the table.      *)
Inflight == {o \in Ops : caller[o] = "writing"}
Pending == {o \in Ops : \E i \in OpIds[o] : respWait[i] = o}

cancelAllRequests ==
  /\ open /\ open' = FALSE
  /\ respWait' = [i \in Ids |-> NoOp]
  /\ closes' = [o \in Ops |-> IF o \in Pending \ Inflight THEN closes[o] + 1 ELSE closes[o]]
  /\ opErr' = [o \in Ops |-> IF o \in Pending \ Inflight THEN "lost" ELSE opErr[o]]
  /\ caller' = [o \in Ops |-> IF o \in Inflight THEN "ended" ELSE caller[o]]
  /\ clientSubs' = {}
  /\ UNCHANGED <<resp, running>>

-----------------------------------------------------------------------------
Next ==
  \/ \E o \in Ops : \/ Register(o) \/ Written(o) \/ WriteFails(o)
                    \/ Timeout(o) \/ TimedOut(o) \/ Answered(o)
  \/ \E i \in Ids, v \in Verdicts : handleResponse(i, v)
  \/ cancelAllRequests

Spec == Init /\ [][Next]_callVars

-----------------------------------------------------------------------------
TypeOK ==
  /\ respWait \in [Ids -> Ops \cup {NoOp}]
  /\ resp \in [Ops -> Seq(Ids)] /\ closes \in [Ops -> Nat]
  /\ opErr \in [Ops -> {"none", "not decoded", "lost"}]
  /\ caller \in [Ops -> CallerStates]
  /\ clientSubs \subseteq SubOps /\ running \subseteq SubOps /\ open \in BOOLEAN

(* The dispatcher neither panics nor blocks on op.resp, however responses, *)
(* repetitions, timeouts and the loss of the connection meet: it closes    *)
(* the channel once, never sends on it after that, and sends each id once, *)
(* which its capacity of len(ids) allows.                                  *)
RespSound ==
  \A o \in Ops :
    /\ closes[o] <= 1
    /\ \A j, k \in DOMAIN resp[o] : resp[o][j] = resp[o][k] => j = k
    /\ closes[o] = 1 => ~\E i \in Ids : respWait[i] = o

(* Nobody waits in vain: what a waiting caller has not been sent is still  *)
(* in the table, or his channel has been closed.                           *)
NobodyForgotten ==
  \A o \in Ops : caller[o] = "waiting" =>
    \/ closes[o] = 1
    \/ \A i \in OpIds[o] : respWait[i] = o \/ \E k \in DOMAIN resp[o] : resp[o][k] = i

CallsSound == RespSound /\ NobodyForgotten

=============================================================================
