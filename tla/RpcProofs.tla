----------------------------- MODULE RpcProofs -----------------------------
(***************************************************************************)
(* Proofs about both sides of a connection and about rpc.Server, for all   *)
(* values of the constants of Rpc.  The client: a subscriber receives what *)
(* the server sent, in order, and no call is answered twice or forgotten.  *)
(* The server: what a subscription sends and when it ends, what Stop       *)
(* leaves served, that a batch is answered once, and which methods a       *)
(* client can call.  And the types of all parts.                           *)
(***************************************************************************)
EXTENDS Rpc, SequenceTheorems, WellFoundedInduction, FiniteSetTheorems, TLAPS

-----------------------------------------------------------------------------
(* ClientSub: the values are taken in turn, the goroutine of run is in     *)
(* reporting only with an error, and reports it once.                      *)
InTurn ==
  /\ Len(taken) + Len(buffer) = accepted
  /\ \A i \in 1..Len(taken) : taken[i] = i
  /\ \A i \in 1..Len(buffer) : buffer[i] = Len(taken) + i
OnOffer == dispatch = "value" => accepted < MaxValues
ToldAtTheEnd == told # <<>> => run = "done"
OnceDone == once = "done" => run = "done"

SubInv == Sub!TypeOK /\ InTurn /\ OnOffer /\ ToldAtTheEnd /\ OnceDone

(* ClientCalls: an id in the table belongs to its operation; one that is   *)
(* new has been nowhere, one that is being written or waited for has each  *)
(* id in the table or answered, unless its channel is closed.              *)
OwnIds == \A i \in Cli!Ids : respWait[i] # NoOp => i \in OpIds[respWait[i]]
NewUntouched ==
  \A o \in Ops : caller[o] = "new" =>
    closes[o] = 0 /\ resp[o] = <<>> /\ \A i \in Cli!Ids : respWait[i] # o
SentIsGone ==
  \A o \in Ops : \A j \in 1..Len(resp[o]) : resp[o][j] \in OpIds[o] /\ respWait[resp[o][j]] # o
Expecting ==
  \A o \in Ops : caller[o] \in {"writing", "waiting"} =>
    \/ closes[o] = 1
    \/ \A i \in OpIds[o] : respWait[i] = o \/ \E j \in DOMAIN resp[o] : resp[o][j] = i

CallsInv == OwnIds /\ NewUntouched /\ SentIsGone /\ Expecting /\ Cli!RespSound
CliInv == Cli!TypeOK /\ CallsInv

-----------------------------------------------------------------------------
(* The client's subscription.                                              *)

LEMMA SubInit == Sub!Init => SubInv
BY BoundsAssumption DEF Sub!Init, SubInv, Sub!TypeOK, Sub!RunStates, Sub!Errors, Sub!CallStates, InTurn,
   OnOffer, ToldAtTheEnd, OnceDone

(* A step that neither takes a value in nor hands one on.                  *)
LEMMA ListFrame == ASSUME InTurn, UNCHANGED <<buffer, accepted, taken>> PROVE InTurn'
BY DEF InTurn

(* The list of forward: a value that is taken in is the next, and the one  *)
(* that is handed on is the first.                                         *)
LEMMA TakeInTurn == ASSUME SubInv, Sub!TakeIn PROVE InTurn'
<1>1. CASE UNCHANGED <<buffer, accepted>>
  BY <1>1, ListFrame DEF SubInv, Sub!TakeIn
<1>2. CASE accepted' = accepted + 1 /\ buffer' = Append(buffer, accepted')
  <2>1. buffer \in Seq(1..MaxValues) /\ taken \in Seq(1..MaxValues) /\ accepted \in Nat
    BY DEF SubInv, Sub!TypeOK
  <2>2. taken' = taken
    BY Zenon DEF Sub!TakeIn
  <2>3. /\ Len(buffer') = Len(buffer) + 1 /\ buffer'[Len(buffer) + 1] = accepted + 1
        /\ \A i \in 1..Len(buffer) : buffer'[i] = buffer[i]
    BY <1>2, <2>1
  <2>4. /\ Len(taken) + Len(buffer) = accepted /\ Len(buffer) \in Nat /\ Len(taken) \in Nat
        /\ \A i \in 1..Len(taken) : taken[i] = i
        /\ \A i \in 1..Len(buffer) : buffer[i] = Len(taken) + i
    BY <2>1 DEF SubInv, InTurn
  <2>5. \A i \in 1..Len(buffer') : buffer'[i] = Len(taken) + i
    <3> SUFFICES ASSUME NEW i \in 1..Len(buffer) + 1 PROVE buffer'[i] = Len(taken) + i
      BY <2>3
    <3>1. CASE i = Len(buffer) + 1
      BY <2>3, <2>4, <3>1
    <3>2. CASE i \in 1..Len(buffer)
      BY <2>3, <2>4, <3>2
    <3> QED BY <2>4, <3>1, <3>2
  <2>6. Len(taken) + Len(buffer') = accepted'
    BY <1>2, <2>1, <2>3, <2>4
  <2> QED BY <2>2, <2>4, <2>5, <2>6 DEF InTurn
<1> QED BY <1>1, <1>2 DEF Sub!TakeIn

LEMMA ForwardInTurn == ASSUME SubInv, Sub!Forward PROVE InTurn'
<1>1. /\ buffer \in Seq(1..MaxValues) /\ taken \in Seq(1..MaxValues) /\ buffer # <<>>
      /\ buffer' = Tail(buffer) /\ taken' = Append(taken, Head(buffer)) /\ accepted' = accepted
  BY DEF SubInv, Sub!TypeOK, Sub!Forward
<1>2. /\ Len(buffer') = Len(buffer) - 1 /\ \A i \in 1..Len(buffer') : buffer'[i] = buffer[i + 1]
      /\ Len(buffer) \in Nat \ {0} /\ Head(buffer) = buffer[1]
  BY <1>1, HeadTailProperties, EmptySeq, LenProperties
<1>3. /\ Len(taken') = Len(taken) + 1 /\ taken'[Len(taken) + 1] = Head(buffer)
      /\ \A i \in 1..Len(taken) : taken'[i] = taken[i]
  BY <1>1
<1>4. Head(buffer) = Len(taken) + 1
  BY <1>2 DEF SubInv, InTurn
<1> QED BY <1>1, <1>2, <1>3, <1>4 DEF SubInv, InTurn

LEMMA MembershipIsBoolean == ASSUME NEW x, NEW S PROVE (x \in S) \in BOOLEAN
BY SMT

(* What forward returns.                                                   *)
LEMMA ReturnTypes ==
  ASSUME NEW e \in Sub!Errors, NEW s \in BOOLEAN, Sub!Return(e, s)
  PROVE  run' \in Sub!RunStates /\ result' \in [err : Sub!Errors, server : BOOLEAN]
<1>1. run' = "forwarded" /\ result' = [err |-> e, server |-> s]
  BY DEF Sub!Return
<1>2. [err |-> e, server |-> s] \in [err : Sub!Errors, server : BOOLEAN]
  OBVIOUS
<1>3. "forwarded" \in Sub!RunStates
  BY DEF Sub!RunStates
<1> QED BY <1>1, <1>2, <1>3

LEMMA DispatchTypes ==
  ASSUME Sub!TypeOK, NEW what \in {"value", "bad value", "nil", "lost"}, Sub!Dispatch(what)
  PROVE  Sub!TypeOK'
<1> DEFINE stays == what \in {"value", "bad value"}
<1>1. stays \in BOOLEAN
  BY MembershipIsBoolean
<1>2. online' = stays
  BY Zenon DEF Sub!Dispatch
<1>3. dispatch' = what /\ UNCHANGED <<run, result, buffer, ucall, once, accepted, taken, told>>
  BY Zenon DEF Sub!Dispatch
<1>4. what \in {"idle", "value"} \cup Sub!Errors
  BY DEF Sub!Errors
<1> HIDE DEF stays
<1> QED BY <1>1, <1>2, <1>3, <1>4 DEF Sub!TypeOK

LEMMA TakeInTypes == ASSUME Sub!TypeOK, OnOffer, Sub!TakeIn PROVE Sub!TypeOK'
<1>1. dispatch' = "idle" /\ UNCHANGED <<ucall, once, online, taken, told>>
  BY Zenon DEF Sub!TakeIn
<1>2. CASE Sub!Return("bad value", TRUE) /\ UNCHANGED <<buffer, accepted>>
  <2>1. "bad value" \in Sub!Errors /\ TRUE \in BOOLEAN
    BY DEF Sub!Errors
  <2> QED BY <1>1, <1>2, <2>1, ReturnTypes DEF Sub!TypeOK
<1>3. CASE Sub!Return("overflow", TRUE) /\ UNCHANGED <<buffer, accepted>>
  <2>1. "overflow" \in Sub!Errors /\ TRUE \in BOOLEAN
    BY DEF Sub!Errors
  <2> QED BY <1>1, <1>3, <2>1, ReturnTypes DEF Sub!TypeOK
<1>4. CASE /\ dispatch = "value" /\ Len(buffer) # BufferLimit /\ accepted' = accepted + 1
           /\ buffer' = Append(buffer, accepted') /\ UNCHANGED <<run, result>>
  <2>1. accepted' \in 1..MaxValues
    BY <1>4, BoundsAssumption DEF Sub!TypeOK, OnOffer
  <2>2. buffer \in Seq(1..MaxValues) /\ Len(buffer) <= BufferLimit
    BY DEF Sub!TypeOK
  <2>3. buffer' \in Seq(1..MaxValues) /\ Len(buffer') = Len(buffer) + 1 /\ Len(buffer') <= BufferLimit
    BY <1>4, <2>1, <2>2, BoundsAssumption
  <2> QED BY <1>1, <1>4, <2>1, <2>3 DEF Sub!TypeOK
<1> QED BY <1>2, <1>3, <1>4, Zenon DEF Sub!TakeIn

LEMMA ForwardTypes == ASSUME Sub!TypeOK, Sub!Forward PROVE Sub!TypeOK'
<1>1. buffer \in Seq(1..MaxValues) /\ buffer # <<>> /\ taken \in Seq(1..MaxValues) /\ Len(buffer) <= BufferLimit
  BY DEF Sub!TypeOK, Sub!Forward
<1>2. /\ Head(buffer) \in 1..MaxValues /\ Tail(buffer) \in Seq(1..MaxValues)
      /\ Len(Tail(buffer)) = Len(buffer) - 1 /\ Len(buffer) \in Nat
  BY <1>1, HeadTailProperties, LenProperties
<1>3. buffer' \in Seq(1..MaxValues) /\ Len(buffer') <= BufferLimit /\ taken' \in Seq(1..MaxValues)
  BY <1>1, <1>2, BoundsAssumption DEF Sub!Forward
<1>4. UNCHANGED <<run, result, dispatch, ucall, once, online, accepted, told>>
  BY DEF Sub!Forward
<1> QED BY <1>3, <1>4 DEF Sub!TypeOK

LEMMA ReportTypes == ASSUME Sub!TypeOK, ToldAtTheEnd, Sub!Report PROVE Sub!TypeOK'
<1>1. told = <<>> /\ result.err \in Sub!Errors
  BY DEF Sub!Report, ToldAtTheEnd, Sub!TypeOK
<1>2. told' = <<result.err>>
  BY <1>1 DEF Sub!Report
<1>3. told' \in Seq(Sub!Errors) /\ Len(told') <= 1
  BY <1>1, <1>2
<1>4. run' \in Sub!RunStates
  BY DEF Sub!Report, Sub!RunStates
<1>5. UNCHANGED <<result, buffer, dispatch, ucall, once, online, accepted, taken>>
  BY DEF Sub!Report
<1> QED BY <1>3, <1>4, <1>5 DEF Sub!TypeOK

LEMMA UnsubscribeTypes ==
  ASSUME Sub!TypeOK, NEW u \in Unsubscribers,
         Sub!Call(u) \/ Sub!Once(u) \/ Sub!QuitByUnsubscribe(u) \/ Sub!Unsubscribed(u)
  PROVE  Sub!TypeOK'
<1>1. CASE Sub!Call(u)
  BY <1>1 DEF Sub!Call, Sub!TypeOK, Sub!CallStates
<1>2. CASE Sub!Once(u)
  BY <1>2 DEF Sub!Once, Sub!TypeOK, Sub!CallStates
<1>3. CASE Sub!QuitByUnsubscribe(u)
  <2>1. /\ ucall' = [ucall EXCEPT ![u] = "await"] /\ Sub!Return("none", TRUE)
        /\ UNCHANGED <<buffer, dispatch, once, online, accepted, taken, told>>
    BY <1>3, Zenon DEF Sub!QuitByUnsubscribe
  <2>2. "none" \in Sub!Errors /\ TRUE \in BOOLEAN
    BY DEF Sub!Errors
  <2> QED BY <2>1, <2>2, ReturnTypes DEF Sub!TypeOK, Sub!CallStates
<1>4. CASE Sub!Unsubscribed(u)
  BY <1>4 DEF Sub!Unsubscribed, Sub!TypeOK, Sub!CallStates
<1> QED BY <1>1, <1>2, <1>3, <1>4

LEMMA SubTypes == ASSUME SubInv, Sub!Next PROVE Sub!TypeOK'
<1> USE DEF SubInv
<1>1. CASE Sub!GiveUp
  BY <1>1 DEF Sub!GiveUp, Sub!TypeOK
<1>2. CASE Sub!QuitByClose
  <2>1. dispatch \in Sub!Errors /\ FALSE \in BOOLEAN
    BY <1>2 DEF Sub!QuitByClose, Sub!Errors
  <2>2. /\ dispatch' = "idle" /\ Sub!Return(dispatch, FALSE)
        /\ UNCHANGED <<buffer, ucall, once, online, accepted, taken, told>>
    BY <1>2, Zenon DEF Sub!QuitByClose
  <2>3. run' \in Sub!RunStates /\ result' \in [err : Sub!Errors, server : BOOLEAN]
    BY <2>1, <2>2, ReturnTypes
  <2> QED BY <2>2, <2>3 DEF Sub!TypeOK
<1>3. CASE Sub!CloseForwardDone
  BY <1>3 DEF Sub!CloseForwardDone, Sub!AfterForward, Sub!TypeOK, Sub!RunStates
<1>4. CASE Sub!RequestUnsubscribe
  BY <1>4 DEF Sub!RequestUnsubscribe, Sub!TypeOK, Sub!RunStates
<1> QED BY <1>1, <1>2, <1>3, <1>4, DispatchTypes, TakeInTypes, ForwardTypes, ReportTypes, UnsubscribeTypes
        DEF Sub!Next, Sub!DispatchStep, Sub!CallStep

(* What is offered stays within the bound.                                 *)
LEMMA OfferStep == ASSUME SubInv, Sub!Next PROVE OnOffer'
<1>1. ASSUME NEW what \in {"value", "bad value", "nil", "lost"}, Sub!Dispatch(what) PROVE OnOffer'
  BY <1>1 DEF Sub!Dispatch, OnOffer
<1>2. dispatch' # "value" \/ UNCHANGED <<dispatch, accepted>>
      \/ \E what \in {"value", "bad value", "nil", "lost"} : Sub!Dispatch(what)
  BY DEF Sub!Next, Sub!DispatchStep, Sub!CallStep, Sub!GiveUp, Sub!TakeIn, Sub!QuitByClose,
     Sub!CloseForwardDone, Sub!RequestUnsubscribe, Sub!Forward, Sub!Report, Sub!Call, Sub!Once,
     Sub!QuitByUnsubscribe, Sub!Unsubscribed
<1> QED BY <1>1, <1>2 DEF SubInv, OnOffer

(* Nothing follows the end of run, and its end is what Unsubscribe awaits. *)
LEMMA SubEnds == ASSUME SubInv, Sub!Next PROVE (ToldAtTheEnd /\ OnceDone)'
<1>1. run = "done" => run' = "done"
  BY DEF Sub!Next, Sub!DispatchStep, Sub!CallStep, Sub!Dispatch, Sub!GiveUp, Sub!TakeIn, Sub!QuitByClose,
     Sub!CloseForwardDone, Sub!RequestUnsubscribe, Sub!Forward, Sub!Report, Sub!Call, Sub!Once,
     Sub!QuitByUnsubscribe, Sub!Unsubscribed
<1>2. told' = told \/ run' = "done"
  BY DEF Sub!Next, Sub!DispatchStep, Sub!CallStep, Sub!Dispatch, Sub!GiveUp, Sub!TakeIn, Sub!QuitByClose,
     Sub!CloseForwardDone, Sub!RequestUnsubscribe, Sub!Forward, Sub!Report, Sub!Call, Sub!Once,
     Sub!QuitByUnsubscribe, Sub!Unsubscribed
<1>3. once' = "done" => once = "done" \/ run = "done"
  BY DEF Sub!Next, Sub!DispatchStep, Sub!CallStep, Sub!Dispatch, Sub!GiveUp, Sub!TakeIn, Sub!QuitByClose,
     Sub!CloseForwardDone, Sub!RequestUnsubscribe, Sub!Forward, Sub!Report, Sub!Call, Sub!Once,
     Sub!QuitByUnsubscribe, Sub!Unsubscribed, Sub!UnsubDone
<1> QED BY <1>1, <1>2, <1>3 DEF SubInv, ToldAtTheEnd, OnceDone

LEMMA SubStep == SubInv /\ [Sub!Next]_subVars => SubInv'
<1> SUFFICES ASSUME SubInv, [Sub!Next]_subVars PROVE SubInv'
  OBVIOUS
<1>1. CASE UNCHANGED subVars
  BY <1>1 DEF subVars, SubInv, Sub!TypeOK, InTurn, OnOffer, ToldAtTheEnd, OnceDone
<1>2. CASE Sub!Next
  <2>1. InTurn'
    <3>1. CASE UNCHANGED <<buffer, accepted, taken>>
      BY <3>1, ListFrame DEF SubInv
    <3>2. Sub!TakeIn \/ Sub!Forward \/ UNCHANGED <<buffer, accepted, taken>>
      BY <1>2 DEF Sub!Next, Sub!DispatchStep, Sub!CallStep, Sub!Dispatch, Sub!GiveUp, Sub!QuitByClose,
         Sub!CloseForwardDone, Sub!RequestUnsubscribe, Sub!Report, Sub!Call, Sub!Once, Sub!QuitByUnsubscribe,
         Sub!Unsubscribed
    <3> QED BY <3>1, <3>2, TakeInTurn, ForwardInTurn
  <2> QED BY <1>2, <2>1, SubTypes, OfferStep, SubEnds DEF SubInv
<1> QED BY <1>1, <1>2

LEMMA SubSound == SubInv => ForwardsInOrder
<1> SUFFICES ASSUME SubInv PROVE taken \o buffer = [i \in 1..accepted |-> i]
  BY DEF SubInv, OnceDone, ForwardsInOrder, Sub!ForwardsInOrder
<1>1. taken \in Seq(1..MaxValues) /\ buffer \in Seq(1..MaxValues) /\ accepted \in Nat
  BY DEF SubInv, Sub!TypeOK
<1>2. Len(taken) + Len(buffer) = accepted /\ Len(taken) \in Nat /\ Len(buffer) \in Nat
  BY <1>1 DEF SubInv, InTurn
<1>3. \A i \in 1..accepted : (taken \o buffer)[i] = i
  <2> TAKE i \in 1..accepted
  <2>1. CASE i <= Len(taken)
    BY <1>1, <1>2, <2>1 DEF SubInv, InTurn
  <2>2. CASE i > Len(taken)
    <3>1. i - Len(taken) \in 1..Len(buffer)
      BY <1>2, <2>2
    <3>2. (taken \o buffer)[i] = buffer[i - Len(taken)]
      BY <1>1, <1>2, <2>2
    <3>3. buffer[i - Len(taken)] = Len(taken) + (i - Len(taken))
      BY <3>1 DEF SubInv, InTurn
    <3> QED BY <1>2, <3>2, <3>3
  <2> QED BY <1>2, <2>1, <2>2
<1>4. taken \o buffer = [i \in 1..accepted |-> (taken \o buffer)[i]]
  <2>1. taken \o buffer \in Seq(1..MaxValues) /\ Len(taken \o buffer) = accepted
    BY <1>1, <1>2
  <2>2. taken \o buffer \in [1..accepted -> 1..MaxValues]
    BY <2>1, LenProperties
  <2> QED BY <2>2
<1> QED BY <1>3, <1>4


-----------------------------------------------------------------------------
(* The client's calls.                                                     *)

LEMMA CliInit == Cli!Init => CliInv
<1> SUFFICES ASSUME Cli!Init PROVE CliInv
  OBVIOUS
<1>1. Cli!TypeOK
  BY OpsAssumption DEF Cli!Init, Cli!TypeOK, Cli!CallerStates
<1>2. \A o \in Ops : \A i \in Cli!Ids : respWait[i] # o
  BY OpsAssumption DEF Cli!Init
<1> QED BY <1>1, <1>2 DEF Cli!Init, CliInv, CallsInv, OwnIds, NewUntouched, SentIsGone, Expecting, Cli!RespSound

LEMMA RespondTypes ==
  ASSUME Cli!TypeOK, NEW i \in Cli!Ids, NEW v \in Cli!Verdicts, Cli!handleResponse(i, v)
  PROVE  Cli!TypeOK'
<1> DEFINE o == respWait[i]
<1>1. o \in Ops
  BY DEF Cli!TypeOK, Cli!handleResponse, Cli!Respond
<1>2. respWait' \in [Cli!Ids -> Ops \cup {NoOp}] /\ UNCHANGED <<caller, open>>
  BY DEF Cli!TypeOK, Cli!handleResponse
<1>3. CASE o \notin SubOps
  <2>1. resp[o] \in Seq(Cli!Ids) /\ resp' = [resp EXCEPT ![o] = Append(resp[o], i)]
        /\ UNCHANGED <<closes, opErr, clientSubs, running>>
    BY <1>1, <1>3 DEF Cli!TypeOK, Cli!handleResponse, Cli!Respond
  <2>2. Append(resp[o], i) \in Seq(Cli!Ids)
    BY <2>1
  <2> QED BY <1>1, <1>2, <2>1, <2>2 DEF Cli!TypeOK
<1>4. CASE o \in SubOps
  <2>1. closes' = [closes EXCEPT ![o] = @ + 1] /\ UNCHANGED resp
    BY <1>4 DEF Cli!handleResponse, Cli!Respond
  <2>2. \/ opErr' = [opErr EXCEPT ![o] = "none"] /\ UNCHANGED <<clientSubs, running>>
        \/ /\ opErr' = [opErr EXCEPT ![o] = "not decoded"]
           /\ clientSubs' = {o} /\ running' = running \cup {o}
    BY <1>4 DEF Cli!handleResponse, Cli!Respond
  <2>3. closes' \in [Ops -> Nat]
    <3>1. closes \in [Ops -> Nat]
      BY DEF Cli!TypeOK
    <3> QED BY <1>1, <2>1, <3>1
  <2>4. opErr' \in [Ops -> {"none", "not decoded", "lost"}]
    BY <1>1, <2>2 DEF Cli!TypeOK
  <2>5. clientSubs' \subseteq SubOps /\ running' \subseteq SubOps
    BY <1>4, <2>2 DEF Cli!TypeOK
  <2> QED BY <1>2, <2>1, <2>3, <2>4, <2>5 DEF Cli!TypeOK
<1> QED BY <1>3, <1>4

LEMMA CliTypes == ASSUME Cli!TypeOK, Cli!Next PROVE Cli!TypeOK'
<1>0. \A o \in Ops : closes[o] \in Nat /\ closes[o] + 1 \in Nat
  <2>1. closes \in [Ops -> Nat]
    BY DEF Cli!TypeOK
  <2> QED BY <2>1
<1> USE DEF Cli!TypeOK, Cli!CallerStates
<1>1. ASSUME NEW o \in Ops, Cli!Register(o) PROVE Cli!TypeOK'
  BY <1>1 DEF Cli!Register, Cli!addRequestOp
<1>2. ASSUME NEW o \in Ops, Cli!Written(o) \/ Cli!Timeout(o) \/ Cli!Answered(o) PROVE Cli!TypeOK'
  BY <1>2 DEF Cli!Written, Cli!Timeout, Cli!Answered
<1>3. ASSUME NEW o \in Ops, Cli!WriteFails(o) \/ Cli!TimedOut(o) PROVE Cli!TypeOK'
  BY <1>3 DEF Cli!WriteFails, Cli!TimedOut, Cli!removeRequestOp
<1>4. CASE Cli!cancelAllRequests
  <2>1. respWait' \in [Cli!Ids -> Ops \cup {NoOp}]
    BY <1>4 DEF Cli!cancelAllRequests
  <2>2. closes' \in [Ops -> Nat]
    BY <1>0, <1>4 DEF Cli!cancelAllRequests
  <2>5. opErr' \in [Ops -> {"none", "not decoded", "lost"}]
    BY <1>4 DEF Cli!cancelAllRequests
  <2>3. caller' \in [Ops -> {"new", "writing", "waiting", "timed out", "ended"}]
    BY <1>4 DEF Cli!cancelAllRequests
  <2>4. clientSubs' = {} /\ open' = FALSE /\ UNCHANGED <<resp, running>>
    BY <1>4 DEF Cli!cancelAllRequests
  <2> QED BY <2>1, <2>2, <2>3, <2>4, <2>5
<1> QED BY <1>1, <1>2, <1>3, <1>4, RespondTypes DEF Cli!Next

(* The caller's steps leave the table and the channels alone.              *)
LEMMA CallerStep ==
  ASSUME CliInv, UNCHANGED <<respWait, resp, closes>>,
         \A o \in Ops : /\ caller'[o] = "new" => caller[o] = "new"
                        /\ caller'[o] \in {"writing", "waiting"} => caller[o] \in {"writing", "waiting"}
  PROVE  CallsInv'
<1>1. (OwnIds /\ SentIsGone /\ Cli!RespSound)'
  BY DEF CliInv, CallsInv, OwnIds, SentIsGone, Cli!RespSound
<1>2. NewUntouched'
  BY DEF CliInv, CallsInv, NewUntouched
<1>3. Expecting'
  BY DEF CliInv, CallsInv, Expecting
<1> QED BY <1>1, <1>2, <1>3 DEF CallsInv

(* An operation's ids are its own: registering it displaces no other.      *)
LEMMA RegisterStep == ASSUME CliInv, NEW o \in Ops, Cli!Register(o) PROVE CallsInv'
<1>1. /\ caller[o] = "new" /\ caller' = [caller EXCEPT ![o] = "writing"]
      /\ respWait' = [i \in Cli!Ids |-> IF i \in OpIds[o] THEN o ELSE respWait[i]]
      /\ UNCHANGED <<resp, closes>>
  BY DEF Cli!Register, Cli!addRequestOp
<1>2. closes[o] = 0 /\ resp[o] = <<>> /\ \A i \in Cli!Ids : respWait[i] # o
  BY <1>1 DEF CliInv, CallsInv, NewUntouched
<1>3. \A p \in Ops : caller'[p] = IF p = o THEN "writing" ELSE caller[p]
  BY <1>1 DEF CliInv, Cli!TypeOK
<1>4. \A p \in Ops : OpIds[p] \subseteq Cli!Ids
  BY DEF Cli!Ids
<1>5. \A p \in Ops \ {o} : \A i \in OpIds[p] : respWait'[i] = respWait[i]
  BY <1>1, <1>4, OpsAssumption
<1>6. \A p \in Ops \ {o} : \A i \in Cli!Ids : respWait'[i] = p => respWait[i] = p
  BY <1>1
<1>7. OwnIds'
  BY <1>1 DEF CliInv, CallsInv, OwnIds
<1>8. NewUntouched'
  BY <1>1, <1>3, <1>6 DEF CliInv, CallsInv, NewUntouched
<1>9. SentIsGone'
  <2> SUFFICES ASSUME NEW p \in Ops, NEW j \in 1..Len(resp[p])
               PROVE  resp[p][j] \in OpIds[p] /\ respWait'[resp[p][j]] # p
    BY <1>1 DEF SentIsGone
  <2>1. p # o
    BY <1>2
  <2> QED BY <1>5, <2>1 DEF CliInv, CallsInv, SentIsGone
<1>10. Expecting'
  <2> SUFFICES ASSUME NEW p \in Ops, caller'[p] \in {"writing", "waiting"}, closes[p] # 1, NEW i \in OpIds[p]
               PROVE  respWait'[i] = p \/ \E j \in DOMAIN resp[p] : resp[p][j] = i
    BY <1>1 DEF Expecting
  <2>1. CASE p = o
    BY <1>1, <1>4, <2>1
  <2>2. CASE p # o
    BY <1>3, <1>5, <2>2 DEF CliInv, CallsInv, Expecting
  <2> QED BY <2>1, <2>2
<1>11. Cli!RespSound'
  <2> SUFFICES ASSUME NEW p \in Ops
               PROVE  /\ closes[p] <= 1
                      /\ \A j, k \in DOMAIN resp[p] : resp[p][j] = resp[p][k] => j = k
                      /\ closes[p] = 1 => ~\E i \in Cli!Ids : respWait'[i] = p
    BY <1>1 DEF Cli!RespSound
  <2>1. /\ closes[p] <= 1 /\ (closes[p] = 1 => ~\E i \in Cli!Ids : respWait[i] = p)
        /\ \A j, k \in DOMAIN resp[p] : resp[p][j] = resp[p][k] => j = k
    BY DEF CliInv, CallsInv, Cli!RespSound
  <2>2. ASSUME closes[p] = 1, NEW i \in Cli!Ids, respWait'[i] = p PROVE FALSE
    BY <1>2, <1>6, <2>1, <2>2
  <2> QED BY <2>1, <2>2
<1> QED BY <1>7, <1>8, <1>9, <1>10, <1>11 DEF CallsInv

(* One that has ended leaves the table.                                    *)
LEMMA RemoveStep ==
  ASSUME CliInv, NEW o \in Ops, Cli!removeRequestOp(o), caller' = [caller EXCEPT ![o] = "ended"],
         UNCHANGED <<resp, closes>>
  PROVE  CallsInv'
<1>1. \A i \in Cli!Ids : respWait'[i] = IF i \in OpIds[o] THEN NoOp ELSE respWait[i]
  BY DEF Cli!removeRequestOp
<1>2. \A p \in Ops : caller'[p] = IF p = o THEN "ended" ELSE caller[p]
  BY DEF CliInv, Cli!TypeOK
<1>3. \A p \in Ops : OpIds[p] \subseteq Cli!Ids /\ p # NoOp
  BY OpsAssumption DEF Cli!Ids
<1>4. \A p \in Ops \ {o} : \A i \in OpIds[p] : respWait'[i] = respWait[i]
  BY <1>1, <1>3, OpsAssumption
<1>5. \A p \in Ops, i \in Cli!Ids : respWait'[i] = p => respWait[i] = p
  BY <1>1, <1>3
<1>6. OwnIds'
  BY <1>1 DEF CliInv, CallsInv, OwnIds
<1>7. NewUntouched'
  BY <1>2, <1>5 DEF CliInv, CallsInv, NewUntouched
<1>8. SentIsGone'
  BY <1>3, <1>5 DEF CliInv, CallsInv, SentIsGone
<1>9. Expecting'
  BY <1>2, <1>4 DEF CliInv, CallsInv, Expecting
<1>10. Cli!RespSound'
  BY <1>5 DEF CliInv, CallsInv, Cli!RespSound
<1> QED BY <1>6, <1>7, <1>8, <1>9, <1>10 DEF CallsInv


(* A response that finds its operation takes its id from the table, and    *)
(* either sends it on op.resp, or closes that of a subscription.           *)
LEMMA RespondStep ==
  ASSUME CliInv, NEW i \in Cli!Ids, NEW v \in Cli!Verdicts, Cli!handleResponse(i, v)
  PROVE  CallsInv'
<1> PICK o \in Ops : o = respWait[i]
  BY DEF CliInv, Cli!TypeOK, Cli!handleResponse, Cli!Respond
<1>1. /\ respWait' = [respWait EXCEPT ![i] = NoOp] /\ caller' = caller
      /\ \/ o \notin SubOps /\ resp' = [resp EXCEPT ![o] = Append(resp[o], i)] /\ closes' = closes
         \/ o \in SubOps /\ closes' = [closes EXCEPT ![o] = closes[o] + 1] /\ resp' = resp
  BY DEF Cli!handleResponse, Cli!Respond
<1>2. o # NoOp /\ i \in OpIds[o] /\ closes[o] = 0 /\ caller[o] # "new"
  <2>1. o # NoOp /\ i \in OpIds[o] /\ caller[o] # "new"
    BY OpsAssumption DEF CliInv, CallsInv, OwnIds, NewUntouched
  <2>2. closes[o] \in Nat /\ closes[o] <= 1 /\ closes[o] # 1
    BY DEF CliInv, CallsInv, Cli!RespSound, Cli!TypeOK
  <2> QED BY <2>1, <2>2
<1>3. \A j \in Cli!Ids : respWait'[j] = IF j = i THEN NoOp ELSE respWait[j]
  BY <1>1 DEF CliInv, Cli!TypeOK
<1>4. \A p \in Ops : p # NoOp /\ OpIds[p] \subseteq Cli!Ids /\ (p # o => i \notin OpIds[p])
  BY <1>2, OpsAssumption DEF Cli!Ids
<1>5. \A p \in Ops, j \in Cli!Ids : respWait'[j] = p => respWait[j] = p
  BY <1>3, <1>4
<1>6. \A p \in Ops \ {o} : resp'[p] = resp[p] /\ closes'[p] = closes[p]
  BY <1>1 DEF CliInv, Cli!TypeOK
<1>7. OwnIds'
  BY <1>3 DEF CliInv, CallsInv, OwnIds
<1>8. NewUntouched'
  BY <1>1, <1>2, <1>5, <1>6 DEF CliInv, CallsInv, NewUntouched
<1>9. CASE o \notin SubOps
  <2>1. resp' = [resp EXCEPT ![o] = Append(resp[o], i)] /\ closes' = closes
    BY <1>1, <1>9
  <2>2. resp[o] \in Seq(Cli!Ids) /\ resp'[o] = Append(resp[o], i)
    BY <2>1 DEF CliInv, Cli!TypeOK
  <2>3. /\ Len(resp'[o]) = Len(resp[o]) + 1 /\ resp'[o][Len(resp[o]) + 1] = i
        /\ \A j \in 1..Len(resp[o]) : resp'[o][j] = resp[o][j]
        /\ DOMAIN resp[o] = 1..Len(resp[o]) /\ DOMAIN resp'[o] = 1..(Len(resp[o]) + 1)
        /\ Len(resp[o]) \in Nat
    BY <2>2
  <2>4. \A j \in 1..Len(resp[o]) : resp[o][j] # i
    BY DEF CliInv, CallsInv, SentIsGone
  <2>5. SentIsGone'
    <3> SUFFICES ASSUME NEW p \in Ops, NEW j \in 1..Len(resp'[p])
                 PROVE  resp'[p][j] \in OpIds[p] /\ respWait'[resp'[p][j]] # p
      BY DEF SentIsGone
    <3>1. CASE p # o
      BY <1>4, <1>5, <1>6, <3>1 DEF CliInv, CallsInv, SentIsGone
    <3>2. CASE p = o /\ j = Len(resp[o]) + 1
      BY <1>2, <1>3, <2>3, <3>2
    <3>3. CASE p = o /\ j \in 1..Len(resp[o])
      <4>1. resp'[p][j] = resp[o][j] /\ resp[o][j] \in OpIds[o] /\ respWait[resp[o][j]] # o
        BY <2>3, <3>3 DEF CliInv, CallsInv, SentIsGone
      <4> QED BY <1>4, <1>5, <3>3, <4>1
    <3> QED BY <2>3, <3>1, <3>2, <3>3
  <2>6. Expecting'
    <3> SUFFICES ASSUME NEW p \in Ops, caller[p] \in {"writing", "waiting"}, closes[p] # 1, NEW n \in OpIds[p]
                 PROVE  respWait'[n] = p \/ \E j \in DOMAIN resp'[p] : resp'[p][j] = n
      BY <1>1, <2>1 DEF Expecting
    <3>1. respWait[n] = p \/ \E j \in DOMAIN resp[p] : resp[p][j] = n
      BY DEF CliInv, CallsInv, Expecting
    <3>2. CASE p # o
      BY <1>3, <1>4, <1>6, <3>1, <3>2
    <3>3. CASE p = o /\ n = i
      BY <2>3, <3>3
    <3>4. CASE p = o /\ n # i
      <4>1. CASE respWait[n] = p
        BY <1>3, <1>4, <3>4, <4>1
      <4>2. ASSUME NEW j \in DOMAIN resp[p], resp[p][j] = n
            PROVE  \E k \in DOMAIN resp'[p] : resp'[p][k] = n
        <5>1. j \in 1..Len(resp[o]) /\ j \in DOMAIN resp'[o]
          BY <2>3, <3>4, <4>2
        <5>2. resp'[p][j] = n
          BY <2>3, <3>4, <4>2, <5>1
        <5> QED BY <3>4, <5>1, <5>2
      <4> QED BY <3>1, <4>1, <4>2
    <3> QED BY <3>2, <3>3, <3>4
  <2>7. Cli!RespSound'
    <3> SUFFICES ASSUME NEW p \in Ops
                 PROVE  /\ closes[p] <= 1
                        /\ \A j, k \in DOMAIN resp'[p] : resp'[p][j] = resp'[p][k] => j = k
                        /\ closes[p] = 1 => ~\E n \in Cli!Ids : respWait'[n] = p
      BY <2>1 DEF Cli!RespSound
    <3>1. /\ closes[p] <= 1 /\ (closes[p] = 1 => ~\E n \in Cli!Ids : respWait[n] = p)
          /\ \A j, k \in DOMAIN resp[p] : resp[p][j] = resp[p][k] => j = k
      BY DEF CliInv, CallsInv, Cli!RespSound
    <3>2. \A j, k \in DOMAIN resp'[p] : resp'[p][j] = resp'[p][k] => j = k
      <4>1. CASE p # o
        BY <1>6, <3>1, <4>1
      <4>2. CASE p = o
        <5> SUFFICES ASSUME NEW j \in 1..(Len(resp[o]) + 1), NEW k \in 1..(Len(resp[o]) + 1),
                            resp'[o][j] = resp'[o][k]
                     PROVE  j = k
          BY <2>3, <4>2
        <5>1. CASE j \in 1..Len(resp[o]) /\ k \in 1..Len(resp[o])
          <6>1. j \in DOMAIN resp[o] /\ k \in DOMAIN resp[o]
            BY <2>3, <5>1
          <6>2. resp'[o][j] = resp[o][j] /\ resp'[o][k] = resp[o][k]
            BY <2>3, <5>1
          <6> QED BY <3>1, <4>2, <6>1, <6>2
        <5>2. CASE j = Len(resp[o]) + 1 \/ k = Len(resp[o]) + 1
          <6>1. j = k \/ (j \in 1..Len(resp[o]) /\ k = Len(resp[o]) + 1) \/ (k \in 1..Len(resp[o]) /\ j = Len(resp[o]) + 1)
            BY <2>3, <5>2
          <6> QED BY <2>3, <2>4, <6>1
        <5> QED BY <2>3, <5>1, <5>2
      <4> QED BY <4>1, <4>2
    <3>3. ASSUME closes[p] = 1, NEW n \in Cli!Ids, respWait'[n] = p PROVE FALSE
      BY <1>5, <3>1, <3>3
    <3> QED BY <3>1, <3>2, <3>3
  <2> QED BY <1>7, <1>8, <2>5, <2>6, <2>7 DEF CallsInv
<1>10. CASE o \in SubOps
  <2>1. closes' = [closes EXCEPT ![o] = closes[o] + 1] /\ resp' = resp
    BY <1>1, <1>10
  <2>2. closes'[o] = 1
    <3>1. closes \in [Ops -> Nat]
      BY DEF CliInv, Cli!TypeOK
    <3> QED BY <1>2, <2>1, <3>1
  <2>3. \A n \in Cli!Ids : respWait'[n] # o
    BY <1>2, <1>3, <1>10, OpsAssumption DEF CliInv, CallsInv, OwnIds
  <2>4. SentIsGone'
    BY <1>4, <1>5, <2>1 DEF CliInv, CallsInv, SentIsGone
  <2>5. Expecting'
    <3> SUFFICES ASSUME NEW p \in Ops, caller[p] \in {"writing", "waiting"}, closes'[p] # 1, NEW n \in OpIds[p]
                 PROVE  respWait'[n] = p \/ \E j \in DOMAIN resp[p] : resp[p][j] = n
      BY <1>1, <2>1 DEF Expecting
    <3>1. p # o /\ closes[p] # 1
      BY <1>6, <2>2
    <3> QED BY <1>3, <1>4, <3>1 DEF CliInv, CallsInv, Expecting
  <2>6. Cli!RespSound'
    <3> SUFFICES ASSUME NEW p \in Ops
                 PROVE  /\ closes'[p] <= 1
                        /\ \A j, k \in DOMAIN resp[p] : resp[p][j] = resp[p][k] => j = k
                        /\ closes'[p] = 1 => ~\E n \in Cli!Ids : respWait'[n] = p
      BY <2>1 DEF Cli!RespSound
    <3>1. /\ closes[p] <= 1 /\ (closes[p] = 1 => ~\E n \in Cli!Ids : respWait[n] = p)
          /\ \A j, k \in DOMAIN resp[p] : resp[p][j] = resp[p][k] => j = k
      BY DEF CliInv, CallsInv, Cli!RespSound
    <3>2. CASE p = o
      BY <2>2, <2>3, <3>1, <3>2
    <3>3. CASE p # o
      <4>1. closes'[p] = closes[p]
        BY <1>6, <3>3
      <4>2. ASSUME closes[p] = 1, NEW n \in Cli!Ids, respWait'[n] = p PROVE FALSE
        BY <1>5, <3>1, <4>2
      <4> QED BY <3>1, <4>1, <4>2
    <3> QED BY <3>2, <3>3
  <2> QED BY <1>7, <1>8, <2>4, <2>5, <2>6 DEF CallsInv
<1> QED BY <1>9, <1>10

(* The end of the connection empties the table, and closes the channel of  *)
(* each operation that was in it and is not being written.                 *)
LEMMA CancelStep == ASSUME CliInv, Cli!cancelAllRequests PROVE CallsInv'
<1>1. /\ \A i \in Cli!Ids : respWait'[i] = NoOp
      /\ \A o \in Ops : closes'[o] = IF o \in Cli!Pending \ Cli!Inflight THEN closes[o] + 1 ELSE closes[o]
      /\ \A o \in Ops : caller'[o] = IF o \in Cli!Inflight THEN "ended" ELSE caller[o]
      /\ resp' = resp
  BY DEF Cli!cancelAllRequests
<1>2. \A o \in Ops : o # NoOp /\ OpIds[o] \subseteq Cli!Ids
  BY OpsAssumption DEF Cli!Ids
<1>3. \A o \in Ops : o \in Cli!Pending => closes[o] = 0 /\ caller[o] # "new"
  <2> SUFFICES ASSUME NEW o \in Ops, NEW i \in OpIds[o], respWait[i] = o
               PROVE  closes[o] = 0 /\ caller[o] # "new"
    BY DEF Cli!Pending
  <2>1. i \in Cli!Ids
    BY <1>2
  <2>2. closes[o] \in Nat /\ closes[o] <= 1 /\ closes[o] # 1
    BY <2>1 DEF CliInv, CallsInv, Cli!RespSound, Cli!TypeOK
  <2> QED BY <2>1, <2>2 DEF CliInv, CallsInv, NewUntouched
<1>4. \A o \in Ops : caller'[o] \in {"new", "writing", "waiting"} =>
        caller'[o] = caller[o] /\ caller[o] # "writing" /\ o \notin Cli!Inflight
  BY <1>1 DEF Cli!Inflight
<1>5. OwnIds'
  BY <1>1 DEF OwnIds
<1>6. NewUntouched'
  BY <1>1, <1>2, <1>3, <1>4 DEF CliInv, CallsInv, NewUntouched
<1>7. SentIsGone'
  BY <1>1, <1>2 DEF CliInv, CallsInv, SentIsGone
<1>8. Expecting'
  <2> SUFFICES ASSUME NEW o \in Ops, caller'[o] \in {"writing", "waiting"}, closes'[o] # 1, NEW i \in OpIds[o]
               PROVE  \E j \in DOMAIN resp[o] : resp[o][j] = i
    BY <1>1 DEF Expecting
  <2>1. o \notin Cli!Pending /\ caller[o] = "waiting" /\ closes[o] # 1
    BY <1>1, <1>3, <1>4
  <2>2. respWait[i] # o
    BY <2>1 DEF Cli!Pending
  <2> QED BY <2>1, <2>2 DEF CliInv, CallsInv, Expecting
<1>9. Cli!RespSound'
  <2> SUFFICES ASSUME NEW o \in Ops PROVE closes'[o] <= 1
    BY <1>1, <1>2 DEF CliInv, CallsInv, Cli!RespSound
  <2> QED BY <1>1, <1>3 DEF CliInv, CallsInv, Cli!RespSound
<1> QED BY <1>5, <1>6, <1>7, <1>8, <1>9 DEF CallsInv

LEMMA CliStep == CliInv /\ [Cli!Next]_cliVars => CliInv'
<1> SUFFICES ASSUME CliInv, [Cli!Next]_cliVars PROVE CliInv'
  OBVIOUS
<1>1. CASE UNCHANGED cliVars
  <2>1. UNCHANGED <<respWait, resp, closes>> /\ caller' = caller
    BY <1>1 DEF cliVars
  <2>2. Cli!TypeOK'
    BY <1>1 DEF cliVars, CliInv, Cli!TypeOK
  <2> QED BY <2>1, <2>2, CallerStep DEF CliInv
<1>2. CASE Cli!Next
  <2>1. ASSUME NEW o \in Ops, Cli!Written(o) \/ Cli!Timeout(o) \/ Cli!Answered(o) PROVE CallsInv'
    <3>1. /\ UNCHANGED <<respWait, resp, closes>>
          /\ \A p \in Ops : /\ caller'[p] = "new" => caller[p] = "new"
                            /\ caller'[p] \in {"writing", "waiting"} => caller[p] \in {"writing", "waiting"}
      BY <2>1 DEF CliInv, Cli!TypeOK, Cli!Written, Cli!Timeout, Cli!Answered
    <3> QED BY <3>1, CallerStep
  <2>2. ASSUME NEW o \in Ops, Cli!WriteFails(o) \/ Cli!TimedOut(o) PROVE CallsInv'
    BY <2>2, RemoveStep DEF Cli!WriteFails, Cli!TimedOut
  <2>3. CallsInv'
    BY <1>2, <2>1, <2>2, RegisterStep, RespondStep, CancelStep DEF Cli!Next
  <2> QED BY <1>2, <2>3, CliTypes DEF CliInv
<1> QED BY <1>1, <1>2

LEMMA CliSound == CliInv => CallsSound
BY DEF CliInv, CallsInv, Expecting, CallsSound, Cli!CallsSound, Cli!NobodyForgotten

-----------------------------------------------------------------------------
(* The steps of the other parts leave these as they are.                   *)

LEMMA SubAlways == RpcSpec => []SubInv
<1>1. RpcInit => SubInv
  BY SubInit DEF RpcInit
<1>2. SubInv /\ [RpcNext]_<<part, rpcVars>> => SubInv'
  <2>1. [RpcNext]_<<part, rpcVars>> => [Sub!Next]_subVars
    BY DEF RpcNext, rpcVars
  <2> QED BY <2>1, SubStep
<1> QED BY <1>1, <1>2, PTL DEF RpcSpec

LEMMA CliAlways == RpcSpec => []CliInv
<1>1. RpcInit => CliInv
  BY CliInit DEF RpcInit
<1>2. CliInv /\ [RpcNext]_<<part, rpcVars>> => CliInv'
  <2>1. [RpcNext]_<<part, rpcVars>> => [Cli!Next]_cliVars
    BY DEF RpcNext, rpcVars
  <2> QED BY <2>1, CliStep
<1> QED BY <1>1, <1>2, PTL DEF RpcSpec

(* ClientSubscription: whatever the owner does and whenever the connection *)
(* ends, he receives the server's values in order and without a gap, and   *)
(* once an Unsubscribe has returned the goroutine of run has ended.        *)
THEOREM SubscriberInOrder == RpcSpec => []ForwardsInOrder
BY SubAlways, SubSound, PTL

(* handler: however responses, repetitions, timeouts and the loss of the   *)
(* connection meet, op.resp is closed at most once and gets each id once,  *)
(* and what a waiting caller lacks is still expected.                      *)
THEOREM CallsAreSound == RpcSpec => []CallsSound
BY CliAlways, CliSound, PTL

-----------------------------------------------------------------------------
(* ServerSubs, the table: a subscription is in it from the return of its   *)
(* call until it is told that it is over.                                  *)
NotifierRecords == [created : BOOLEAN, returned : BOOLEAN, activated : BOOLEAN, buffer : Seq(1..MaxNotify)]
NotifierTyped == notifier \in [Calls -> NotifierRecords]
ErrTyped == errch \in [Calls -> [sent : Nat, closes : Nat]]
TableSound ==
  \A k \in Calls :
    /\ call[k] \in {"none", "running"} => k \notin serverSubs /\ errch[k].closes = 0 /\ errch[k].sent = 0
    /\ k \in serverSubs => errch[k].closes = 0 /\ errch[k].sent = 0
    /\ errch[k].closes <= 1 /\ errch[k].sent <= errch[k].closes
    /\ call[k] \notin {"none", "running"} /\ notifier[k].created => k \in serverSubs \/ errch[k].closes = 1
ClosedEmpty == closing = "closed" => serverSubs = {} /\ Srv!Waited

(* ServerSubs, the connection: the values of a subscription that have been *)
(* written are the flushed ones, and all once it is active.                *)
Buffered ==
  \A k \in Calls :
    /\ \A j \in 1..Len(notifier[k].buffer) : notifier[k].buffer[j] = j
    /\ flushed[k] <= Len(notifier[k].buffer)
    /\ notifier[k].activated => flushed[k] = Len(notifier[k].buffer) /\ call[k] = "done"
    /\ ~notifier[k].activated => Len(notifier[k].buffer) = notified[k]
    /\ flushed[k] <= notified[k]
Written(m) == \E j \in DOMAIN wire : wire[j] = m
IdFirst ==
  \A k \in Calls :
    /\ call[k] \in {"none", "running", "returned"} => flushed[k] = 0 /\ ~notifier[k].activated
    /\ call[k] = "activating" => notifier[k].created
    /\ notifier[k].activated => notifier[k].created
    /\ ~broken /\ notifier[k].created /\ call[k] \in {"activating", "done"} => Written(<<"id", k>>)
Messages == ({"id"} \X Calls) \cup ({"value"} \X Calls \X (1..MaxNotify))
WireTyped == wire \in Seq(Messages)
WrittenValues ==
  ~broken => \A k \in Calls, n \in 1..MaxNotify :
    Written(Srv!Value(k, n)) <=> n <= (IF notifier[k].activated THEN notified[k] ELSE flushed[k])
InOrder ==
  \A k \in Calls, j \in DOMAIN wire, n \in 1..MaxNotify : wire[j] = Srv!Value(k, n) =>
    /\ Srv!Before(<<"id", k>>, j) /\ ~Srv!Before(Srv!Value(k, n), j)
    /\ \A m \in 1..(n - 1) : Srv!Before(Srv!Value(k, m), j)

TableInv == NotifierTyped /\ ErrTyped /\ TableSound /\ ClosedEmpty
WireInv == Buffered /\ IdFirst /\ WireTyped /\ WrittenValues /\ InOrder
SrvInv == Srv!TypeOK /\ TableInv /\ WireInv

-----------------------------------------------------------------------------
(* The server's subscriptions: types.                                      *)

LEMMA NotifierFields ==
  ASSUME NotifierTyped, NEW k \in Calls
  PROVE  /\ notifier[k] \in NotifierRecords
         /\ notifier[k].created \in BOOLEAN /\ notifier[k].returned \in BOOLEAN
         /\ notifier[k].activated \in BOOLEAN /\ notifier[k].buffer \in Seq(1..MaxNotify)
         /\ Len(notifier[k].buffer) \in Nat
<1>1. notifier[k] \in NotifierRecords
  BY DEF NotifierTyped, NotifierRecords
<1>2. notifier[k].buffer \in Seq(1..MaxNotify)
  BY <1>1 DEF NotifierRecords
<1> QED BY <1>1, <1>2, LenProperties DEF NotifierRecords

(* What a step does to the notifier of one call.                           *)
LEMMA NotifierStep ==
  ASSUME NotifierTyped, NEW k \in Calls, NEW n \in NotifierRecords, notifier' = [notifier EXCEPT ![k] = n]
  PROVE  NotifierTyped' /\ notifier'[k] = n /\ \A l \in Calls \ {k} : notifier'[l] = notifier[l]
BY DEF NotifierTyped, NotifierRecords

LEMMA CreateEffect ==
  ASSUME NotifierTyped, NEW k \in Calls, Srv!CreateSubscription(k)
  PROVE  /\ NotifierTyped' /\ \A l \in Calls \ {k} : notifier'[l] = notifier[l]
         /\ notifier'[k].activated = notifier[k].activated /\ notifier'[k].buffer = notifier[k].buffer
<1> DEFINE n == [notifier[k] EXCEPT !.created = TRUE]
<1>1. n \in NotifierRecords /\ n.activated = notifier[k].activated /\ n.buffer = notifier[k].buffer
  BY NotifierFields DEF NotifierRecords
<1>2. notifier' = [notifier EXCEPT ![k] = n]
  BY DEF Srv!CreateSubscription
<1> HIDE DEF n
<1> QED BY <1>1, <1>2, NotifierStep

LEMMA ReturnEffect ==
  ASSUME NotifierTyped, NEW k \in Calls, Srv!addSubscriptions(k)
  PROVE  /\ NotifierTyped' /\ \A l \in Calls \ {k} : notifier'[l] = notifier[l]
         /\ notifier'[k].activated = notifier[k].activated /\ notifier'[k].buffer = notifier[k].buffer
         /\ notifier'[k].created = notifier[k].created
<1> DEFINE n == [notifier[k] EXCEPT !.returned = TRUE]
<1>1. n \in NotifierRecords /\ n.activated = notifier[k].activated /\ n.buffer = notifier[k].buffer
      /\ n.created = notifier[k].created
  BY NotifierFields DEF NotifierRecords
<1>2. notifier' = [notifier EXCEPT ![k] = n]
  BY DEF Srv!addSubscriptions
<1> HIDE DEF n
<1> QED BY <1>1, <1>2, NotifierStep

LEMMA ActivateEffect ==
  ASSUME NotifierTyped, NEW k \in Calls, Srv!Activated(k)
  PROVE  /\ NotifierTyped' /\ \A l \in Calls \ {k} : notifier'[l] = notifier[l]
         /\ notifier'[k].activated = TRUE /\ notifier'[k].buffer = notifier[k].buffer
         /\ notifier'[k].created = notifier[k].created
<1> DEFINE n == [notifier[k] EXCEPT !.activated = TRUE]
<1>1. n \in NotifierRecords /\ n.activated = TRUE /\ n.buffer = notifier[k].buffer
      /\ n.created = notifier[k].created
  BY NotifierFields DEF NotifierRecords
<1>2. notifier' = [notifier EXCEPT ![k] = n]
  BY DEF Srv!Activated
<1> HIDE DEF n
<1> QED BY <1>1, <1>2, NotifierStep

LEMMA BufferEffect ==
  ASSUME NotifierTyped, NEW k \in Calls, NEW x \in 1..MaxNotify,
         notifier' = [notifier EXCEPT ![k].buffer = Append(@, x)]
  PROVE  /\ NotifierTyped' /\ \A l \in Calls \ {k} : notifier'[l] = notifier[l]
         /\ notifier'[k].activated = notifier[k].activated
         /\ notifier'[k].buffer = Append(notifier[k].buffer, x)
         /\ notifier'[k].created = notifier[k].created
<1> DEFINE n == [notifier[k] EXCEPT !.buffer = Append(notifier[k].buffer, x)]
<1>1. Append(notifier[k].buffer, x) \in Seq(1..MaxNotify)
  BY NotifierFields
<1>2. n \in NotifierRecords /\ n.activated = notifier[k].activated
      /\ n.buffer = Append(notifier[k].buffer, x) /\ n.created = notifier[k].created
  BY <1>1, NotifierFields DEF NotifierRecords
<1>3. notifier' = [notifier EXCEPT ![k] = n]
  OBVIOUS
<1> HIDE DEF n
<1> QED BY <1>2, <1>3, NotifierStep

LEMMA SrvInit == Srv!Init => SrvInv
<1> SUFFICES ASSUME Srv!Init PROVE SrvInv
  OBVIOUS
<1>1. NotifierTyped
  BY DEF Srv!Init, Srv!NoNotifier, NotifierTyped, NotifierRecords
<1>2. ErrTyped
  BY DEF Srv!Init, ErrTyped
<1>3. Srv!TypeOK
  <2>1. /\ notified \in [Calls -> 0..MaxNotify] /\ flushed \in [Calls -> 0..MaxNotify]
        /\ call \in [Calls -> Srv!CallStates] /\ broken \in BOOLEAN /\ serverSubs \subseteq Calls
        /\ closing \in {"open", "waiting", "closed"}
    <3>1. 0 \in 0..MaxNotify
      BY BoundsAssumption
    <3>2. notified \in [Calls -> 0..MaxNotify] /\ flushed \in [Calls -> 0..MaxNotify]
      BY <3>1 DEF Srv!Init
    <3>3. call \in [Calls -> Srv!CallStates]
      BY DEF Srv!Init, Srv!CallStates
    <3>4. broken = FALSE /\ serverSubs = {} /\ closing = "open"
      BY DEF Srv!Init
    <3> QED BY <3>2, <3>3, <3>4
  <2> QED BY <1>1, <2>1, NotifierFields DEF Srv!TypeOK
<1>4. TableSound
  BY DEF Srv!Init, TableSound
<1>5. Buffered
  BY DEF Srv!Init, Srv!NoNotifier, Buffered
<1>6. IdFirst
  BY DEF Srv!Init, Srv!NoNotifier, IdFirst
<1>7. WireTyped /\ WrittenValues /\ InOrder
  BY DEF Srv!Init, Srv!NoNotifier, WireTyped, WrittenValues, InOrder, Written
<1>8. ClosedEmpty
  BY DEF Srv!Init, ClosedEmpty
<1> QED BY <1>1, <1>2, <1>3, <1>4, <1>5, <1>6, <1>7, <1>8 DEF SrvInv, TableInv, WireInv

LEMMA MessageFacts ==
  /\ \A k \in Calls : <<"id", k>> \in Messages
  /\ \A k \in Calls, n \in 1..MaxNotify : Srv!Value(k, n) \in Messages
  /\ \A k, l, m : <<"id", k>> # Srv!Value(l, m)
  /\ \A k, l, m, n : Srv!Value(k, n) = Srv!Value(l, m) => k = l /\ n = m
BY DEF Messages, Srv!Value

(* The value that is flushed next, and the next one that is made.          *)
LEMMA FlushNext ==
  ASSUME SrvInv, NEW k \in Calls, Srv!Flush(k)
  PROVE  /\ flushed[k] + 1 \in 1..MaxNotify /\ notifier[k].buffer[flushed[k] + 1] = flushed[k] + 1
         /\ wire' = Append(wire, Srv!Value(k, flushed[k] + 1))
         /\ flushed' = [flushed EXCEPT ![k] = flushed[k] + 1] /\ flushed[k] \in Nat
         /\ flushed[k] < Len(notifier[k].buffer) /\ ~notifier[k].activated
<1>1. /\ flushed[k] < Len(notifier[k].buffer) /\ call[k] = "activating"
      /\ flushed' = [flushed EXCEPT ![k] = flushed[k] + 1]
      /\ wire' = Append(wire, Srv!Value(k, notifier[k].buffer[flushed[k] + 1]))
  BY DEF Srv!Flush
<1>2. /\ flushed[k] \in Nat /\ notified[k] \in Nat /\ notified[k] <= MaxNotify
      /\ Len(notifier[k].buffer) \in Nat /\ notifier[k].activated \in BOOLEAN
  BY BoundsAssumption, NotifierFields DEF SrvInv, TableInv, Srv!TypeOK
<1>3. ~notifier[k].activated /\ Len(notifier[k].buffer) = notified[k]
  BY <1>1 DEF SrvInv, WireInv, Buffered
<1>4. flushed[k] + 1 \in 1..Len(notifier[k].buffer) /\ flushed[k] + 1 \in 1..MaxNotify
  BY <1>1, <1>2, <1>3, BoundsAssumption
<1>5. notifier[k].buffer[flushed[k] + 1] = flushed[k] + 1
  BY <1>4 DEF SrvInv, WireInv, Buffered
<1> QED BY <1>1, <1>2, <1>3, <1>4, <1>5

LEMMA NotifyNext ==
  ASSUME SrvInv, NEW k \in Calls, Srv!Notify(k)
  PROVE  /\ notified[k] + 1 \in 1..MaxNotify /\ notified[k] \in Nat
         /\ notified' = [notified EXCEPT ![k] = notified[k] + 1] /\ notified'[k] = notified[k] + 1
<1>1. notified[k] \in 0..MaxNotify /\ notified \in [Calls -> 0..MaxNotify]
  BY DEF SrvInv, Srv!TypeOK
<1>2. notified[k] < MaxNotify /\ notified' = [notified EXCEPT ![k] = notified[k] + 1]
  BY DEF Srv!Notify
<1> QED BY <1>1, <1>2, BoundsAssumption

LEMMA NotifierTypes == ASSUME SrvInv, Srv!Next PROVE NotifierTyped'
<1>0. NotifierTyped
  BY DEF SrvInv, TableInv
<1>1. ASSUME NEW k \in Calls, Srv!Notify(k) PROVE NotifierTyped'
  <2>1. notified'[k] \in 1..MaxNotify
    BY <1>1, NotifyNext
  <2>2. notifier' = notifier \/ notifier' = [notifier EXCEPT ![k].buffer = Append(@, notified'[k])]
    BY <1>1 DEF Srv!Notify
  <2>3. CASE notifier' = notifier
    BY <1>0, <2>3 DEF NotifierTyped
  <2>4. CASE notifier' = [notifier EXCEPT ![k].buffer = Append(@, notified'[k])]
    <3> PICK x \in 1..MaxNotify : x = notified'[k]
      BY <2>1
    <3> QED BY <1>0, <2>4, BufferEffect
  <2> QED BY <2>2, <2>3, <2>4
<1>2. CASE notifier' = notifier
  BY <1>0, <1>2 DEF NotifierTyped
<1>3. notifier' = notifier
      \/ \E k \in Calls : Srv!CreateSubscription(k) \/ Srv!addSubscriptions(k) \/ Srv!Activated(k) \/ Srv!Notify(k)
  BY DEF Srv!Next, Srv!CallStep, Srv!startCallProc, Srv!Answer, Srv!Flush, Srv!FlushFails, Srv!unsubscribe,
     Srv!Break, Srv!Close, Srv!cancelServerSubscriptions
<1> QED BY <1>0, <1>1, <1>2, <1>3, CreateEffect, ReturnEffect, ActivateEffect

LEMMA ErrTypes == ASSUME SrvInv, Srv!Next PROVE ErrTyped'
<1>0. errch \in [Calls -> [sent : Nat, closes : Nat]]
  BY DEF SrvInv, TableInv, ErrTyped
<1>1. ASSUME NEW k \in Calls, Srv!unsubscribe(k) PROVE ErrTyped'
  <2>1. errch' = [errch EXCEPT ![k].closes = @ + 1]
    BY <1>1 DEF Srv!unsubscribe
  <2>2. errch[k].closes \in Nat /\ errch[k].closes + 1 \in Nat
    BY <1>0
  <2> QED BY <1>0, <2>1, <2>2 DEF ErrTyped
<1>2. CASE Srv!cancelServerSubscriptions
  <2>1. \A k \in Calls : errch[k] \in [sent : Nat, closes : Nat]
                         /\ [sent |-> errch[k].sent + 1, closes |-> errch[k].closes + 1] \in [sent : Nat, closes : Nat]
    BY <1>0
  <2>2. errch' = [k \in Calls |-> IF k \in serverSubs
                    THEN [sent |-> errch[k].sent + 1, closes |-> errch[k].closes + 1] ELSE errch[k]]
    BY <1>2 DEF Srv!cancelServerSubscriptions, Srv!CancelAll
  <2> QED BY <2>1, <2>2 DEF ErrTyped
<1>3. CASE errch' = errch
  BY <1>0, <1>3 DEF ErrTyped
<1>4. errch' = errch \/ Srv!cancelServerSubscriptions \/ \E k \in Calls : Srv!unsubscribe(k)
  BY DEF Srv!Next, Srv!CallStep, Srv!startCallProc, Srv!CreateSubscription, Srv!addSubscriptions, Srv!Answer,
     Srv!Flush, Srv!FlushFails, Srv!Activated, Srv!Notify, Srv!Break, Srv!Close
<1> QED BY <1>1, <1>2, <1>3, <1>4

(* How far the goroutine of a call can get in a step.                      *)
CallMoves(k) ==
  /\ \A l \in Calls \ {k} : call'[l] = call[l]
  /\ \/ call[k] = "none" /\ call'[k] = "running"
     \/ call[k] = "running" /\ call'[k] = "returned"
     \/ call[k] = "returned" /\ call'[k] \in {"activating", "done"}
     \/ call[k] = "activating" /\ call'[k] = "done"

LEMMA CallEffect ==
  ASSUME SrvInv, Srv!Next
  PROVE  call' \in [Calls -> Srv!CallStates] /\ (call' = call \/ \E k \in Calls : CallMoves(k))
<1>0. call \in [Calls -> Srv!CallStates]
  BY DEF SrvInv, Srv!TypeOK
<1>1. ASSUME NEW k \in Calls, NEW to \in Srv!CallStates, Srv!Goto(k, to)
      PROVE  call' \in [Calls -> Srv!CallStates] /\ call'[k] = to /\ \A l \in Calls \ {k} : call'[l] = call[l]
  BY <1>0, <1>1 DEF Srv!Goto
<1>2. {"running", "returned", "activating", "done"} \subseteq Srv!CallStates
  BY DEF Srv!CallStates
<1>3. call' = call \/ \E k \in Calls :
         \/ call[k] = "none" /\ Srv!Goto(k, "running")
         \/ call[k] = "running" /\ Srv!Goto(k, "returned")
         \/ call[k] = "returned" /\ (Srv!Goto(k, "activating") \/ Srv!Goto(k, "done"))
         \/ call[k] = "activating" /\ Srv!Goto(k, "done")
  BY DEF Srv!Next, Srv!CallStep, Srv!startCallProc, Srv!CreateSubscription, Srv!addSubscriptions, Srv!Answer,
     Srv!Flush, Srv!FlushFails, Srv!Activated, Srv!Notify, Srv!Break, Srv!Close, Srv!unsubscribe,
     Srv!cancelServerSubscriptions
<1>4. CASE call' = call
  BY <1>0, <1>4
<1>5. ASSUME NEW k \in Calls, call[k] = "none" /\ Srv!Goto(k, "running")
      PROVE  call' \in [Calls -> Srv!CallStates] /\ CallMoves(k)
  BY <1>1, <1>2, <1>5 DEF CallMoves
<1>6. ASSUME NEW k \in Calls, call[k] = "running" /\ Srv!Goto(k, "returned")
      PROVE  call' \in [Calls -> Srv!CallStates] /\ CallMoves(k)
  BY <1>1, <1>2, <1>6 DEF CallMoves
<1>7. ASSUME NEW k \in Calls, call[k] = "returned" /\ (Srv!Goto(k, "activating") \/ Srv!Goto(k, "done"))
      PROVE  call' \in [Calls -> Srv!CallStates] /\ CallMoves(k)
  BY <1>1, <1>2, <1>7 DEF CallMoves
<1>8. ASSUME NEW k \in Calls, call[k] = "activating" /\ Srv!Goto(k, "done")
      PROVE  call' \in [Calls -> Srv!CallStates] /\ CallMoves(k)
  BY <1>1, <1>2, <1>8 DEF CallMoves
<1> QED BY <1>3, <1>4, <1>5, <1>6, <1>7, <1>8


LEMMA SrvTypes == ASSUME SrvInv, Srv!Next PROVE (Srv!TypeOK /\ NotifierTyped /\ ErrTyped)'
<1>1. NotifierTyped' /\ ErrTyped' /\ call' \in [Calls -> Srv!CallStates]
  BY NotifierTypes, ErrTypes, CallEffect
<1>2. notified' \in [Calls -> 0..MaxNotify]
  <2>0. notified \in [Calls -> 0..MaxNotify]
    BY DEF SrvInv, Srv!TypeOK
  <2>1. ASSUME NEW k \in Calls, Srv!Notify(k) PROVE notified' \in [Calls -> 0..MaxNotify]
    BY <2>0, <2>1, NotifyNext, BoundsAssumption
  <2>2. notified' = notified \/ \E k \in Calls : Srv!Notify(k)
    BY DEF Srv!Next, Srv!CallStep, Srv!startCallProc, Srv!CreateSubscription, Srv!addSubscriptions, Srv!Answer,
       Srv!Flush, Srv!FlushFails, Srv!Activated, Srv!Break, Srv!Close, Srv!unsubscribe,
       Srv!cancelServerSubscriptions
  <2> QED BY <2>0, <2>1, <2>2
<1>3. flushed' \in [Calls -> 0..MaxNotify]
  <2>0. flushed \in [Calls -> 0..MaxNotify]
    BY DEF SrvInv, Srv!TypeOK
  <2>1. ASSUME NEW k \in Calls, Srv!Flush(k) PROVE flushed' \in [Calls -> 0..MaxNotify]
    BY <2>0, <2>1, FlushNext, BoundsAssumption
  <2>2. flushed' = flushed \/ \E k \in Calls : Srv!Flush(k)
    BY DEF Srv!Next, Srv!CallStep, Srv!startCallProc, Srv!CreateSubscription, Srv!addSubscriptions, Srv!Answer,
       Srv!FlushFails, Srv!Activated, Srv!Notify, Srv!Break, Srv!Close, Srv!unsubscribe,
       Srv!cancelServerSubscriptions
  <2> QED BY <2>0, <2>1, <2>2
<1>4. broken' \in BOOLEAN
  <2>1. broken' = broken \/ broken' = TRUE
    BY DEF Srv!Next, Srv!CallStep, Srv!startCallProc, Srv!CreateSubscription, Srv!addSubscriptions, Srv!Answer,
       Srv!Flush, Srv!FlushFails, Srv!Activated, Srv!Notify, Srv!Break, Srv!Close, Srv!unsubscribe,
       Srv!cancelServerSubscriptions
  <2> QED BY <2>1 DEF SrvInv, Srv!TypeOK
<1>5. serverSubs' \subseteq Calls /\ closing' \in {"open", "waiting", "closed"}
  <2>0. serverSubs \subseteq Calls /\ closing \in {"open", "waiting", "closed"}
    BY DEF SrvInv, Srv!TypeOK
  <2>1. serverSubs' \in {serverSubs, {}} \/ \E k \in Calls : serverSubs' \in {serverSubs \cup {k}, serverSubs \ {k}}
    BY DEF Srv!Next, Srv!CallStep, Srv!startCallProc, Srv!CreateSubscription, Srv!addSubscriptions, Srv!Answer,
       Srv!Flush, Srv!FlushFails, Srv!Activated, Srv!Notify, Srv!Break, Srv!Close, Srv!unsubscribe,
       Srv!cancelServerSubscriptions, Srv!CancelAll
  <2>2. closing' \in {closing, "waiting", "closed"}
    BY DEF Srv!Next, Srv!CallStep, Srv!startCallProc, Srv!CreateSubscription, Srv!addSubscriptions, Srv!Answer,
       Srv!Flush, Srv!FlushFails, Srv!Activated, Srv!Notify, Srv!Break, Srv!Close, Srv!unsubscribe,
       Srv!cancelServerSubscriptions, Srv!CancelAll
  <2> QED BY <2>0, <2>1, <2>2
<1>6. \A k \in Calls : /\ notifier'[k].created \in BOOLEAN /\ notifier'[k].activated \in BOOLEAN
                       /\ notifier'[k].returned \in BOOLEAN /\ notifier'[k].buffer \in Seq(1..MaxNotify)
  BY <1>1 DEF NotifierTyped, NotifierRecords
<1> QED BY <1>1, <1>2, <1>3, <1>4, <1>5, <1>6 DEF Srv!TypeOK

-----------------------------------------------------------------------------
(* The server's subscriptions: the table.                                  *)

(* A step that leaves the table, sub.err and what was created as they are; *)
(* the calls that close has waited for go no further.                      *)
LEMMA TableFrame ==
  ASSUME SrvInv, UNCHANGED <<serverSubs, errch>>, \A k \in Calls : notifier'[k].created = notifier[k].created,
         closing' = closing \/ closing' = "waiting",
         call' = call \/ \E k \in Calls : CallMoves(k) /\ call[k] # "running" /\ (call[k] = "none" => closing = "open")
  PROVE  (TableSound /\ ClosedEmpty)'
<1>1. CASE call' = call
  BY <1>1 DEF SrvInv, TableInv, TableSound, ClosedEmpty, Srv!Waited
<1>2. ASSUME NEW k \in Calls, CallMoves(k), call[k] # "running", call[k] = "none" => closing = "open"
      PROVE  (TableSound /\ ClosedEmpty)'
  <2>1. ~(closing = "closed")
    BY <1>2 DEF CallMoves, SrvInv, TableInv, ClosedEmpty, Srv!Waited
  <2>2. ClosedEmpty'
    BY <2>1 DEF ClosedEmpty
  <2>3. \A l \in Calls : call'[l] \in {"none", "running"} => call[l] \in {"none", "running"}
    BY <1>2 DEF CallMoves
  <2>4. \A l \in Calls : call'[l] \notin {"none", "running"} => call[l] \notin {"none", "running"}
    BY <1>2 DEF CallMoves
  <2>5. TableSound'
    BY <2>3, <2>4 DEF SrvInv, TableInv, TableSound
  <2> QED BY <2>2, <2>5
<1> QED BY <1>1, <1>2

LEMMA CreateTable == ASSUME SrvInv, NEW k \in Calls, Srv!CreateSubscription(k) PROVE (TableSound /\ ClosedEmpty)'
<1>1. call[k] = "running" /\ UNCHANGED <<call, serverSubs, errch, closing>>
  BY DEF Srv!CreateSubscription
<1>2. \A l \in Calls \ {k} : notifier'[l] = notifier[l]
  BY CreateEffect DEF SrvInv, TableInv
<1>3. ClosedEmpty'
  BY <1>1 DEF SrvInv, TableInv, ClosedEmpty, Srv!Waited
<1>4. TableSound'
  BY <1>1, <1>2 DEF SrvInv, TableInv, TableSound
<1> QED BY <1>3, <1>4

LEMMA AddTable == ASSUME SrvInv, NEW k \in Calls, Srv!addSubscriptions(k) PROVE (TableSound /\ ClosedEmpty)'
<1>1. /\ call[k] = "running" /\ UNCHANGED <<errch, closing>> /\ call' = [call EXCEPT ![k] = "returned"]
      /\ serverSubs' = IF notifier[k].created THEN serverSubs \cup {k} ELSE serverSubs
  BY DEF Srv!addSubscriptions, Srv!Goto
<1>2. /\ \A l \in Calls \ {k} : notifier'[l] = notifier[l] /\ call'[l] = call[l]
      /\ notifier'[k].created = notifier[k].created /\ call'[k] = "returned"
  BY <1>1, ReturnEffect DEF SrvInv, TableInv, Srv!TypeOK
<1>3. closing # "closed"
  BY <1>1 DEF SrvInv, TableInv, ClosedEmpty, Srv!Waited
<1>4. errch[k].closes = 0 /\ errch[k].sent = 0
  BY <1>1 DEF SrvInv, TableInv, TableSound
<1>5. TableSound'
  <2> SUFFICES ASSUME NEW l \in Calls
               PROVE  /\ call'[l] \in {"none", "running"} => l \notin serverSubs' /\ errch[l].closes = 0 /\ errch[l].sent = 0
                      /\ l \in serverSubs' => errch[l].closes = 0 /\ errch[l].sent = 0
                      /\ errch[l].closes <= 1 /\ errch[l].sent <= errch[l].closes
                      /\ call'[l] \notin {"none", "running"} /\ notifier'[l].created => l \in serverSubs' \/ errch[l].closes = 1
    BY <1>1 DEF TableSound
  <2>1. CASE l = k
    BY <1>1, <1>2, <1>4, <2>1
  <2>2. CASE l # k
    BY <1>1, <1>2, <2>2 DEF SrvInv, TableInv, TableSound
  <2> QED BY <2>1, <2>2
<1> QED BY <1>1, <1>3, <1>5 DEF ClosedEmpty

LEMMA UnsubscribeTable == ASSUME SrvInv, NEW k \in Calls, Srv!unsubscribe(k) PROVE (TableSound /\ ClosedEmpty)'
<1>1. /\ closing # "closed" /\ k \in serverSubs /\ UNCHANGED <<call, notifier, closing>>
      /\ errch' = [errch EXCEPT ![k].closes = @ + 1] /\ serverSubs' = serverSubs \ {k}
  BY DEF Srv!unsubscribe
<1>2. errch[k].closes = 0 /\ errch[k].sent = 0 /\ call[k] \notin {"none", "running"}
  BY <1>1 DEF SrvInv, TableInv, TableSound
<1>3. errch'[k].closes = 1 /\ errch'[k].sent = 0 /\ \A l \in Calls \ {k} : errch'[l] = errch[l]
  <2>1. errch \in [Calls -> [sent : Nat, closes : Nat]]
    BY DEF SrvInv, TableInv, ErrTyped
  <2> QED BY <1>1, <1>2, <2>1
<1>4. TableSound'
  <2> SUFFICES ASSUME NEW l \in Calls
               PROVE  /\ call[l] \in {"none", "running"} => l \notin serverSubs' /\ errch'[l].closes = 0 /\ errch'[l].sent = 0
                      /\ l \in serverSubs' => errch'[l].closes = 0 /\ errch'[l].sent = 0
                      /\ errch'[l].closes <= 1 /\ errch'[l].sent <= errch'[l].closes
                      /\ call[l] \notin {"none", "running"} /\ notifier[l].created => l \in serverSubs' \/ errch'[l].closes = 1
    BY <1>1 DEF TableSound
  <2>1. CASE l = k
    BY <1>1, <1>2, <1>3, <2>1
  <2>2. CASE l # k
    BY <1>1, <1>3, <2>2 DEF SrvInv, TableInv, TableSound
  <2> QED BY <2>1, <2>2
<1> QED BY <1>1, <1>4 DEF ClosedEmpty

LEMMA CancelTable == ASSUME SrvInv, Srv!cancelServerSubscriptions PROVE (TableSound /\ ClosedEmpty)'
<1>1. /\ Srv!Waited /\ UNCHANGED <<call, notifier>> /\ serverSubs' = {}
      /\ errch' = [k \in Calls |-> IF k \in serverSubs
           THEN [sent |-> errch[k].sent + 1, closes |-> errch[k].closes + 1] ELSE errch[k]]
  BY DEF Srv!cancelServerSubscriptions, Srv!CancelAll
<1>2. ClosedEmpty'
  BY <1>1 DEF ClosedEmpty, Srv!Waited
<1>3. TableSound'
  <2> SUFFICES ASSUME NEW l \in Calls
               PROVE  /\ call[l] \in {"none", "running"} => errch'[l].closes = 0 /\ errch'[l].sent = 0
                      /\ errch'[l].closes <= 1 /\ errch'[l].sent <= errch'[l].closes
                      /\ call[l] \notin {"none", "running"} /\ notifier[l].created => errch'[l].closes = 1
    BY <1>1 DEF TableSound
  <2>1. CASE l \in serverSubs
    <3>1. errch[l].closes = 0 /\ errch[l].sent = 0 /\ call[l] \notin {"none", "running"}
      BY <2>1 DEF SrvInv, TableInv, TableSound
    <3>2. errch'[l] = [sent |-> errch[l].sent + 1, closes |-> errch[l].closes + 1]
      BY <1>1, <2>1
    <3> QED BY <3>1, <3>2
  <2>2. CASE l \notin serverSubs
    BY <1>1, <2>2 DEF SrvInv, TableInv, TableSound
  <2> QED BY <2>1, <2>2
<1> QED BY <1>2, <1>3

LEMMA TableStep == ASSUME SrvInv, Srv!Next PROVE (TableSound /\ ClosedEmpty)'
<1>0. NotifierTyped
  BY DEF SrvInv, TableInv
<1>1. ASSUME NEW k \in Calls, Srv!Activated(k) PROVE \A l \in Calls : notifier'[l].created = notifier[l].created
  BY <1>0, <1>1, ActivateEffect
<1>2. ASSUME NEW k \in Calls, Srv!Notify(k) PROVE \A l \in Calls : notifier'[l].created = notifier[l].created
  <2>1. notified'[k] \in 1..MaxNotify
    BY <1>2, NotifyNext
  <2> PICK x \in 1..MaxNotify : x = notified'[k]
    BY <2>1
  <2>2. notifier' = notifier \/ notifier' = [notifier EXCEPT ![k].buffer = Append(@, x)]
    BY <1>2 DEF Srv!Notify
  <2> QED BY <1>0, <2>2, BufferEffect
<1>3. ASSUME NEW k \in Calls, Srv!startCallProc(k) \/ Srv!Answer(k) \/ Srv!Flush(k) \/ Srv!FlushFails(k)
                               \/ Srv!Activated(k) \/ Srv!Notify(k)
      PROVE  (TableSound /\ ClosedEmpty)'
  <2>1. UNCHANGED <<serverSubs, errch, closing>>
    BY <1>3 DEF Srv!startCallProc, Srv!Answer, Srv!Flush, Srv!FlushFails, Srv!Activated, Srv!Notify
  <2>2. \A l \in Calls : notifier'[l].created = notifier[l].created
    BY <1>1, <1>2, <1>3 DEF Srv!startCallProc, Srv!Answer, Srv!Flush, Srv!FlushFails
  <2>3. \A l \in Calls : call'[l] # call[l] => call[l] # "running" /\ (call[l] = "none" => closing = "open")
    BY <1>3 DEF SrvInv, Srv!TypeOK, Srv!Goto, Srv!startCallProc, Srv!Answer, Srv!Flush, Srv!FlushFails,
       Srv!Activated, Srv!Notify
  <2>4. call' = call \/ \E l \in Calls : CallMoves(l)
    BY CallEffect
  <2>5. \A l \in Calls : CallMoves(l) => call'[l] # call[l]
    BY DEF CallMoves
  <2> QED BY <2>1, <2>2, <2>3, <2>4, <2>5, TableFrame
<1>4. CASE Srv!Break \/ Srv!Close
  <2>1. UNCHANGED <<serverSubs, errch, call, notifier>> /\ (closing' = closing \/ closing' = "waiting")
    BY <1>4 DEF Srv!Break, Srv!Close
  <2> QED BY <2>1, TableFrame
<1> QED BY <1>3, <1>4, CreateTable, AddTable, UnsubscribeTable, CancelTable DEF Srv!Next, Srv!CallStep

LEMMA TableEnds == SrvInv => Srv!EverySubscriptionEnds
BY DEF SrvInv, TableInv, TableSound, ClosedEmpty, Srv!EverySubscriptionEnds


-----------------------------------------------------------------------------
(* The server's subscriptions: the connection.                             *)

(* What is written next follows what has been written.                     *)
LEMMA AppendFacts ==
  ASSUME WireTyped, NEW m \in Messages, wire' = Append(wire, m)
  PROVE  /\ WireTyped'
         /\ Len(wire') = Len(wire) + 1 /\ wire'[Len(wire) + 1] = m /\ Len(wire) \in Nat
         /\ \A j \in 1..Len(wire) : wire'[j] = wire[j]
         /\ DOMAIN wire = 1..Len(wire) /\ DOMAIN wire' = 1..(Len(wire) + 1)
<1>1. wire \in Seq(Messages)
  BY DEF WireTyped, Messages
<1>2. wire' \in Seq(Messages)
  BY <1>1
<1> QED BY <1>1, <1>2 DEF WireTyped, Messages

LEMMA AppendWritten ==
  ASSUME WireTyped, NEW m \in Messages, wire' = Append(wire, m)
  PROVE  \A x : Written(x)' <=> Written(x) \/ x = m
BY AppendFacts DEF Written

(* The order of the values is kept by a message that is no value, and by   *)
(* the next value of a subscription whose id is known.                     *)
LEMMA AppendInOrder ==
  ASSUME WireTyped, InOrder, NEW m \in Messages, wire' = Append(wire, m),
         \A k \in Calls, n \in 1..MaxNotify : m = Srv!Value(k, n) =>
           /\ Written(<<"id", k>>) /\ ~Written(Srv!Value(k, n))
           /\ \A p \in 1..(n - 1) : Written(Srv!Value(k, p))
  PROVE  InOrder'
<1>1. /\ wire'[Len(wire) + 1] = m /\ \A j \in 1..Len(wire) : wire'[j] = wire[j]
      /\ DOMAIN wire = 1..Len(wire) /\ DOMAIN wire' = 1..(Len(wire) + 1) /\ Len(wire) \in Nat
  BY AppendFacts
<1>2. \A x : \A j \in 1..Len(wire) : Srv!Before(x, j)' <=> Srv!Before(x, j)
  BY <1>1 DEF Srv!Before
<1> PICK next \in Nat : next = Len(wire) + 1
  BY <1>1
<1>3. \A x : Srv!Before(x, next)' <=> Written(x)
  BY <1>1 DEF Srv!Before, Written
<1> SUFFICES ASSUME NEW k \in Calls, NEW j \in DOMAIN wire', NEW n \in 1..MaxNotify, wire'[j] = Srv!Value(k, n)
             PROVE  /\ Srv!Before(<<"id", k>>, j)' /\ ~Srv!Before(Srv!Value(k, n), j)'
                    /\ \A p \in 1..(n - 1) : Srv!Before(Srv!Value(k, p), j)'
  BY DEF InOrder
<1>4. CASE j \in 1..Len(wire)
  BY <1>1, <1>2, <1>4 DEF InOrder
<1>5. CASE j = next
  BY <1>1, <1>3, <1>5
<1> QED BY <1>1, <1>4, <1>5


LEMMA OrderFrame == ASSUME WireTyped, InOrder, UNCHANGED wire PROVE WireTyped' /\ InOrder'
<1>1. WireTyped'
  BY DEF WireTyped
<1>2. InOrder'
  BY DEF InOrder, Srv!Before
<1> QED BY <1>1, <1>2

(* A step that neither writes nor buffers.                                 *)
LEMMA WireFrame ==
  ASSUME SrvInv, UNCHANGED <<wire, notified, flushed>>, broken' = broken \/ broken' = TRUE,
         \A k \in Calls : notifier'[k].buffer = notifier[k].buffer /\ notifier'[k].activated = notifier[k].activated,
         call' = call \/ \E k \in Calls : CallMoves(k)
  PROVE  (Buffered /\ WireTyped /\ WrittenValues /\ InOrder)'
<1>1. \A x : Written(x)' <=> Written(x)
  BY DEF Written
<1>2. WrittenValues'
  BY <1>1 DEF SrvInv, WireInv, WrittenValues
<1>3. InOrder'
  BY OrderFrame DEF SrvInv, WireInv
<1>4. \A k \in Calls : call[k] = "done" => call'[k] = "done"
  BY DEF CallMoves
<1>5. Buffered'
  BY <1>4 DEF SrvInv, WireInv, Buffered
<1> QED BY <1>2, <1>3, <1>5 DEF SrvInv, WireInv, WireTyped

(* The id of a subscription is written when its call returns, before       *)
(* anything is flushed or written directly.                                *)
LEMMA IdFrame ==
  ASSUME SrvInv, UNCHANGED flushed, broken' = broken \/ broken' = TRUE,
         \A x : Written(x) => Written(x)',
         \A k \in Calls : /\ notifier'[k].activated = notifier[k].activated
                          /\ notifier'[k].created = notifier[k].created,
         call' = call \/ \E k \in Calls : CallMoves(k) /\ call[k] # "returned"
  PROVE  IdFirst'
<1>1. \A k \in Calls : /\ call'[k] \in {"none", "running", "returned"} => call[k] \in {"none", "running", "returned"}
                       /\ call'[k] \in {"activating", "done"} => call[k] \in {"activating", "done"}
                       /\ call'[k] = "activating" => call[k] = "activating"
  BY DEF CallMoves
<1> SUFFICES ASSUME NEW k \in Calls
             PROVE  /\ call'[k] \in {"none", "running", "returned"} => flushed'[k] = 0 /\ ~notifier'[k].activated
                    /\ call'[k] = "activating" => notifier'[k].created
                    /\ notifier'[k].activated => notifier'[k].created
                    /\ ~broken' /\ notifier'[k].created /\ call'[k] \in {"activating", "done"} => Written(<<"id", k>>)'
  BY DEF IdFirst
<1>2. /\ notifier'[k].activated <=> notifier[k].activated
      /\ notifier'[k].created <=> notifier[k].created
      /\ ~broken' => ~broken
      /\ flushed'[k] = flushed[k]
  OBVIOUS
<1>3. /\ call[k] \in {"none", "running", "returned"} => flushed[k] = 0 /\ ~notifier[k].activated
      /\ call[k] = "activating" => notifier[k].created
      /\ notifier[k].activated => notifier[k].created
      /\ ~broken /\ notifier[k].created /\ call[k] \in {"activating", "done"} => Written(<<"id", k>>)
  BY DEF SrvInv, WireInv, IdFirst
<1> QED BY <1>1, <1>2, <1>3


LEMMA QuietWire ==
  ASSUME SrvInv, Srv!Next,
         \/ Srv!Break \/ Srv!Close \/ Srv!cancelServerSubscriptions
         \/ \E k \in Calls : Srv!startCallProc(k) \/ Srv!FlushFails(k) \/ Srv!unsubscribe(k) \/ Srv!addSubscriptions(k)
  PROVE  WireInv'
<1>1. UNCHANGED <<wire, notified, flushed>> /\ (broken' = broken \/ broken' = TRUE)
  BY DEF Srv!Break, Srv!Close, Srv!cancelServerSubscriptions, Srv!startCallProc, Srv!FlushFails, Srv!unsubscribe,
     Srv!addSubscriptions
<1>2. notifier' = notifier \/ \E k \in Calls : Srv!addSubscriptions(k)
  BY DEF Srv!Break, Srv!Close, Srv!cancelServerSubscriptions, Srv!startCallProc, Srv!FlushFails, Srv!unsubscribe
<1>3. \A k \in Calls : /\ notifier'[k].buffer = notifier[k].buffer
                       /\ notifier'[k].activated = notifier[k].activated
                       /\ notifier'[k].created = notifier[k].created
  BY <1>2, ReturnEffect DEF SrvInv, TableInv
<1>4. call' = call \/ \E k \in Calls : CallMoves(k)
  BY CallEffect
<1>5. \A k \in Calls : call[k] = "returned" => call'[k] = call[k]
  <2>1. call \in [Calls -> Srv!CallStates]
    BY DEF SrvInv, Srv!TypeOK
  <2> QED BY <2>1 DEF Srv!Break, Srv!Close, Srv!cancelServerSubscriptions, Srv!startCallProc, Srv!FlushFails,
          Srv!unsubscribe, Srv!addSubscriptions, Srv!Goto
<1>6. call' = call \/ \E k \in Calls : CallMoves(k) /\ call[k] # "returned"
  BY <1>4, <1>5 DEF CallMoves
<1>7. IdFirst'
  BY <1>1, <1>3, <1>6, IdFrame DEF Written
<1> QED BY <1>1, <1>3, <1>4, <1>7, WireFrame DEF WireInv

LEMMA CreateWire == ASSUME SrvInv, NEW k \in Calls, Srv!CreateSubscription(k) PROVE WireInv'
<1>1. call[k] = "running" /\ UNCHANGED <<call, wire, notified, flushed, broken>>
  BY DEF Srv!CreateSubscription
<1>2. /\ \A l \in Calls \ {k} : notifier'[l] = notifier[l]
      /\ notifier'[k].activated = notifier[k].activated /\ notifier'[k].buffer = notifier[k].buffer
  BY CreateEffect DEF SrvInv, TableInv
<1>3. ~notifier[k].activated /\ flushed[k] = 0
  BY <1>1 DEF SrvInv, WireInv, IdFirst
<1>4. IdFirst'
  <2>1. \A x : Written(x)' <=> Written(x)
    BY <1>1 DEF Written
  <2> SUFFICES ASSUME NEW l \in Calls
               PROVE  /\ call[l] \in {"none", "running", "returned"} => flushed[l] = 0 /\ ~notifier'[l].activated
                      /\ call[l] = "activating" => notifier'[l].created
                      /\ notifier'[l].activated => notifier'[l].created
                      /\ ~broken /\ notifier'[l].created /\ call[l] \in {"activating", "done"} => Written(<<"id", l>>)
    BY <1>1, <2>1 DEF IdFirst
  <2>2. CASE l = k
    BY <1>1, <1>2, <1>3, <2>2
  <2>3. CASE l # k
    BY <1>2, <2>3 DEF SrvInv, WireInv, IdFirst
  <2> QED BY <2>2, <2>3
<1> QED BY <1>1, <1>2, <1>4, WireFrame DEF WireInv

LEMMA AnswerWire == ASSUME SrvInv, Srv!Next, NEW k \in Calls, Srv!Answer(k) PROVE WireInv'
<1>1. /\ call[k] = "returned" /\ UNCHANGED <<notifier, notified, flushed, broken>>
      /\ \/ notifier[k].created /\ ~broken /\ call' = [call EXCEPT ![k] = "activating"]
            /\ wire' = Append(wire, <<"id", k>>)
         \/ notifier[k].created /\ broken /\ call' = [call EXCEPT ![k] = "activating"] /\ wire' = wire
         \/ ~notifier[k].created /\ call' = [call EXCEPT ![k] = "done"] /\ wire' = wire
  BY DEF Srv!Answer, Srv!Goto
<1>2. /\ flushed[k] = 0 /\ ~notifier[k].activated
      /\ \A l \in Calls \ {k} : call'[l] = call[l]
      /\ call'[k] = IF notifier[k].created THEN "activating" ELSE "done"
  BY <1>1 DEF SrvInv, Srv!TypeOK, WireInv, IdFirst
<1>3. call' = call \/ \E l \in Calls : CallMoves(l)
  BY CallEffect
<1>4. CASE wire' = wire
  <2>1. Buffered' /\ WireTyped' /\ WrittenValues' /\ InOrder'
    BY <1>1, <1>3, <1>4, WireFrame
  <2>2. IdFirst'
    <3>1. \A x : Written(x)' <=> Written(x)
      BY <1>4 DEF Written
    <3>2. notifier[k].created => broken
      BY <1>1, <1>4, AppendFacts, MessageFacts DEF SrvInv, WireInv
    <3> QED BY <1>1, <1>2, <3>1, <3>2 DEF SrvInv, WireInv, IdFirst
  <2> QED BY <2>1, <2>2 DEF WireInv
<1>5. CASE notifier[k].created /\ wire' = Append(wire, <<"id", k>>)
  <2>1. WireTyped /\ InOrder /\ <<"id", k>> \in Messages
        /\ \A l \in Calls, n \in 1..MaxNotify : <<"id", k>> # Srv!Value(l, n)
    BY MessageFacts DEF SrvInv, WireInv
  <2>2. WireTyped' /\ InOrder'
    BY <1>5, <2>1, AppendFacts, AppendInOrder
  <2>3. \A x : Written(x)' <=> Written(x) \/ x = <<"id", k>>
    BY <1>5, <2>1, AppendWritten
  <2>4. WrittenValues'
    BY <1>1, <2>1, <2>3 DEF SrvInv, WireInv, WrittenValues
  <2>5. IdFirst'
    BY <1>1, <1>2, <1>5, <2>3 DEF SrvInv, WireInv, IdFirst
  <2>6. Buffered'
    BY <1>1, <1>2 DEF SrvInv, WireInv, Buffered
  <2> QED BY <2>2, <2>4, <2>5, <2>6 DEF WireInv
<1> QED BY <1>1, <1>4, <1>5

LEMMA FlushWire == ASSUME SrvInv, NEW k \in Calls, Srv!Flush(k) PROVE WireInv'
<1>1. call[k] = "activating" /\ ~broken /\ UNCHANGED <<call, notifier, notified, broken>>
  BY DEF Srv!Flush
<1> PICK n \in 1..MaxNotify : n = flushed[k] + 1
  BY FlushNext
<1>2. /\ wire' = Append(wire, Srv!Value(k, n)) /\ flushed' = [flushed EXCEPT ![k] = n]
      /\ flushed[k] < Len(notifier[k].buffer) /\ ~notifier[k].activated /\ flushed[k] \in Nat
      /\ flushed \in [Calls -> 0..MaxNotify] /\ Len(notifier[k].buffer) \in Nat
  BY FlushNext, NotifierFields DEF SrvInv, TableInv, Srv!TypeOK
<1>3. flushed'[k] = n /\ \A l \in Calls \ {k} : flushed'[l] = flushed[l]
  BY <1>2
<1>4. notifier[k].created /\ Written(<<"id", k>>)
  BY <1>1 DEF SrvInv, WireInv, IdFirst
<1>5. Srv!Value(k, n) \in Messages /\ WireTyped /\ InOrder
  BY MessageFacts DEF SrvInv, WireInv
<1>6. \A x : Written(x)' <=> Written(x) \/ x = Srv!Value(k, n)
  BY <1>2, <1>5, AppendWritten
<1>7. \A m \in 1..MaxNotify : Written(Srv!Value(k, m)) <=> m <= flushed[k]
  BY <1>1, <1>2 DEF SrvInv, WireInv, WrittenValues
<1>8. WireTyped' /\ InOrder'
  <2>1. \A l \in Calls, m \in 1..MaxNotify : Srv!Value(k, n) = Srv!Value(l, m) =>
          /\ Written(<<"id", l>>) /\ ~Written(Srv!Value(l, m))
          /\ \A p \in 1..(m - 1) : Written(Srv!Value(l, p))
    <3>1. /\ ~Written(Srv!Value(k, n)) /\ \A p \in 1..(n - 1) : Written(Srv!Value(k, p))
      <4>1. n \in Nat /\ ~(n <= flushed[k])
        BY <1>2
      <4>2. \A p \in 1..(n - 1) : p \in 1..MaxNotify /\ p <= flushed[k]
        BY <1>2, BoundsAssumption
      <4> QED BY <1>7, <4>1, <4>2
    <3>2. \A l \in Calls, m \in 1..MaxNotify : Srv!Value(k, n) = Srv!Value(l, m) => l = k /\ m = n
      BY MessageFacts
    <3> QED BY <1>4, <3>1, <3>2
  <2> QED BY <1>2, <1>5, <2>1, AppendFacts, AppendInOrder
<1>9. WrittenValues'
  <2> SUFFICES ASSUME NEW l \in Calls, NEW m \in 1..MaxNotify
               PROVE  Written(Srv!Value(l, m))' <=> m <= (IF notifier[l].activated THEN notified[l] ELSE flushed'[l])
    BY <1>1 DEF WrittenValues
  <2>1. CASE l = k
    <3>1. Srv!Value(l, m) = Srv!Value(k, n) <=> m = n
      BY <2>1, MessageFacts
    <3> QED BY <1>2, <1>3, <1>6, <1>7, <2>1, <3>1
  <2>2. CASE l # k
    <3>1. Srv!Value(l, m) # Srv!Value(k, n)
      BY <2>2, MessageFacts
    <3>2. Written(Srv!Value(l, m)) <=> m <= (IF notifier[l].activated THEN notified[l] ELSE flushed[l])
      BY <1>1 DEF SrvInv, WireInv, WrittenValues
    <3> QED BY <1>3, <1>6, <2>2, <3>1, <3>2
  <2> QED BY <2>1, <2>2
<1>10. IdFirst'
  BY <1>1, <1>3, <1>6 DEF SrvInv, WireInv, IdFirst
<1>11. Buffered'
  <2>1. Len(notifier[k].buffer) = notified[k]
    BY <1>2 DEF SrvInv, WireInv, Buffered
  <2> QED BY <1>1, <1>2, <1>3, <2>1 DEF SrvInv, WireInv, Buffered
<1> QED BY <1>8, <1>9, <1>10, <1>11 DEF WireInv

LEMMA ActivatedWire == ASSUME SrvInv, NEW k \in Calls, Srv!Activated(k) PROVE WireInv'
<1>1. /\ call[k] = "activating" /\ call' = [call EXCEPT ![k] = "done"] /\ flushed[k] = Len(notifier[k].buffer)
      /\ UNCHANGED <<notified, flushed, wire, broken>>
  BY DEF Srv!Activated, Srv!Goto
<1>2. /\ \A l \in Calls \ {k} : notifier'[l] = notifier[l] /\ call'[l] = call[l]
      /\ notifier'[k].activated = TRUE /\ notifier'[k].buffer = notifier[k].buffer
      /\ notifier'[k].created = notifier[k].created /\ call'[k] = "done"
  BY <1>1, ActivateEffect DEF SrvInv, TableInv, Srv!TypeOK
<1>3. notifier[k].created /\ ~notifier[k].activated /\ flushed[k] = notified[k]
  BY <1>1 DEF SrvInv, WireInv, IdFirst, Buffered
<1>4. \A x : Written(x)' <=> Written(x)
  BY <1>1 DEF Written
<1>5. Buffered'
  <2> SUFFICES ASSUME NEW l \in Calls
               PROVE  /\ \A j \in 1..Len(notifier'[l].buffer) : notifier'[l].buffer[j] = j
                      /\ flushed[l] <= Len(notifier'[l].buffer)
                      /\ notifier'[l].activated => flushed[l] = Len(notifier'[l].buffer) /\ call'[l] = "done"
                      /\ ~notifier'[l].activated => Len(notifier'[l].buffer) = notified[l]
                      /\ flushed[l] <= notified[l]
    BY <1>1 DEF Buffered
  <2>1. CASE l = k
    BY <1>1, <1>2, <2>1 DEF SrvInv, WireInv, Buffered
  <2>2. CASE l # k
    BY <1>2, <2>2 DEF SrvInv, WireInv, Buffered
  <2> QED BY <2>1, <2>2
<1>6. IdFirst'
  <2> SUFFICES ASSUME NEW l \in Calls
               PROVE  /\ call'[l] \in {"none", "running", "returned"} => flushed[l] = 0 /\ ~notifier'[l].activated
                      /\ call'[l] = "activating" => notifier'[l].created
                      /\ notifier'[l].activated => notifier'[l].created
                      /\ ~broken /\ notifier'[l].created /\ call'[l] \in {"activating", "done"} => Written(<<"id", l>>)
    BY <1>1, <1>4 DEF IdFirst
  <2>1. CASE l = k
    BY <1>1, <1>2, <1>3, <2>1 DEF SrvInv, WireInv, IdFirst
  <2>2. CASE l # k
    BY <1>2, <2>2 DEF SrvInv, WireInv, IdFirst
  <2> QED BY <2>1, <2>2
<1>7. WrittenValues'
  <2> SUFFICES ASSUME ~broken, NEW l \in Calls, NEW n \in 1..MaxNotify
               PROVE  Written(Srv!Value(l, n)) <=> n <= (IF notifier'[l].activated THEN notified[l] ELSE flushed[l])
    BY <1>1, <1>4 DEF WrittenValues
  <2>1. Written(Srv!Value(l, n)) <=> n <= (IF notifier[l].activated THEN notified[l] ELSE flushed[l])
    BY DEF SrvInv, WireInv, WrittenValues
  <2>2. CASE l = k
    BY <1>2, <1>3, <2>1, <2>2
  <2>3. CASE l # k
    BY <1>2, <2>1, <2>3
  <2> QED BY <2>2, <2>3
<1>8. WireTyped' /\ InOrder'
  <2>1. WireTyped /\ InOrder /\ wire' = wire
    BY <1>1 DEF SrvInv, WireInv
  <2> QED BY <2>1, OrderFrame
<1> QED BY <1>5, <1>6, <1>7, <1>8 DEF WireInv


(* The service's notification: written if the subscription is active,      *)
(* buffered behind the others if it is not.                                *)
LEMMA NotifyWire == ASSUME SrvInv, NEW k \in Calls, Srv!Notify(k) PROVE WireInv'
<1>1. UNCHANGED <<call, flushed, broken>> /\ ~Srv!Locked(k)
  BY DEF Srv!Notify
<1> PICK n \in 1..MaxNotify : n = notified[k] + 1
  BY NotifyNext
<1>2. notified'[k] = n /\ \A l \in Calls \ {k} : notified'[l] = notified[l]
  BY NotifyNext DEF SrvInv, Srv!TypeOK
<1>3. /\ notified[k] \in Nat /\ flushed[k] \in Nat /\ n = notified[k] + 1
      /\ notifier[k].activated \in BOOLEAN /\ notifier[k].buffer \in Seq(1..MaxNotify)
      /\ Len(notifier[k].buffer) \in Nat
  BY NotifyNext, NotifierFields, BoundsAssumption DEF SrvInv, TableInv, Srv!TypeOK
<1>4. \/ notifier[k].activated /\ ~broken /\ wire' = Append(wire, Srv!Value(k, n)) /\ notifier' = notifier
      \/ notifier[k].activated /\ broken /\ wire' = wire /\ notifier' = notifier
      \/ ~notifier[k].activated /\ wire' = wire /\ notifier' = [notifier EXCEPT ![k].buffer = Append(@, n)]
  BY <1>2 DEF Srv!Notify
<1>5. \A l \in Calls : flushed[l] <= notified[l] /\ flushed[l] <= Len(notifier[l].buffer)
  BY DEF SrvInv, WireInv, Buffered
<1>6. CASE notifier[k].activated
  <2>1. notifier' = notifier /\ notifier[k].created /\ call[k] = "done"
    BY <1>3, <1>4, <1>6 DEF SrvInv, WireInv, IdFirst, Buffered
  <2>2. Buffered'
    <3> SUFFICES ASSUME NEW l \in Calls
                 PROVE  /\ ~notifier[l].activated => Len(notifier[l].buffer) = notified'[l]
                        /\ flushed[l] <= notified'[l]
      BY <1>1, <2>1 DEF SrvInv, WireInv, Buffered
    <3>1. CASE l = k
      BY <1>2, <1>3, <1>5, <1>6, <3>1
    <3>2. CASE l # k
      BY <1>2, <3>2 DEF SrvInv, WireInv, Buffered
    <3> QED BY <3>1, <3>2
  <2>3. CASE broken
    <3>1. wire' = wire
      BY <1>4, <1>6, <2>3
    <3>2. \A x : Written(x)' <=> Written(x)
      BY <3>1 DEF Written
    <3>3. WrittenValues'
      BY <1>1, <2>3 DEF WrittenValues
    <3>4. IdFirst'
      BY <1>1, <2>1, <3>2 DEF SrvInv, WireInv, IdFirst
    <3>5. WireTyped' /\ InOrder'
      BY <3>1, OrderFrame DEF SrvInv, WireInv
    <3> QED BY <2>2, <3>3, <3>4, <3>5 DEF WireInv
  <2>4. CASE ~broken
    <3>1. wire' = Append(wire, Srv!Value(k, n))
      BY <1>4, <1>6, <2>4
    <3>2. Srv!Value(k, n) \in Messages /\ WireTyped /\ InOrder
      BY MessageFacts DEF SrvInv, WireInv
    <3>3. \A x : Written(x)' <=> Written(x) \/ x = Srv!Value(k, n)
      BY <3>1, <3>2, AppendWritten
    <3>4. \A m \in 1..MaxNotify : Written(Srv!Value(k, m)) <=> m <= notified[k]
      BY <1>6, <2>4 DEF SrvInv, WireInv, WrittenValues
    <3>5. Written(<<"id", k>>)
      BY <2>1, <2>4 DEF SrvInv, WireInv, IdFirst
    <3>6. WireTyped' /\ InOrder'
      <4>1. ~Written(Srv!Value(k, n)) /\ \A p \in 1..(n - 1) : Written(Srv!Value(k, p))
        <5>1. n \in Nat /\ ~(n <= notified[k])
          BY <1>3
        <5>2. \A p \in 1..(n - 1) : p \in 1..MaxNotify /\ p <= notified[k]
          BY <1>3, BoundsAssumption
        <5> QED BY <3>4, <5>1, <5>2
      <4>2. \A l \in Calls, m \in 1..MaxNotify : Srv!Value(k, n) = Srv!Value(l, m) => l = k /\ m = n
        BY MessageFacts
      <4>3. \A l \in Calls, m \in 1..MaxNotify : Srv!Value(k, n) = Srv!Value(l, m) =>
              /\ Written(<<"id", l>>) /\ ~Written(Srv!Value(l, m))
              /\ \A p \in 1..(m - 1) : Written(Srv!Value(l, p))
        BY <3>5, <4>1, <4>2
      <4> QED BY <3>1, <3>2, <4>3, AppendFacts, AppendInOrder
    <3>7. WrittenValues'
      <4> SUFFICES ASSUME NEW l \in Calls, NEW m \in 1..MaxNotify
                   PROVE  Written(Srv!Value(l, m))' <=> m <= (IF notifier[l].activated THEN notified'[l] ELSE flushed[l])
        BY <1>1, <2>1 DEF WrittenValues
      <4>1. CASE l = k
        <5>1. Srv!Value(l, m) = Srv!Value(k, n) <=> m = n
          BY <4>1, MessageFacts
        <5> QED BY <1>2, <1>3, <1>6, <3>3, <3>4, <4>1, <5>1
      <4>2. CASE l # k
        <5>1. Srv!Value(l, m) # Srv!Value(k, n)
          BY <4>2, MessageFacts
        <5>2. Written(Srv!Value(l, m)) <=> m <= (IF notifier[l].activated THEN notified[l] ELSE flushed[l])
          BY <2>4 DEF SrvInv, WireInv, WrittenValues
        <5> QED BY <1>2, <3>3, <4>2, <5>1, <5>2
      <4> QED BY <4>1, <4>2
    <3>8. IdFirst'
      BY <1>1, <2>1, <3>3 DEF SrvInv, WireInv, IdFirst
    <3> QED BY <2>2, <3>6, <3>7, <3>8 DEF WireInv
  <2> QED BY <2>3, <2>4
<1>7. CASE ~notifier[k].activated
  <2>1. wire' = wire /\ notifier' = [notifier EXCEPT ![k].buffer = Append(@, n)]
    BY <1>3, <1>4, <1>7
  <2>2. /\ \A l \in Calls \ {k} : notifier'[l] = notifier[l]
        /\ notifier'[k].activated = notifier[k].activated
        /\ notifier'[k].buffer = Append(notifier[k].buffer, n)
        /\ notifier'[k].created = notifier[k].created
    BY <2>1, BufferEffect DEF SrvInv, TableInv
  <2>3. \A x : Written(x)' <=> Written(x)
    BY <2>1 DEF Written
  <2>4. Len(notifier[k].buffer) = notified[k]
    BY <1>7 DEF SrvInv, WireInv, Buffered
  <2>5. /\ Len(notifier'[k].buffer) = n /\ notifier'[k].buffer[n] = n
        /\ \A j \in 1..notified[k] : notifier'[k].buffer[j] = notifier[k].buffer[j]
    BY <1>3, <2>2, <2>4
  <2>6. Buffered'
    <3> SUFFICES ASSUME NEW l \in Calls
                 PROVE  /\ \A j \in 1..Len(notifier'[l].buffer) : notifier'[l].buffer[j] = j
                        /\ flushed[l] <= Len(notifier'[l].buffer)
                        /\ notifier'[l].activated => flushed[l] = Len(notifier'[l].buffer) /\ call[l] = "done"
                        /\ ~notifier'[l].activated => Len(notifier'[l].buffer) = notified'[l]
                        /\ flushed[l] <= notified'[l]
      BY <1>1 DEF Buffered
    <3>1. CASE l = k
      <4>1. \A j \in 1..notified[k] : notifier[k].buffer[j] = j
        BY <2>4 DEF SrvInv, WireInv, Buffered
      <4>2. Len(notifier'[k].buffer) = n /\ \A j \in 1..n : notifier'[k].buffer[j] = j
        BY <1>3, <2>5, <4>1
      <4>3. notified'[k] = n /\ ~notifier'[k].activated /\ flushed[k] <= notified[k]
        BY <1>2, <1>5, <1>7, <2>2
      <4>4. flushed[k] <= n
        BY <1>3, <4>3
      <4> QED BY <3>1, <4>2, <4>3, <4>4
    <3>2. CASE l # k
      BY <1>2, <2>2, <3>2 DEF SrvInv, WireInv, Buffered
    <3> QED BY <3>1, <3>2
  <2>7. IdFirst'
    <3> SUFFICES ASSUME NEW l \in Calls
                 PROVE  /\ call[l] \in {"none", "running", "returned"} => flushed[l] = 0 /\ ~notifier'[l].activated
                        /\ call[l] = "activating" => notifier'[l].created
                        /\ notifier'[l].activated => notifier'[l].created
                        /\ ~broken /\ notifier'[l].created /\ call[l] \in {"activating", "done"} => Written(<<"id", l>>)
      BY <1>1, <2>3 DEF IdFirst
    <3>1. CASE l = k
      BY <1>7, <2>2, <3>1 DEF SrvInv, WireInv, IdFirst
    <3>2. CASE l # k
      BY <2>2, <3>2 DEF SrvInv, WireInv, IdFirst
    <3> QED BY <3>1, <3>2
  <2>8. WrittenValues'
    <3> SUFFICES ASSUME ~broken, NEW l \in Calls, NEW m \in 1..MaxNotify
                 PROVE  Written(Srv!Value(l, m)) <=> m <= (IF notifier'[l].activated THEN notified'[l] ELSE flushed[l])
      BY <1>1, <2>3 DEF WrittenValues
    <3>1. Written(Srv!Value(l, m)) <=> m <= (IF notifier[l].activated THEN notified[l] ELSE flushed[l])
      BY DEF SrvInv, WireInv, WrittenValues
    <3>2. CASE l = k
      BY <1>7, <2>2, <3>1, <3>2
    <3>3. CASE l # k
      BY <1>2, <2>2, <3>1, <3>3
    <3> QED BY <3>2, <3>3
  <2>9. WireTyped' /\ InOrder'
    BY <2>1, OrderFrame DEF SrvInv, WireInv
  <2> QED BY <2>6, <2>7, <2>8, <2>9 DEF WireInv
<1> QED BY <1>6, <1>7

LEMMA WireStep == ASSUME SrvInv, Srv!Next PROVE WireInv'
BY QuietWire, CreateWire, AnswerWire, FlushWire, ActivatedWire, NotifyWire DEF Srv!Next, Srv!CallStep

LEMMA WireFollows == SrvInv => Srv!NotificationsFollowId
<1> SUFFICES ASSUME SrvInv PROVE Srv!NotificationsFollowId
  OBVIOUS
<1>1. InOrder
  BY DEF SrvInv, WireInv
<1>2. ASSUME NEW k \in Calls, ~broken, notifier[k].activated, NEW n \in 1..notified[k]
      PROVE  Written(Srv!Value(k, n))
  <2>1. n \in 1..MaxNotify /\ n <= notified[k]
    BY BoundsAssumption DEF SrvInv, Srv!TypeOK
  <2> QED BY <1>2, <2>1 DEF SrvInv, WireInv, WrittenValues
<1> QED BY <1>1, <1>2 DEF InOrder, Written, Srv!NotificationsFollowId

LEMMA SrvStep == SrvInv /\ [Srv!Next]_srvVars => SrvInv'
<1> SUFFICES ASSUME SrvInv, [Srv!Next]_srvVars PROVE SrvInv'
  OBVIOUS
<1>1. CASE Srv!Next
  BY <1>1, SrvTypes, TableStep, WireStep DEF SrvInv, TableInv
<1>2. CASE UNCHANGED srvVars
  <2>1. UNCHANGED <<call, notifier, notified, flushed, wire, broken, serverSubs, errch, closing>>
    BY <1>2 DEF srvVars
  <2>2. (Srv!TypeOK /\ NotifierTyped /\ ErrTyped)'
    BY <2>1 DEF SrvInv, TableInv, Srv!TypeOK, NotifierTyped, ErrTyped
  <2>3. (TableSound /\ ClosedEmpty)'
    BY <2>1, TableFrame
  <2>4. (Buffered /\ WireTyped /\ WrittenValues /\ InOrder)'
    BY <2>1, WireFrame
  <2>5. IdFirst'
    BY <2>1, IdFrame DEF Written
  <2> QED BY <2>2, <2>3, <2>4, <2>5 DEF SrvInv, TableInv, WireInv
<1> QED BY <1>1, <1>2

LEMMA SrvSound == SrvInv => ServerSubsSound
BY TableEnds, WireFollows DEF ServerSubsSound

-----------------------------------------------------------------------------
(* rpc.Server.                                                             *)

(* The codecs of the server are those that are being served: what Stop     *)
(* closes is all that it has to close; and what is late is after Stop.     *)
Tracked == \A c \in Codecs : codecState[c] = "served" => c \in codecs
Late == afterStop # {} => ~serving

StpInv == Stp!TypeOK /\ Tracked /\ Late /\ Stp!StoppedServesNone

(* Every variable keeps its type, and so does the step of each operation.  *)
LEMMA StpTypes == ASSUME Stp!TypeOK, [Stp!Next]_stpVars PROVE Stp!TypeOK'
<1>1. ASSUME NEW c \in Codecs, Stp!trackCodec(c) PROVE Stp!TypeOK'
  BY <1>1 DEF Stp!TypeOK, Stp!trackCodec
<1>2. ASSUME NEW c \in Codecs, Stp!untrackCodec(c) PROVE Stp!TypeOK'
  BY <1>2 DEF Stp!TypeOK, Stp!untrackCodec
<1>3. ASSUME NEW r \in Requests, Stp!serveSingleRequest(r) PROVE Stp!TypeOK'
  <2>1. UNCHANGED <<serving, codecs, codecState, codecOpen>>
    BY <1>3 DEF Stp!serveSingleRequest
  <2>2. request' \in [Requests -> Stp!RequestStates]
    BY <1>3 DEF Stp!TypeOK, Stp!RequestStates, Stp!serveSingleRequest, Stp!CallSingle, Stp!LetIn, Stp!ReadSingle,
       Stp!HandleSingle, Stp!Go
  <2>3. afterStop' \subseteq afterStop \cup {<<r, "called">>, <<r, "read">>}
    BY <1>3 DEF Stp!serveSingleRequest, Stp!CallSingle, Stp!LetIn, Stp!ReadSingle, Stp!HandleSingle, Stp!Note
  <2> QED BY <2>1, <2>2, <2>3 DEF Stp!TypeOK
<1>4. CASE Stp!Stop
  BY <1>4 DEF Stp!TypeOK, Stp!Stop
<1>5. CASE UNCHANGED stpVars
  BY <1>5 DEF Stp!TypeOK, stpVars
<1> QED BY <1>1, <1>2, <1>3, <1>4, <1>5 DEF Stp!Next

(* A connection is served only while it is tracked (trackCodec and         *)
(* untrackCodec under s.mutex).                                            *)
LEMMA TrackedStep == ASSUME Stp!TypeOK, Tracked, [Stp!Next]_stpVars PROVE Tracked'
<1>1. ASSUME NEW c \in Codecs, Stp!trackCodec(c) PROVE Tracked'
  BY <1>1 DEF Stp!TypeOK, Tracked, Stp!trackCodec
<1>2. ASSUME NEW c \in Codecs, Stp!untrackCodec(c) PROVE Tracked'
  BY <1>2 DEF Stp!TypeOK, Tracked, Stp!untrackCodec
<1>3. ASSUME NEW r \in Requests, Stp!serveSingleRequest(r) PROVE Tracked'
  BY <1>3 DEF Tracked, Stp!serveSingleRequest
<1>4. CASE Stp!Stop
  BY <1>4 DEF Tracked, Stp!Stop
<1>5. CASE UNCHANGED stpVars
  BY <1>5 DEF Tracked, stpVars
<1> QED BY <1>1, <1>2, <1>3, <1>4, <1>5 DEF Stp!Next

(* Stop closes what is served, and afterwards trackCodec refuses.          *)
LEMMA StoppedStep == ASSUME StpInv, [Stp!Next]_stpVars PROVE Stp!StoppedServesNone'
<1> USE DEF StpInv
<1>1. ASSUME NEW c \in Codecs, Stp!trackCodec(c) PROVE Stp!StoppedServesNone'
  BY <1>1 DEF Stp!TypeOK, Stp!StoppedServesNone, Stp!trackCodec
<1>2. ASSUME NEW c \in Codecs, Stp!untrackCodec(c) PROVE Stp!StoppedServesNone'
  BY <1>2 DEF Stp!TypeOK, Stp!StoppedServesNone, Stp!untrackCodec
<1>3. ASSUME NEW r \in Requests, Stp!serveSingleRequest(r) PROVE Stp!StoppedServesNone'
  <2>1. \A q \in Requests : <<q, "called">> \in afterStop => request[q] \in {"called", "refused"} /\ ~serving
    BY DEF Stp!StoppedServesNone, Late
  <2>2. UNCHANGED <<serving, codecs, codecState, codecOpen>> /\ request \in [Requests -> Stp!RequestStates]
    BY <1>3 DEF Stp!serveSingleRequest, Stp!TypeOK
  <2>3. ASSUME Stp!CallSingle(r) PROVE Stp!StoppedServesNone'
    BY <2>1, <2>2, <2>3 DEF Stp!StoppedServesNone, Stp!CallSingle, Stp!Go, Stp!Note
  <2>4. ASSUME Stp!LetIn(r) PROVE Stp!StoppedServesNone'
    BY <2>1, <2>2, <2>4 DEF Stp!StoppedServesNone, Stp!LetIn, Stp!Go
  <2>5. ASSUME Stp!ReadSingle(r) PROVE Stp!StoppedServesNone'
    BY <2>1, <2>2, <2>5 DEF Stp!StoppedServesNone, Stp!ReadSingle, Stp!Go, Stp!Note
  <2>6. ASSUME Stp!HandleSingle(r) PROVE Stp!StoppedServesNone'
    BY <2>1, <2>2, <2>6 DEF Stp!StoppedServesNone, Stp!HandleSingle, Stp!Go
  <2> QED BY <1>3, <2>3, <2>4, <2>5, <2>6 DEF Stp!serveSingleRequest
<1>4. CASE Stp!Stop
  BY <1>4 DEF Tracked, Stp!StoppedServesNone, Stp!Stop
<1>5. CASE UNCHANGED stpVars
  BY <1>5 DEF Stp!StoppedServesNone, stpVars
<1> QED BY <1>1, <1>2, <1>3, <1>4, <1>5 DEF Stp!Next

LEMMA StpInit == Stp!Init => StpInv
BY DEF Stp!Init, StpInv, Stp!TypeOK, Tracked, Late, Stp!StoppedServesNone, Stp!RequestStates

(* The server does not start again.                                        *)
LEMMA LateStep == ASSUME Late, [Stp!Next]_stpVars PROVE Late'
BY DEF Late, Stp!Next, stpVars, Stp!trackCodec, Stp!untrackCodec, Stp!Stop, Stp!serveSingleRequest, Stp!CallSingle,
   Stp!LetIn, Stp!ReadSingle, Stp!HandleSingle, Stp!Note

LEMMA StpStep == StpInv /\ [Stp!Next]_stpVars => StpInv'
BY StpTypes, TrackedStep, LateStep, StoppedStep DEF StpInv

-----------------------------------------------------------------------------
(* Batch.  Answerable is computed by a recursive function; that it exists  *)
(* and what it computes is shown by induction over a set of numbers, which *)
(* holds because < is well-founded.                                        *)

(* A set that contains 0 and, with a number, the next one, has them all.   *)
LEMMA NatSetInduction ==
  ASSUME NEW T, 0 \in T, \A n \in Nat : n \in T => n + 1 \in T
  PROVE  \A n \in Nat : n \in T
<1> SUFFICES ASSUME NEW n \in Nat, n \notin T PROVE FALSE
  OBVIOUS
<1> DEFINE R == OpToRel(<, Nat)
           U == {m \in Nat : m \notin T}
<1>1. PICK x \in U : \A y \in U : <<y, x>> \notin R
  <2>1. IsWellFoundedOn(R, Nat)
    BY NatLessThanWellFounded
  <2>2. U \subseteq Nat /\ U # {}
    OBVIOUS
  <2> HIDE DEF R, U
  <2> QED BY <2>1, <2>2, WFMin
<1>2. x # 0 /\ x - 1 \in Nat /\ x - 1 \in U
  OBVIOUS
<1>3. <<x - 1, x>> \in R
  BY <1>2 DEF OpToRel
<1> QED BY <1>1, <1>2, <1>3

(* The table by which Answerable(q) is computed, up to n.                  *)
IsTable(q, n, f) ==
  f = [i \in 0..n |-> IF i = 0 THEN <<>>
                      ELSE IF q[i] \in Notifications THEN f[i - 1]
                      ELSE Append(f[i - 1], q[i])]
Table(q) == CHOOSE f : IsTable(q, Len(q), f)

LEMMA TableExists == ASSUME NEW q PROVE \A n \in Nat : \E f : IsTable(q, n, f)
<1> DEFINE T == {n \in Nat : \E f : IsTable(q, n, f)}
<1>1. 0 \in T
  <2>1. IsTable(q, 0, [i \in 0..0 |-> <<>>])
    BY DEF IsTable
  <2> QED BY <2>1
<1>2. ASSUME NEW n \in Nat, n \in T PROVE n + 1 \in T
  <2>1. PICK f : IsTable(q, n, f)
    BY <1>2
  <2> DEFINE next == IF q[n + 1] \in Notifications THEN f[n] ELSE Append(f[n], q[n + 1])
             g == [i \in 0..(n + 1) |-> IF i = n + 1 THEN next ELSE f[i]]
             Here(h, i) == IF i = 0 THEN <<>>
                           ELSE IF q[i] \in Notifications THEN h[i - 1]
                           ELSE Append(h[i - 1], q[i])
  <2>2. \A i \in 0..n : f[i] = Here(f, i)
    BY <2>1 DEF IsTable
  <2>3. \A i \in 0..n : g[i] = f[i]
    OBVIOUS
  <2>4. g[n + 1] = Here(g, n + 1)
    OBVIOUS
  <2>5. ASSUME NEW i \in 0..n PROVE g[i] = Here(g, i)
    <3>1. i # 0 => i - 1 \in 0..n
      OBVIOUS
    <3> QED BY <2>2, <2>3, <3>1
  <2>6. \A i \in 0..(n + 1) : g[i] = Here(g, i)
    <3>1. \A i \in 0..(n + 1) : i = n + 1 \/ i \in 0..n
      OBVIOUS
    <3> QED BY <2>4, <2>5, <3>1, Zenon
  <2>8. g = [i \in 0..(n + 1) |-> Here(g, i)]
    <3>1. g = [i \in 0..(n + 1) |-> g[i]]
      OBVIOUS
    <3> QED BY <2>6, <3>1, Zenon
  <2>7. IsTable(q, n + 1, g)
    BY <2>8, Zenon DEF IsTable
  <2> QED BY <2>7
<1> HIDE DEF T
<1>3. \A n \in Nat : n \in T
  BY <1>1, <1>2, NatSetInduction
<1> QED BY <1>3 DEF T

LEMMA TableSteps ==
  ASSUME NEW q, NEW n \in Nat, NEW f, IsTable(q, n, f)
  PROVE  /\ f[0] = <<>>
         /\ \A i \in 1..n : f[i] = IF q[i] \in Notifications THEN f[i - 1] ELSE Append(f[i - 1], q[i])
<1>1. 0 \in 0..n /\ \A i \in 1..n : i \in 0..n /\ i # 0
  OBVIOUS
<1>2. \A i \in 0..n : f[i] = IF i = 0 THEN <<>>
                             ELSE IF q[i] \in Notifications THEN f[i - 1]
                             ELSE Append(f[i - 1], q[i])
  BY Zenon DEF IsTable
<1> QED BY <1>1, <1>2, Zenon

(* What the table that Answerable chooses looks like.                      *)
LEMMA TableFacts ==
  ASSUME NEW q, Len(q) \in Nat
  PROVE  /\ Bat!Answerable(q) = Table(q)[Len(q)]
         /\ Table(q)[0] = <<>>
         /\ \A i \in 1..Len(q) :
              Table(q)[i] = IF q[i] \in Notifications THEN Table(q)[i - 1] ELSE Append(Table(q)[i - 1], q[i])
<1>1. IsTable(q, Len(q), Table(q))
  BY TableExists, Zenon DEF Table
<1>2. Bat!Answerable(q) = Table(q)[Len(q)]
  BY Zenon DEF Bat!Answerable, Table, IsTable
<1> QED BY <1>1, <1>2, TableSteps, Zenon

(* The calls of a batch that has two parts are those of the parts.         *)
LEMMA AnswerableConcat ==
  ASSUME NEW S, NEW q \in Seq(S), NEW r \in Seq(S)
  PROVE  /\ Bat!Answerable(q) \in Seq(S)
         /\ Bat!Answerable(q \o r) = Bat!Answerable(q) \o Bat!Answerable(r)
<1>0. ASSUME NEW s \in Seq(S), NEW t \in Seq(S), NEW e \in S
      PROVE  Append(s \o t, e) = s \o Append(t, e)
  <2> DEFINE u == Append(s \o t, e)
             v == s \o Append(t, e)
  <2>1. u \in Seq(S) /\ v \in Seq(S) /\ Len(u) = Len(v)
    OBVIOUS
  <2>2. \A i \in 1..Len(u) : u[i] = v[i]
    OBVIOUS
  <2> HIDE DEF u, v
  <2>3. u = v
    BY <2>1, <2>2, SeqEqual
  <2> QED BY <2>3 DEF u, v
<1> DEFINE A == Table(q)
           B == Table(r)
           C == Table(q \o r)
<1>1. /\ q \o r \in Seq(S) /\ Len(q \o r) = Len(q) + Len(r) /\ Len(q) \in Nat /\ Len(r) \in Nat
      /\ \A i \in 1..Len(q) : (q \o r)[i] = q[i] /\ q[i] \in S
      /\ \A i \in 1..Len(r) : (q \o r)[Len(q) + i] = r[i] /\ r[i] \in S
  BY ConcatProperties, LenProperties
<1>2. /\ Bat!Answerable(q) = A[Len(q)] /\ A[0] = <<>>
      /\ \A i \in 1..Len(q) : A[i] = IF q[i] \in Notifications THEN A[i - 1] ELSE Append(A[i - 1], q[i])
  BY <1>1, TableFacts, Zenon
<1>3. /\ Bat!Answerable(r) = B[Len(r)] /\ B[0] = <<>>
      /\ \A i \in 1..Len(r) : B[i] = IF r[i] \in Notifications THEN B[i - 1] ELSE Append(B[i - 1], r[i])
  BY <1>1, TableFacts, Zenon
<1>4. /\ Bat!Answerable(q \o r) = C[Len(q) + Len(r)] /\ C[0] = <<>>
      /\ \A i \in 1..(Len(q) + Len(r)) :
           C[i] = IF (q \o r)[i] \in Notifications THEN C[i - 1] ELSE Append(C[i - 1], (q \o r)[i])
  <2>1. Len(q \o r) \in Nat
    BY <1>1
  <2> QED BY <1>1, <2>1, TableFacts, Zenon
<1> HIDE DEF A, B, C
<1>5. \A i \in Nat : i <= Len(q) => A[i] \in Seq(S) /\ C[i] = A[i]
  <2> DEFINE T == {i \in Nat : i <= Len(q) => A[i] \in Seq(S) /\ C[i] = A[i]}
  <2>1. 0 \in T
    <3>1. <<>> \in Seq(S)
      OBVIOUS
    <3> QED BY <1>2, <1>4, <3>1, Zenon
  <2>2. ASSUME NEW i \in Nat, i \in T PROVE i + 1 \in T
    <3> SUFFICES ASSUME i + 1 <= Len(q) PROVE A[i + 1] \in Seq(S) /\ C[i + 1] = A[i + 1]
      OBVIOUS
    <3>1. i + 1 \in 1..Len(q) /\ i + 1 \in 1..(Len(q) + Len(r)) /\ (i + 1) - 1 = i
      BY <1>1
    <3>2. A[i] \in Seq(S) /\ C[i] = A[i] /\ q[i + 1] \in S /\ (q \o r)[i + 1] = q[i + 1]
      BY <1>1, <2>2, <3>1
    <3>3. A[i + 1] = IF q[i + 1] \in Notifications THEN A[i] ELSE Append(A[i], q[i + 1])
      BY <1>2, <3>1, Zenon
    <3>4. C[i + 1] = A[i + 1]
      BY <1>4, <3>1, <3>2, <3>3, Zenon
    <3>5. A[i + 1] \in Seq(S)
      BY <3>2, <3>3
    <3> QED BY <3>4, <3>5
  <2> HIDE DEF T
  <2>3. \A i \in Nat : i \in T
    BY <2>1, <2>2, NatSetInduction
  <2> QED BY <2>3 DEF T
<1>6. \A i \in Nat : i <= Len(r) => B[i] \in Seq(S) /\ C[Len(q) + i] = A[Len(q)] \o B[i]
  <2> DEFINE T == {i \in Nat : i <= Len(r) => B[i] \in Seq(S) /\ C[Len(q) + i] = A[Len(q)] \o B[i]}
  <2>0. A[Len(q)] \in Seq(S) /\ C[Len(q)] = A[Len(q)]
    BY <1>1, <1>5
  <2>1. 0 \in T
    <3>1. <<>> \in Seq(S) /\ A[Len(q)] \o <<>> = A[Len(q)] /\ Len(q) + 0 = Len(q)
      BY <1>1, <2>0
    <3> QED BY <1>3, <2>0, <3>1, Zenon
  <2>2. ASSUME NEW i \in Nat, i \in T PROVE i + 1 \in T
    <3> SUFFICES ASSUME i + 1 <= Len(r)
                 PROVE  B[i + 1] \in Seq(S) /\ C[Len(q) + (i + 1)] = A[Len(q)] \o B[i + 1]
      <4>1. i + 1 \in Nat
        OBVIOUS
      <4> QED BY <4>1, Zenon
    <3>1. /\ i + 1 \in 1..Len(r) /\ Len(q) + (i + 1) \in 1..(Len(q) + Len(r))
          /\ (i + 1) - 1 = i /\ (Len(q) + (i + 1)) - 1 = Len(q) + i
      BY <1>1
    <3>2. /\ B[i] \in Seq(S) /\ C[Len(q) + i] = A[Len(q)] \o B[i]
          /\ r[i + 1] \in S /\ (q \o r)[Len(q) + (i + 1)] = r[i + 1]
      <4>1. i <= Len(r)
        BY <1>1, <3>1
      <4> QED BY <1>1, <2>2, <3>1, <4>1, Zenon
    <3>3. B[i + 1] = IF r[i + 1] \in Notifications THEN B[i] ELSE Append(B[i], r[i + 1])
      BY <1>3, <3>1, Zenon
    <3>4. C[Len(q) + (i + 1)] = IF r[i + 1] \in Notifications THEN C[Len(q) + i]
                                ELSE Append(C[Len(q) + i], r[i + 1])
      BY <1>4, <3>1, <3>2, Zenon
    <3>5. Append(A[Len(q)] \o B[i], r[i + 1]) = A[Len(q)] \o Append(B[i], r[i + 1])
      BY <1>0, <2>0, <3>2, Zenon
    <3>6. Append(B[i], r[i + 1]) \in Seq(S)
      BY <3>2
    <3> QED BY <3>2, <3>3, <3>4, <3>5, <3>6, Zenon
  <2> HIDE DEF T
  <2>3. \A i \in Nat : i \in T
    BY <2>1, <2>2, NatSetInduction
  <2> QED BY <2>3 DEF T
<1>7. A[Len(q)] \in Seq(S) /\ C[Len(q) + Len(r)] = A[Len(q)] \o B[Len(r)]
  <2>1. Len(q) <= Len(q) /\ Len(r) <= Len(r)
    BY <1>1
  <2> QED BY <1>1, <1>5, <1>6, <2>1, Zenon
<1> QED BY <1>2, <1>3, <1>4, <1>7, Zenon

(* The call that is taken off the front is answered first, if at all.      *)
LEMMA AnswerableHead ==
  ASSUME NEW S, NEW q \in Seq(S), q # <<>>
  PROVE  Bat!Answerable(q) =
           (IF Head(q) \in Notifications THEN <<>> ELSE <<Head(q)>>) \o Bat!Answerable(Tail(q))
<1>1. /\ Head(q) \in S /\ Tail(q) \in Seq(S) /\ <<Head(q)>> \in Seq(S) /\ q = <<Head(q)>> \o Tail(q)
  BY HeadTailProperties
<1>2. Bat!Answerable(q) = Bat!Answerable(<<Head(q)>>) \o Bat!Answerable(Tail(q))
  BY <1>1, AnswerableConcat
<1> DEFINE h == <<Head(q)>>
<1>3. Len(h) = 1 /\ h[1] = Head(q)
  OBVIOUS
<1> HIDE DEF h
<1>4. /\ Bat!Answerable(h) = Table(h)[1] /\ Table(h)[0] = <<>>
      /\ \A i \in 1..1 : Table(h)[i] = IF h[i] \in Notifications THEN Table(h)[i - 1]
                                        ELSE Append(Table(h)[i - 1], h[i])
  <2>1. Len(h) \in Nat
    BY <1>3
  <2> QED BY <1>3, <2>1, TableFacts, Zenon
<1>5. Bat!Answerable(h) = IF Head(q) \in Notifications THEN <<>> ELSE <<Head(q)>>
  <2>1. 1 \in 1..1 /\ 1 - 1 = 0 /\ Append(<<>>, Head(q)) = <<Head(q)>>
    OBVIOUS
  <2> QED BY <1>3, <1>4, <2>1, Zenon
<1> QED BY <1>2, <1>5 DEF h

(* The calls that have been answered, in order.  Until something is        *)
(* written, they and those still to be run are the calls of the batch.     *)
Kinds == {"result", "timeout"}
Ids(r) == [i \in DOMAIN r |-> r[i][1]]

LEMMA IdsFacts ==
  ASSUME NEW r \in Seq(BatchMsgs \X Kinds)
  PROVE  /\ Ids(r) \in Seq(BatchMsgs) /\ Len(Ids(r)) = Len(r) /\ Len(r) \in Nat
         /\ \A i \in 1..Len(r) : Ids(r)[i] = r[i][1]
<1>1. DOMAIN r = 1..Len(r) /\ Len(r) \in Nat /\ \A i \in 1..Len(r) : r[i][1] \in BatchMsgs
  OBVIOUS
<1>2. Ids(r) = [i \in 1..Len(r) |-> r[i][1]]
  BY <1>1 DEF Ids
<1>3. Ids(r) \in [1..Len(r) -> BatchMsgs]
  BY <1>1, <1>2
<1>4. Ids(r) \in Seq(BatchMsgs) /\ Len(Ids(r)) = Len(r)
  BY <1>1, <1>3
<1> QED BY <1>1, <1>2, <1>4

LEMMA IdsConcat ==
  ASSUME NEW r \in Seq(BatchMsgs \X Kinds), NEW s \in Seq(BatchMsgs \X Kinds)
  PROVE  Ids(r) \in Seq(BatchMsgs) /\ Ids(r \o s) = Ids(r) \o Ids(s)
<1> DEFINE u == Ids(r \o s)
           x == Ids(r)
           y == Ids(s)
<1>1. r \o s \in Seq(BatchMsgs \X Kinds) /\ Len(r \o s) = Len(r) + Len(s)
  OBVIOUS
<1>2. \A i \in 1..(Len(r) + Len(s)) : (r \o s)[i] = IF i <= Len(r) THEN r[i] ELSE s[i - Len(r)]
  BY ConcatProperties, <1>1
<1>3. /\ x \in Seq(BatchMsgs) /\ Len(x) = Len(r) /\ Len(r) \in Nat /\ \A i \in 1..Len(r) : x[i] = r[i][1]
      /\ y \in Seq(BatchMsgs) /\ Len(y) = Len(s) /\ Len(s) \in Nat /\ \A i \in 1..Len(s) : y[i] = s[i][1]
  BY IdsFacts, Zenon
<1>4. /\ u \in Seq(BatchMsgs) /\ Len(u) = Len(r) + Len(s)
      /\ \A i \in 1..(Len(r) + Len(s)) : u[i] = (r \o s)[i][1]
  BY <1>1, IdsFacts, Zenon
<1> HIDE DEF u, x, y
<1>5. x \o y \in Seq(BatchMsgs) /\ Len(x \o y) = Len(r) + Len(s)
  BY <1>3, ConcatProperties
<1>6. \A i \in 1..(Len(r) + Len(s)) : (x \o y)[i] = IF i <= Len(r) THEN x[i] ELSE y[i - Len(r)]
  BY <1>3, ConcatProperties
<1>7. ASSUME NEW i \in 1..(Len(r) + Len(s)) PROVE u[i] = (x \o y)[i]
  <2>1. i > Len(r) => i - Len(r) \in 1..Len(s)
    BY <1>3
  <2>2. i <= Len(r) => i \in 1..Len(r)
    BY <1>3
  <2>5. u[i] = (r \o s)[i][1]
    BY <1>4
  <2>3. CASE i <= Len(r)
    <3>1. (r \o s)[i] = r[i] /\ (x \o y)[i] = x[i]
      BY <1>2, <1>6, <2>3
    <3>2. x[i] = r[i][1]
      BY <1>3, <2>2, <2>3, Zenon
    <3> QED BY <2>5, <3>1, <3>2, Zenon
  <2>4. CASE ~(i <= Len(r))
    <3>1. i - Len(r) \in 1..Len(s)
      BY <1>3, <2>1, <2>4
    <3>2. (r \o s)[i] = s[i - Len(r)] /\ (x \o y)[i] = y[i - Len(r)]
      BY <1>2, <1>6, <2>4
    <3>3. y[i - Len(r)] = s[i - Len(r)][1]
      BY <1>3, <3>1, Zenon
    <3> QED BY <2>5, <3>2, <3>3, Zenon
  <2> QED BY <2>3, <2>4
<1>8. u = x \o y
  BY <1>4, <1>5, <1>7, SeqEqual
<1> QED BY <1>3, <1>8 DEF u, x, y

LEMMA IdsEmpty == Ids(<<>>) = <<>>
BY DEF Ids

LEMMA IdsOfLate ==
  ASSUME NEW q \in Seq(BatchMsgs), NEW k \in Kinds
  PROVE  LET late == [i \in DOMAIN q |-> <<q[i], k>>] IN
           late \in Seq(BatchMsgs \X Kinds) /\ Ids(late) = q
BY DEF Ids

BatInv ==
  /\ batch \in Seq(BatchMsgs)
  /\ Bat!TypeOK
  /\ worker = "running" => calls # <<>>
  /\ ~wrote => written = <<>> /\ Ids(answers) \o Bat!Answerable(calls) = Bat!Answerable(batch)
  /\ Bat!AnsweredOnce

LEMMA BatInit == Bat!Init => BatInv
<1> SUFFICES ASSUME Bat!Init PROVE BatInv
  OBVIOUS
<1>1. batch \in Seq(BatchMsgs)
  <2>1. PICK M \in SUBSET BatchMsgs : batch \in Bat!SetToSeqs(M)
    BY Zenon DEF Bat!Init, Bat!SetToAllKPermutations
  <2>2. Bat!Cardinality(M) = Cardinality(M)
    BY Zenon DEF Bat!Cardinality, Cardinality
  <2>3. Cardinality(M) \in Nat
    BY FS_Subset, FS_CardinalityType, BoundsAssumption
  <2>4. batch \in [1..Cardinality(M) -> M]
    BY <2>1, <2>2 DEF Bat!SetToSeqs
  <2> QED BY <2>3, <2>4
<1>2. Bat!Answerable(batch) \in Seq(BatchMsgs)
  BY <1>1, AnswerableConcat
<1>3. Ids(answers) \o Bat!Answerable(calls) = Bat!Answerable(batch)
  BY <1>2, IdsEmpty DEF Bat!Init
<1>4. Bat!TypeOK
  <2>1. <<>> \in Seq(BatchMsgs \X {"result", "timeout"}) /\ <<>> \in Seq(Seq(BatchMsgs \X {"result", "timeout"}))
    OBVIOUS
  <2> QED BY <1>1, <2>1, Zenon DEF Bat!Init, Bat!TypeOK
<1> QED BY <1>1, <1>3, <1>4 DEF Bat!Init, BatInv, Bat!AnsweredOnce

LEMMA BatPush == ASSUME BatInv, Bat!pushResponse PROVE BatInv'
<1> DEFINE h == Head(calls)
           new == IF h \in Notifications THEN <<>> ELSE << <<h, "result">> >>
<1>1. calls \in Seq(BatchMsgs) /\ calls # <<>> /\ answers \in Seq(BatchMsgs \X Kinds)
  BY DEF BatInv, Bat!TypeOK, Bat!pushResponse, Kinds
<1>2. h \in BatchMsgs /\ Tail(calls) \in Seq(BatchMsgs)
  BY <1>1
<1>3. new \in Seq(BatchMsgs \X Kinds) /\ Ids(new) = (IF h \in Notifications THEN <<>> ELSE <<h>>)
  <2>1. CASE h \in Notifications
    BY <2>1, IdsEmpty
  <2>2. CASE h \notin Notifications
    <3>1. <<h>> \in Seq(BatchMsgs) /\ "result" \in Kinds /\ DOMAIN <<h>> = {1}
      BY <1>2 DEF Kinds
    <3>2. << <<h, "result">> >> = [i \in DOMAIN <<h>> |-> << <<h>>[i], "result">>]
      BY <3>1
    <3> QED BY <2>2, <3>1, <3>2, IdsOfLate
  <2> QED BY <2>1, <2>2
<1>4. answers' = answers \o new /\ calls' = Tail(calls) /\ worker' = "next" /\ UNCHANGED <<wrote, written, batch>>
  <2>1. answers' = IF h \in Notifications THEN answers ELSE Append(answers, <<h, "result">>)
    BY DEF Bat!pushResponse
  <2>2. <<h, "result">> \in BatchMsgs \X Kinds
    BY <1>2 DEF Kinds
  <2>3. answers' = answers \o new
    <3>1. CASE h \in Notifications
      BY <1>1, <2>1, <3>1
    <3>2. CASE h \notin Notifications
      <4>1. Append(answers, <<h, "result">>) = answers \o << <<h, "result">> >>
        BY <1>1, <2>2, AppendIsConcat, Zenon
      <4> QED BY <2>1, <3>2, <4>1
    <3> QED BY <3>1, <3>2
  <2> QED BY <2>3 DEF Bat!pushResponse
<1> HIDE DEF new, h
<1>5. Bat!TypeOK'
  <2>1. answers' \in Seq(BatchMsgs \X Kinds)
    BY <1>1, <1>3, <1>4, ConcatProperties
  <2> QED BY <1>2, <1>4, <2>1 DEF Bat!TypeOK, BatInv, Kinds
<1>6. ASSUME ~wrote PROVE Ids(answers') \o Bat!Answerable(calls') = Bat!Answerable(batch)
  <2>1. Bat!Answerable(calls) = Ids(new) \o Bat!Answerable(Tail(calls))
    BY <1>1, <1>3, AnswerableHead DEF h
  <2>2. Ids(answers') = Ids(answers) \o Ids(new)
    BY <1>1, <1>3, <1>4, IdsConcat
  <2>3. /\ Ids(answers) \in Seq(BatchMsgs) /\ Ids(new) \in Seq(BatchMsgs)
        /\ Bat!Answerable(Tail(calls)) \in Seq(BatchMsgs)
    BY <1>1, <1>2, <1>3, IdsConcat, AnswerableConcat
  <2>4. (Ids(answers) \o Ids(new)) \o Bat!Answerable(Tail(calls)) = Ids(answers) \o Bat!Answerable(calls)
    <3>1. \A s, t, u \in Seq(BatchMsgs) : (s \o t) \o u = s \o (t \o u)
      BY ConcatAssociative
    <3> DEFINE a == Ids(answers)
               b == Ids(new)
               d == Bat!Answerable(Tail(calls))
    <3>2. a \in Seq(BatchMsgs) /\ b \in Seq(BatchMsgs) /\ d \in Seq(BatchMsgs)
      BY <2>3
    <3> HIDE DEF a, b, d
    <3>3. (a \o b) \o d = a \o (b \o d)
      BY <3>1, <3>2
    <3> QED BY <2>1, <3>3 DEF a, b, d
  <2>5. Ids(answers) \o Bat!Answerable(calls) = Bat!Answerable(batch)
    BY <1>6 DEF BatInv
  <2> QED BY <1>4, <2>2, <2>4, <2>5
<1>7. Bat!AnsweredOnce'
  BY <1>4 DEF BatInv, Bat!AnsweredOnce
<1> QED BY <1>4, <1>5, <1>6, <1>7 DEF BatInv

LEMMA BatTimeout == ASSUME BatInv, Bat!timeout PROVE BatInv'
<1> DEFINE late == Bat!Answerable(calls)
           add == [i \in DOMAIN late |-> <<late[i], "timeout">>]
<1>1. calls \in Seq(BatchMsgs) /\ answers \in Seq(BatchMsgs \X Kinds) /\ ~wrote /\ written = <<>>
  BY DEF BatInv, Bat!TypeOK, Bat!timeout, Kinds
<1>2. late \in Seq(BatchMsgs)
  BY <1>1, AnswerableConcat
<1>3. add \in Seq(BatchMsgs \X Kinds) /\ Ids(add) = late
  BY <1>2, IdsOfLate DEF Kinds
<1>4. answers' = answers \o add /\ Bat!doWrite(answers \o add) /\ UNCHANGED <<calls, worker, batch>>
  BY DEF Bat!timeout
<1> HIDE DEF add
<1>5. Ids(answers \o add) = Bat!Answerable(batch)
  BY <1>1, <1>3, IdsConcat DEF BatInv
<1>6. answers \o add \in Seq(BatchMsgs \X Kinds)
  BY <1>1, <1>3
<1>7. wrote' /\ written' = IF answers \o add = <<>> THEN <<>> ELSE <<answers \o add>>
  BY <1>1, <1>4 DEF Bat!doWrite
<1>8. Bat!TypeOK'
  <2>1. answers' \in Seq(BatchMsgs \X Kinds) /\ written' \in Seq(Seq(BatchMsgs \X Kinds))
    <3>1. CASE answers \o add = <<>>
      BY <1>4, <1>6, <1>7, <3>1
    <3>2. CASE answers \o add # <<>>
      <4>1. written' = <<answers \o add>>
        BY <1>7, <3>2
      <4> HIDE DEF late
      <4> QED BY <1>4, <1>6, <4>1
    <3> QED BY <3>1, <3>2
  <2> QED BY <1>4, <1>7, <2>1 DEF Bat!TypeOK, BatInv, Kinds
<1>9. Bat!AnsweredOnce'
  <2>1. answers \o add = <<>> => Bat!Answerable(batch) = <<>>
    BY <1>5, IdsEmpty
  <2>2. Bat!Answerable(batch') = Bat!Answerable(batch)
    BY <1>4
  <2>3. CASE answers \o add = <<>>
    BY <1>7, <2>1, <2>2, <2>3 DEF Bat!AnsweredOnce
  <2>4. CASE answers \o add # <<>>
    BY <1>5, <1>7, <2>2, <2>4 DEF Bat!AnsweredOnce, Ids
  <2> QED BY <2>3, <2>4
<1> QED BY <1>4, <1>7, <1>8, <1>9 DEF BatInv


LEMMA BatWrite == ASSUME BatInv, Bat!Write PROVE BatInv'
<1>1. answers \in Seq(BatchMsgs \X Kinds) /\ calls = <<>> /\ Bat!doWrite(answers) /\ worker' = "done"
      /\ UNCHANGED <<calls, answers, batch>>
  BY DEF BatInv, Bat!TypeOK, Bat!Write, Kinds
<1>2. wrote' /\ written' = IF wrote \/ answers = <<>> THEN written ELSE Append(written, answers)
  BY <1>1 DEF Bat!doWrite
<1>3. CASE wrote
  BY <1>1, <1>2, <1>3 DEF BatInv, Bat!TypeOK, Bat!AnsweredOnce
<1>4. CASE ~wrote
  <2>1. written = <<>> /\ Ids(answers) \o Bat!Answerable(<<>>) = Bat!Answerable(batch)
    BY <1>1, <1>4 DEF BatInv
  <2>2. Bat!Answerable(<<>>) = <<>>
    <3>1. Len(<<>>) = 0 /\ 0 \in Nat
      OBVIOUS
    <3> QED BY <3>1, TableFacts, Zenon
  <2>3. Ids(answers) = Bat!Answerable(batch)
    <3>1. Ids(answers) \in Seq(BatchMsgs)
      BY <1>1, IdsFacts
    <3> QED BY <2>1, <2>2, <3>1
  <2>4. written' = IF answers = <<>> THEN <<>> ELSE <<answers>>
    BY <1>2, <1>4, <2>1
  <2>5. Bat!TypeOK'
    <3>1. written' \in Seq(Seq(BatchMsgs \X Kinds))
      <4> DEFINE a == answers
      <4>1. a \in Seq(BatchMsgs \X Kinds)
        BY <1>1
      <4> HIDE DEF a
      <4>2. <<>> \in Seq(Seq(BatchMsgs \X Kinds)) /\ <<a>> \in Seq(Seq(BatchMsgs \X Kinds))
        BY <4>1
      <4> QED BY <2>4, <4>2 DEF a
    <3> QED BY <1>1, <1>2, <3>1 DEF BatInv, Bat!TypeOK, Kinds
  <2>6. Bat!AnsweredOnce'
    <3>1. Bat!Answerable(batch') = Bat!Answerable(batch)
      BY <1>1
    <3>2. CASE answers = <<>>
      BY <1>2, <2>3, <2>4, <3>1, <3>2, IdsEmpty DEF Bat!AnsweredOnce
    <3>3. CASE answers # <<>>
      <4>1. written' = <<answers>> /\ written'[1] = answers /\ Len(written') = 1
        BY <2>4, <3>3
      <4>2. [i \in DOMAIN written'[1] |-> written'[1][i][1]] = Bat!Answerable(batch')
        BY <2>3, <3>1, <4>1, Zenon DEF Ids
      <4> QED BY <4>1, <4>2, <1>2 DEF Bat!AnsweredOnce
    <3> QED BY <3>2, <3>3
  <2> QED BY <1>1, <1>2, <2>5, <2>6 DEF BatInv
<1> QED BY <1>3, <1>4

LEMMA BatStep == BatInv /\ [Bat!Next]_batVars => BatInv'
<1> SUFFICES ASSUME BatInv, [Bat!Next]_batVars PROVE BatInv'
  OBVIOUS
<1>1. CASE Bat!nextCall
  <2>1. worker' = "running" /\ calls # <<>> /\ UNCHANGED <<calls, answers, wrote, written, batch>>
    BY <1>1 DEF Bat!nextCall
  <2>2. Bat!TypeOK' /\ Bat!AnsweredOnce'
    BY <2>1 DEF BatInv, Bat!TypeOK, Bat!AnsweredOnce
  <2> QED BY <2>1, <2>2 DEF BatInv
<1>2. CASE UNCHANGED batVars
  <2>1. UNCHANGED <<calls, answers, wrote, written, worker, batch>>
    BY <1>2 DEF batVars
  <2>2. Bat!TypeOK' /\ Bat!AnsweredOnce'
    BY <2>1 DEF BatInv, Bat!TypeOK, Bat!AnsweredOnce
  <2> QED BY <2>1, <2>2 DEF BatInv
<1> QED BY <1>1, <1>2, BatPush, BatTimeout, BatWrite DEF Bat!Next

-----------------------------------------------------------------------------
(* Registry: what a name's callbacks are is told by the receivers that     *)
(* have been registered under it.                                          *)

AllMethods == UNION {DOMAIN r : r \in Receivers}
(* A method that is not a subscription, and which receivers registered     *)
(* under n have one that is called f.                                      *)
Method(m) == Reg!Suitable(m) /\ ~Reg!isPubSub(m)
Owning(n, f) == {k \in DOMAIN latest[n] : f \in DOMAIN latest[n][k] /\ Method(latest[n][k][f])}
Recorded(n) ==
  /\ DOMAIN services[n].callbacks = {f \in AllMethods : Reg!Callable(n, f) # {}}
  /\ \A f \in DOMAIN services[n].callbacks :
       /\ Reg!Last(Reg!Callable(n, f)) \in Reg!Callable(n, f)
       /\ services[n].callbacks[f] = Reg!newCallback(latest[n][Reg!Last(Reg!Callable(n, f))][f])

RegInv ==
  /\ latest \in [Names -> Seq(Receivers)]
  /\ services = [n \in Names |-> [callbacks |-> services[n].callbacks,
                                  subscriptions |-> services[n].subscriptions]]
  /\ \A n \in Names : Recorded(n)

LEMMA CallableIs ==
  \A n, f : Reg!Callable(n, f) = Owning(n, f) /\ Reg!Callable(n, f)' = Owning(n, f)'
BY DEF Reg!Callable, Reg!Owners, Owning, Method

LEMMA RegInit == Reg!Init => RegInv
<1> SUFFICES ASSUME Reg!Init PROVE RegInv
  OBVIOUS
<1>1. latest = [n \in Names |-> <<>>]
  BY DEF Reg!Init
<1>2. services = [n \in Names |-> [callbacks |-> Reg!Nothing, subscriptions |-> Reg!Nothing]]
  BY DEF Reg!Init
<1>3. ASSUME NEW n \in Names PROVE Recorded(n)
  <2>1. \A f : Owning(n, f) = {}
    BY <1>1 DEF Owning
  <2>2. DOMAIN services[n].callbacks = {}
    BY <1>2 DEF Reg!Nothing
  <2> QED BY <2>1, <2>2, CallableIs DEF Recorded
<1> QED BY <1>1, <1>2, <1>3 DEF RegInv

(* What registerName does to the callbacks of a name.                      *)
LEMMA NamedEffect ==
  ASSUME RegInv, NEW n \in Names, NEW rcvr \in Receivers, Reg!registerName(n, rcvr)
  PROVE  LET new == {f \in DOMAIN rcvr : Method(rcvr[f])}
             old == services[n].callbacks IN
           /\ latest' = [latest EXCEPT ![n] = Append(@, rcvr)]
           /\ services' = [m \in Names |-> [callbacks |-> services'[m].callbacks,
                                            subscriptions |-> services'[m].subscriptions]]
           /\ \A m \in Names \ {n} : services'[m].callbacks = services[m].callbacks
           /\ DOMAIN services'[n].callbacks = DOMAIN old \cup new
           /\ \A f \in DOMAIN old \cup new :
                services'[n].callbacks[f] = IF f \in new THEN Reg!newCallback(rcvr[f]) ELSE old[f]
<1> DEFINE cbs == Reg!suitableCallbacks(rcvr)
           subs == {f \in DOMAIN cbs : cbs[f].isSubscribe}
           new == {f \in DOMAIN rcvr : Method(rcvr[f])}
<1>1. DOMAIN cbs = {f \in DOMAIN rcvr : Reg!Suitable(rcvr[f])} /\ \A f \in DOMAIN cbs : cbs[f] = Reg!newCallback(rcvr[f])
  BY DEF Reg!suitableCallbacks
<1>2. \A f \in DOMAIN cbs : cbs[f].isSubscribe = Reg!isPubSub(rcvr[f])
  BY <1>1 DEF Reg!newCallback
<1>3. DOMAIN cbs \ subs = new
  BY <1>1, <1>2 DEF Method
<1>4. /\ services' = [services EXCEPT
            ![n].callbacks = Reg!Extended(@, cbs, DOMAIN cbs \ subs),
            ![n].subscriptions = Reg!Extended(@, cbs, subs)]
      /\ latest' = [latest EXCEPT ![n] = Append(@, rcvr)]
  BY DEF Reg!registerName
<1> HIDE DEF cbs, subs, new
<1> DEFINE cb == Reg!Extended(services[n].callbacks, cbs, DOMAIN cbs \ subs)
           sb == Reg!Extended(services[n].subscriptions, cbs, subs)
<1> HIDE DEF cb, sb
<1>5. services'[n] = [callbacks |-> cb, subscriptions |-> sb]
  <2>1. services[n] = [callbacks |-> services[n].callbacks, subscriptions |-> services[n].subscriptions] /\ n \in DOMAIN services
    BY DEF RegInv
  <2>2. services' = [services EXCEPT ![n].callbacks = cb, ![n].subscriptions = sb]
    BY <1>4 DEF cb, sb
  <2> QED BY <2>1, <2>2
<1>6. services' = [m \in Names |-> [callbacks |-> services'[m].callbacks,
                                    subscriptions |-> services'[m].subscriptions]]
  <2>1. services' = [services EXCEPT ![n].callbacks = cb, ![n].subscriptions = sb]
    BY <1>4 DEF cb, sb
  <2>2. DOMAIN services' = Names /\ services' = [m \in Names |-> services'[m]]
    BY <2>1 DEF RegInv
  <2>3. \A m \in Names : services'[m] = [callbacks |-> services'[m].callbacks, subscriptions |-> services'[m].subscriptions]
    BY <1>5, <2>1 DEF RegInv
  <2> QED BY <2>2, <2>3
<1>7. \A m \in Names \ {n} : services'[m].callbacks = services[m].callbacks
  BY <1>4, <1>5 DEF RegInv
<1>8. new \subseteq DOMAIN cbs
  BY <1>3
<1>9. /\ DOMAIN cb = DOMAIN services[n].callbacks \cup new
      /\ \A f \in DOMAIN cb : cb[f] = IF f \in new THEN cbs[f] ELSE services[n].callbacks[f]
  BY <1>3 DEF cb, Reg!Extended
<1>10. \A f \in new : cbs[f] = Reg!newCallback(rcvr[f])
  BY <1>1, <1>8
<1>11. services'[n].callbacks = cb
  BY <1>5
<1> QED BY <1>4, <1>6, <1>7, <1>9, <1>10, <1>11 DEF new

LEMMA NamedStep ==
  ASSUME RegInv, NEW n \in Names, NEW rcvr \in Receivers, Reg!registerName(n, rcvr)
  PROVE  RegInv'
<1> DEFINE new == {f \in DOMAIN rcvr : Method(rcvr[f])}
           k == Len(latest[n]) + 1
<1>1. latest \in [Names -> Seq(Receivers)] /\ latest[n] \in Seq(Receivers) /\ latest' = [latest EXCEPT ![n] = Append(@, rcvr)]
  BY NamedEffect DEF RegInv
<1>2. latest' \in [Names -> Seq(Receivers)]
  BY <1>1
<1>3. /\ DOMAIN latest[n] = 1..Len(latest[n]) /\ Len(latest[n]) \in Nat
      /\ DOMAIN latest'[n] = 1..k /\ latest'[n][k] = rcvr
      /\ \A j \in 1..Len(latest[n]) : latest'[n][j] = latest[n][j]
  BY <1>1
<1> HIDE DEF k
<1>4. ASSUME NEW f PROVE Owning(n, f)' = Owning(n, f) \cup (IF f \in new THEN {k} ELSE {})
  <2>1. 1..k = (1..Len(latest[n])) \cup {k}
    BY <1>3 DEF k
  <2> QED BY <1>3, <2>1 DEF Owning
<1>5. ASSUME NEW f \in new PROVE Reg!Last(Owning(n, f))' = k
  <2>1. k \in Owning(n, f)' /\ \A j \in Owning(n, f)' : j <= k
    BY <1>3, <1>4 DEF Owning, k
  <2>2. Owning(n, f)' \subseteq Nat
    BY <1>3, <1>4 DEF Owning, k
  <2> QED BY <2>1, <2>2 DEF Reg!Last
<1>6. \A m \in Names \ {n} : latest'[m] = latest[m] /\ services'[m].callbacks = services[m].callbacks
  BY <1>1, NamedEffect
<1>7. ASSUME NEW m \in Names \ {n} PROVE Recorded(m)'
  <2>1. \A f : Owning(m, f)' = Owning(m, f)
    BY <1>6 DEF Owning
  <2>2. Recorded(m)
    BY DEF RegInv
  <2>3. \A f : Reg!Callable(m, f)' = Reg!Callable(m, f)
    BY <2>1, CallableIs
  <2>4. \A f : Reg!Last(Reg!Callable(m, f))' = Reg!Last(Reg!Callable(m, f))
    BY <2>3 DEF Reg!Last
  <2> QED BY <1>6, <2>2, <2>3, <2>4 DEF Recorded
<1>8. Recorded(n)'
  <2> DEFINE old == services[n].callbacks
             cb == services'[n].callbacks
  <2>1. /\ DOMAIN cb = DOMAIN old \cup new
        /\ \A f \in DOMAIN cb : cb[f] = IF f \in new THEN Reg!newCallback(rcvr[f]) ELSE old[f]
    BY NamedEffect
  <2>2. /\ DOMAIN old = {f \in AllMethods : Owning(n, f) # {}}
        /\ \A f \in DOMAIN old : /\ Reg!Last(Owning(n, f)) \in Owning(n, f)
                                 /\ old[f] = Reg!newCallback(latest[n][Reg!Last(Owning(n, f))][f])
    BY CallableIs, Zenon DEF RegInv, Recorded
  <2>3. new \subseteq AllMethods
    BY DEF AllMethods
  <2> HIDE DEF old, cb, new
  <2>4. DOMAIN cb = {f \in AllMethods : Owning(n, f)' # {}}
    BY <1>4, <2>1, <2>2, <2>3
  <2>5. ASSUME NEW f \in DOMAIN cb
        PROVE  /\ Reg!Last(Owning(n, f))' \in Owning(n, f)'
               /\ cb[f] = Reg!newCallback(latest'[n][Reg!Last(Owning(n, f))'][f])
    <3>1. CASE f \in new
      BY <1>3, <1>4, <1>5, <2>1, <3>1
    <3>2. CASE f \notin new
      <4>1. f \in DOMAIN old /\ Owning(n, f)' = Owning(n, f) /\ cb[f] = old[f]
        BY <1>4, <2>1, <3>2
      <4>2. Reg!Last(Owning(n, f))' = Reg!Last(Owning(n, f))
        BY <4>1 DEF Reg!Last
      <4>3. Reg!Last(Owning(n, f)) \in DOMAIN latest[n]
        BY <2>2, <4>1 DEF Owning
      <4> QED BY <1>3, <2>2, <4>1, <4>2, <4>3
    <3> QED BY <3>1, <3>2
  <2>6. \A f : Reg!Callable(n, f)' = Owning(n, f)'
    BY CallableIs
  <2>7. \A f : Reg!Last(Reg!Callable(n, f))' = Reg!Last(Owning(n, f))'
    BY <2>6 DEF Reg!Last
  <2> QED BY <2>4, <2>5, <2>6, <2>7 DEF Recorded, cb
<1>9. services' = [m \in Names |-> [callbacks |-> services'[m].callbacks,
                                    subscriptions |-> services'[m].subscriptions]]
  BY NamedEffect
<1> QED BY <1>2, <1>7, <1>8, <1>9 DEF RegInv

LEMMA RegStep == RegInv /\ [Reg!Next]_regVars => RegInv'
<1> SUFFICES ASSUME RegInv, [Reg!Next]_regVars PROVE RegInv'
  OBVIOUS
<1>1. CASE UNCHANGED regVars
  <2>1. UNCHANGED <<services, latest>>
    BY <1>1 DEF regVars
  <2>2. \A m, f : Reg!Callable(m, f)' = Reg!Callable(m, f)
    BY <2>1 DEF Reg!Callable, Reg!Owners
  <2>3. \A m, f : Reg!Last(Reg!Callable(m, f))' = Reg!Last(Reg!Callable(m, f))
    BY <2>2 DEF Reg!Last
  <2>4. ASSUME NEW m \in Names PROVE Recorded(m)'
    <3>1. Recorded(m)
      BY DEF RegInv
    <3> QED BY <2>1, <2>2, <2>3, <3>1 DEF Recorded
  <2> QED BY <2>1, <2>4 DEF RegInv
<1> QED BY <1>1, NamedStep DEF Reg!Next

LEMMA WiderSeq == ASSUME NEW S, NEW P, S \subseteq P, NEW q \in Seq(S) PROVE q \in Seq(P)
OBVIOUS

LEMMA Single == \A S : \A q \in Seq(S) : Len(q) = 1 => q = <<q[1]>>
OBVIOUS

(* A service's name, the separator and a method's name.                    *)
LEMMA Joined ==
  ASSUME NEW S, NEW q \in Seq(S), NEW r \in Seq(S), NEW e \in S
  PROVE  /\ (q \o <<e>> \o r) \in Seq(S) /\ Len((q \o <<e>> \o r)) = Len(q) + 1 + Len(r) /\ DOMAIN (q \o <<e>> \o r) = 1..Len((q \o <<e>> \o r))
         /\ Len(q) \in Nat /\ Len(r) \in Nat /\ DOMAIN q = 1..Len(q) /\ DOMAIN r = 1..Len(r)
         /\ \A i \in 1..Len(q) : (q \o <<e>> \o r)[i] = q[i]
         /\ (q \o <<e>> \o r)[Len(q) + 1] = e
         /\ \A i \in 1..Len(r) : (q \o <<e>> \o r)[Len(q) + 1 + i] = r[i]
         /\ SubSeq((q \o <<e>> \o r), 1, (Len(q) + 1) - 1) = q
         /\ SubSeq((q \o <<e>> \o r), (Len(q) + 1) + 1, Len((q \o <<e>> \o r))) = r
<1> DEFINE v == q \o <<e>>
           w == v \o r
<1>1. /\ Len(q) \in Nat /\ Len(r) \in Nat /\ DOMAIN q = 1..Len(q) /\ DOMAIN r = 1..Len(r)
      /\ <<e>> \in Seq(S) /\ Len(<<e>>) = 1 /\ <<e>>[1] = e
  OBVIOUS
<1>2. /\ v \in Seq(S) /\ Len(v) = Len(q) + 1
      /\ \A i \in 1..(Len(q) + 1) : v[i] = IF i <= Len(q) THEN q[i] ELSE <<e>>[i - Len(q)]
  BY <1>1, ConcatProperties
<1> HIDE DEF v
<1>3. /\ w \in Seq(S) /\ Len(w) = Len(v) + Len(r)
      /\ \A i \in 1..(Len(v) + Len(r)) : w[i] = IF i <= Len(v) THEN v[i] ELSE r[i - Len(v)]
  <2>1. v \in Seq(S)
    BY <1>2
  <2> QED BY <2>1, ConcatProperties
<1> HIDE DEF w
<1>4. \A i \in 1..Len(q) : w[i] = q[i]
  BY <1>1, <1>2, <1>3
<1>5. w[Len(q) + 1] = e
  BY <1>1, <1>2, <1>3
<1>6. ASSUME NEW i \in 1..Len(r) PROVE w[Len(q) + 1 + i] = r[i]
  <2>1. /\ Len(q) + 1 + i \in 1..(Len(v) + Len(r)) /\ ~(Len(q) + 1 + i <= Len(v))
        /\ (Len(q) + 1 + i) - Len(v) = i
    BY <1>1, <1>2
  <2> QED BY <1>3, <2>1
<1>7. DOMAIN w = 1..Len(w) /\ Len(w) = Len(q) + 1 + Len(r)
  BY <1>1, <1>2, <1>3
<1>8. SubSeq(w, 1, (Len(q) + 1) - 1) = q
  <2> DEFINE x == SubSeq(w, 1, (Len(q) + 1) - 1)
  <2>1. x \in Seq(S) /\ Len(x) = Len(q) /\ \A i \in 1..Len(q) : x[i] = w[i]
    BY <1>1, <1>3, <1>7
  <2> HIDE DEF x
  <2>2. x = q
    BY <1>4, <2>1, SeqEqual
  <2> QED BY <2>2 DEF x
<1>9. SubSeq(w, (Len(q) + 1) + 1, Len(w)) = r
  <2> DEFINE x == SubSeq(w, (Len(q) + 1) + 1, Len(w))
  <2>1. x = [i \in 1..Len(r) |-> w[Len(q) + 1 + i]]
    <3>1. (1 + Len(w)) - ((Len(q) + 1) + 1) = Len(r)
      BY <1>1, <1>7
    <3>2. \A i \in 1..Len(r) : (i + ((Len(q) + 1) + 1)) - 1 = Len(q) + 1 + i
      BY <1>1
    <3>3. x = [i \in 1..((1 + Len(w)) - ((Len(q) + 1) + 1)) |-> w[(i + ((Len(q) + 1) + 1)) - 1]]
      BY <1>1, <1>3, <1>7
    <3> QED BY <3>1, <3>2, <3>3
  <2> HIDE DEF x
  <2>2. x = r
    <3>1. r = [i \in 1..Len(r) |-> r[i]]
      OBVIOUS
    <3> QED BY <1>6, <2>1, <3>1
  <2> QED BY <2>2 DEF x
<1> QED BY <1>1, <1>3, <1>4, <1>5, <1>6, <1>7, <1>8, <1>9 DEF w, v

(* A full name, where it is cut, and what lies on each side.               *)
Word(q, e, r) == q \o <<e>> \o r
Cut(w, e) == {i \in DOMAIN w : w[i] = e /\ \A j \in 1..(i - 1) : w[j] # e}
Before(w, i) == SubSeq(w, 1, i - 1)
After(w, i) == SubSeq(w, i + 1, Len(w))
HasPart(q, e) == \E i \in DOMAIN q : q[i] = e

LEMMA TakenApart ==
  ASSUME NEW S, NEW w \in Seq(S), NEW i \in 1..Len(w)
  PROVE  /\ DOMAIN Before(w, i) = 1..(i - 1)
         /\ \A k \in 1..(i - 1) : Before(w, i)[k] = w[k]
         /\ Word(Before(w, i), w[i], After(w, i)) = w
<1> DEFINE b == SubSeq(w, 1, i - 1)
           a == SubSeq(w, i + 1, Len(w))
<1>1. /\ Len(w) \in Nat /\ i \in Nat /\ i # 0 /\ i <= Len(w) /\ w[i] \in S
      /\ \A k \in 1..Len(w) : w[k] \in S
  OBVIOUS
<1>2. b \in Seq(S) /\ Len(b) = i - 1 /\ DOMAIN b = 1..(i - 1) /\ \A k \in 1..(i - 1) : b[k] = w[k]
  BY <1>1
<1>3. a \in Seq(S) /\ Len(a) = Len(w) - i
  BY <1>1
<1>4. \A k \in 1..(Len(w) - i) : a[k] = w[i + k]
  <2>1. (1 + Len(w)) - (i + 1) = Len(w) - i
    BY <1>1
  <2>2. \A k \in 1..(Len(w) - i) : (k + (i + 1)) - 1 = i + k
    BY <1>1
  <2>3. a = [k \in 1..((1 + Len(w)) - (i + 1)) |-> w[(k + (i + 1)) - 1]]
    BY <1>1
  <2> QED BY <2>1, <2>2, <2>3
<1> HIDE DEF b, a
<1> DEFINE e == w[i]
           v == b \o <<e>> \o a
<1>6. /\ v \in Seq(S) /\ Len(v) = Len(b) + 1 + Len(a)
      /\ \A k \in 1..Len(b) : v[k] = b[k]
      /\ v[Len(b) + 1] = w[i]
      /\ \A k \in 1..Len(a) : v[Len(b) + 1 + k] = a[k]
  <2>1. b \in Seq(S) /\ a \in Seq(S) /\ e \in S
    BY <1>1, <1>2, <1>3
  <2> HIDE DEF e
  <2>2. v \in Seq(S) /\ Len(v) = Len(b) + 1 + Len(a)
    BY <2>1, Joined
  <2>3. \A k \in 1..Len(b) : v[k] = b[k]
    BY <2>1, Joined
  <2>4. v[Len(b) + 1] = e
    BY <2>1, Joined
  <2>5. \A k \in 1..Len(a) : v[Len(b) + 1 + k] = a[k]
    BY <2>1, Joined
  <2> QED BY <2>2, <2>3, <2>4, <2>5 DEF e
<1> HIDE DEF v
<1>7. ASSUME NEW k \in 1..Len(w) PROVE v[k] = w[k]
  <2>1. CASE k < i
    <3>1. k \in 1..(i - 1)
      BY <1>1, <2>1
    <3> QED BY <1>2, <1>6, <3>1
  <2>2. CASE k = i
    BY <1>1, <1>2, <1>6, <2>2
  <2>3. CASE i < k
    <3>1. k - i \in 1..(Len(w) - i) /\ i + (k - i) = k /\ Len(b) + 1 + (k - i) = k
      BY <1>1, <1>2, <2>3
    <3>2. v[k] = a[k - i]
      BY <1>3, <1>6, <3>1
    <3> QED BY <1>4, <3>1, <3>2
  <2> QED BY <1>1, <2>1, <2>2, <2>3
<1>8. Len(v) = Len(w)
  BY <1>1, <1>2, <1>3, <1>6
<1>9. v = w
  BY <1>6, <1>7, <1>8, SeqEqual
<1> QED BY <1>2, <1>9 DEF v, b, a, e, Before, After, Word

(* A full name whose service has no separator is cut after the service.    *)
CutAfter(n, sep, f) ==
  /\ Cut(Word(n, sep, f), sep) = {Len(n) + 1}
  /\ Before(Word(n, sep, f), Len(n) + 1) = n
  /\ After(Word(n, sep, f), Len(n) + 1) = f

LEMMA CutPoint ==
  ASSUME NEW Parts, NEW n \in Seq(Parts), NEW f \in Seq(Parts), NEW sep \in Parts, ~HasPart(n, sep)
  PROVE  CutAfter(n, sep, f)
<1> DEFINE method == n \o <<sep>> \o f
           cut == {i \in DOMAIN method : method[i] = sep /\ \A j \in 1..(i - 1) : method[j] # sep}
<1>1. /\ \A i \in 1..Len(n) : method[i] = n[i]
      /\ method[Len(n) + 1] = sep
  BY Joined
<1>2. /\ SubSeq(method, 1, (Len(n) + 1) - 1) = n
      /\ SubSeq(method, (Len(n) + 1) + 1, Len(method)) = f
  BY Joined
<1>3. /\ Len(method) = Len(n) + 1 + Len(f) /\ DOMAIN method = 1..Len(method) /\ method \in Seq(Parts)
      /\ Len(n) \in Nat /\ Len(f) \in Nat /\ DOMAIN n = 1..Len(n) /\ DOMAIN f = 1..Len(f)
  BY Joined
<1> HIDE DEF method
<1>4. \A i \in cut : /\ i \in 1..Len(method) /\ method[i] = sep
                     /\ \A j \in 1..(i - 1) : method[j] # sep
  BY <1>3
<1>5. \A i \in 1..Len(method) : method[i] = sep /\ (\A j \in 1..(i - 1) : method[j] # sep) => i \in cut
  BY <1>3
<1> HIDE DEF cut
<1>7. cut = {Len(n) + 1}
  <2>1. \A i \in 1..Len(n) : method[i] # sep
    BY <1>1, <1>3 DEF HasPart
  <2>2. Len(n) + 1 \in cut
    <3>1. Len(n) + 1 \in 1..Len(method) /\ (Len(n) + 1) - 1 = Len(n)
      BY <1>3
    <3> QED BY <1>1, <1>5, <2>1, <3>1, Zenon
  <2>3. ASSUME NEW i \in cut PROVE i = Len(n) + 1
    <3>1. i \in 1..Len(method)
      BY <1>4, Zenon
    <3>2. i \in Nat /\ i # 0 /\ (Len(n) + 1 < i => Len(n) + 1 \in 1..(i - 1))
      BY <1>3, <3>1
    <3>3. i \notin 1..Len(n) /\ ~(Len(n) + 1 < i)
      BY <1>1, <1>4, <2>1, <3>2
    <3> QED BY <1>3, <3>2, <3>3
  <2> QED BY <2>2, <2>3
<1> QED BY <1>2, <1>7, Zenon DEF cut, method, CutAfter, Word, Cut, Before, After

(* What callback looks up.                                                 *)
Lookup(m, g) == IF m \in Names /\ g \in DOMAIN services[m].callbacks THEN {services[m].callbacks[g]} ELSE {}

LEMMA FoundAt ==
  ASSUME NEW w
  PROVE  /\ Cut(w, "_") = {} => Reg!Found(w) = {}
         /\ Cut(w, "_") # {} => \E i \in Cut(w, "_") : Reg!Found(w) = Lookup(Before(w, i), After(w, i))
<1>1. Reg!Found(w) = IF Cut(w, "_") = {} THEN {}
                     ELSE Lookup(Before(w, CHOOSE i \in Cut(w, "_") : TRUE), After(w, CHOOSE i \in Cut(w, "_") : TRUE))
  BY Zenon DEF Reg!Found, Cut, Before, After, Lookup
<1>2. Cut(w, "_") # {} => (CHOOSE i \in Cut(w, "_") : TRUE) \in Cut(w, "_")
  OBVIOUS
<1> QED BY <1>1, <1>2, Zenon

LEMMA NamesAreWords ==
  ASSUME NEW n \in Names, NEW f \in AllMethods
  PROVE  n \in Seq(STRING) /\ f \in Seq(STRING)
<1>1. PICK r \in Receivers : f \in DOMAIN r
  BY DEF AllMethods
<1> QED BY <1>1, MethodsAssumption

(* A name without the separator is found by what follows it.               *)
LEMMA FoundPlain ==
  ASSUME NEW n \in Names, NEW f \in AllMethods, ~HasPart(n, "_")
  PROVE  Reg!Found(Word(n, "_", f)) = Lookup(n, f)
<1> DEFINE Parts == STRING \cup {"_"}
<1>1. n \in Seq(Parts) /\ f \in Seq(Parts) /\ "_" \in Parts
  <2>1. STRING \subseteq Parts /\ "_" \in Parts
    OBVIOUS
  <2> HIDE DEF Parts
  <2> QED BY <2>1, NamesAreWords, WiderSeq
<1> HIDE DEF Parts
<1>2. /\ Cut(Word(n, "_", f), "_") = {Len(n) + 1}
      /\ Before(Word(n, "_", f), Len(n) + 1) = n /\ After(Word(n, "_", f), Len(n) + 1) = f
  <2>1. CutAfter(n, "_", f)
    BY <1>1, CutPoint
  <2> QED BY <2>1, Zenon DEF CutAfter
<1>3. \E i \in Cut(Word(n, "_", f), "_") :
        Reg!Found(Word(n, "_", f)) = Lookup(Before(Word(n, "_", f), i), After(Word(n, "_", f), i))
  BY <1>2, FoundAt
<1> QED BY <1>2, <1>3

(* Whatever is found belongs to a name without it.                         *)
LEMMA FoundReading ==
  ASSUME RegInv, NEW n \in Names, NEW f \in AllMethods, Reg!Found(Word(n, "_", f)) # {}
  PROVE  \E m \in Names, g \in AllMethods : ~HasPart(m, "_") /\ Word(m, "_", g) = Word(n, "_", f)
<1> DEFINE sep == "_"
           w == Word(n, sep, f)
<1>1. PICK i \in Cut(w, sep) : Reg!Found(w) = Lookup(Before(w, i), After(w, i))
  BY FoundAt, Zenon
<1>2. Before(w, i) \in Names /\ After(w, i) \in DOMAIN services[Before(w, i)].callbacks
  BY <1>1, Zenon DEF Lookup
<1>3. After(w, i) \in AllMethods
  BY <1>2 DEF RegInv, Recorded
<1>4. w \in Seq(STRING \cup {sep}) /\ DOMAIN w = 1..Len(w)
  <2> DEFINE Parts == STRING \cup {sep}
  <2>1. STRING \subseteq Parts /\ sep \in Parts
    OBVIOUS
  <2> HIDE DEF Parts
  <2>2. n \in Seq(Parts) /\ f \in Seq(Parts)
    BY <2>1, NamesAreWords, WiderSeq
  <2> HIDE DEF sep
  <2>3. w \in Seq(Parts) /\ DOMAIN w = 1..Len(w)
    BY <2>1, <2>2, Joined DEF w, Word
  <2> QED BY <2>3 DEF Parts
<1>5. i \in 1..Len(w) /\ w[i] = sep /\ \A j \in 1..(i - 1) : w[j] # sep
  <2> HIDE DEF w
  <2> QED BY <1>4 DEF Cut
<1> HIDE DEF w
<1>6. Word(Before(w, i), w[i], After(w, i)) = w
  BY <1>4, <1>5, TakenApart
<1>7. ~HasPart(Before(w, i), sep)
  <2>1. DOMAIN Before(w, i) = 1..(i - 1) /\ \A k \in 1..(i - 1) : Before(w, i)[k] = w[k]
    BY <1>4, <1>5, TakenApart
  <2> QED BY <1>5, <2>1 DEF HasPart
<1> QED BY <1>2, <1>3, <1>5, <1>6, <1>7, Zenon DEF w

(* What the receivers expose is what is looked up.                         *)
LEMMA LookupExposed ==
  ASSUME RegInv, NEW n \in Names, NEW f \in AllMethods
  PROVE  /\ Lookup(n, f) = Reg!Exposed(n, f)
         /\ \A cb \in Lookup(n, f) : \E r \in Receivers : f \in DOMAIN r /\ cb = Reg!newCallback(r[f])
<1> DEFINE k == Reg!Last(Reg!Callable(n, f))
<1>1. Recorded(n)
  BY DEF RegInv
<1>2. f \in DOMAIN services[n].callbacks <=> Reg!Callable(n, f) # {}
  BY <1>1 DEF Recorded
<1>3. ASSUME Reg!Callable(n, f) # {}
      PROVE  /\ services[n].callbacks[f] = Reg!newCallback(latest[n][k][f])
             /\ latest[n][k] \in Receivers /\ f \in DOMAIN latest[n][k]
  <2>1. k \in Reg!Callable(n, f) /\ services[n].callbacks[f] = Reg!newCallback(latest[n][k][f])
    BY <1>1, <1>2, <1>3 DEF Recorded
  <2>2. k \in DOMAIN latest[n] /\ f \in DOMAIN latest[n][k]
    BY <2>1 DEF Reg!Callable, Reg!Owners
  <2>3. latest[n] \in Seq(Receivers)
    BY DEF RegInv
  <2> QED BY <2>1, <2>2, <2>3
<1> HIDE DEF k
<1>4. Lookup(n, f) = IF Reg!Callable(n, f) = {} THEN {} ELSE {Reg!newCallback(latest[n][k][f])}
  BY <1>2, <1>3, Zenon DEF Lookup
<1>5. Lookup(n, f) = Reg!Exposed(n, f)
  BY <1>4, Zenon DEF Reg!Exposed, k
<1>6. ASSUME NEW cb \in Lookup(n, f) PROVE \E r \in Receivers : f \in DOMAIN r /\ cb = Reg!newCallback(r[f])
  <2>1. Reg!Callable(n, f) # {} /\ cb = Reg!newCallback(latest[n][k][f])
    BY <1>4, <1>6
  <2> QED BY <1>3, <2>1
<1> QED BY <1>5, <1>6

(* A call comes to its end if all that is needed is passed.                *)
LEMMA CallOutcome ==
  ASSUME NEW r \in Receivers, NEW f \in DOMAIN r
  PROVE  Reg!Outcome(Reg!newCallback(r[f])) = "called" <=> Reg!Fixed(Reg!newCallback(r[f])) \in {<<>>, <<"ctx">>}
<1> DEFINE m == r[f]
           cb == Reg!newCallback(m)
           x == Reg!Fixed(cb)
<1>1. /\ m.in \in Seq(STRING) /\ m.variadic \in BOOLEAN
      /\ m.variadic => Len(m.in) > 0 /\ m.in[Len(m.in)] = "other"
  BY MethodsAssumption
<1>2. cb.in = m.in /\ cb.variadic = m.variadic /\ (cb.hasCtx <=> Len(m.in) > 0 /\ m.in[1] = "ctx")
  BY DEF Reg!newCallback, Reg!hasCtx
<1> HIDE DEF m, cb
<1>3. x = IF m.variadic THEN SubSeq(m.in, 1, Len(m.in) - 1) ELSE m.in
  BY <1>2 DEF Reg!Fixed
<1> HIDE DEF x
<1>4. /\ x \in Seq(STRING) /\ Len(x) \in Nat /\ Len(x) = Reg!Required(cb)
      /\ \A i \in 1..Len(x) : x[i] = m.in[i]
  <2>1. CASE m.variadic
    BY <1>1, <1>2, <1>3, <2>1 DEF Reg!Required
  <2>2. CASE ~m.variadic
    BY <1>1, <1>2, <1>3, <2>2 DEF Reg!Required
  <2> QED BY <2>1, <2>2
<1>5. cb.hasCtx <=> Len(x) > 0 /\ x[1] = "ctx"
  <2>1. CASE m.variadic
    <3>1. Len(x) = Len(m.in) - 1 /\ Len(m.in) \in Nat /\ Len(m.in) > 0 /\ Len(x) \in Nat
      BY <1>1, <1>2, <1>4, <2>1 DEF Reg!Required
    <3>2. CASE Len(m.in) = 1
      BY <1>1, <1>2, <2>1, <3>1, <3>2
    <3>3. CASE Len(m.in) # 1
      <4> DEFINE a == Len(x)
                 b == Len(m.in)
      <4>1. a > 0 /\ 1 \in 1..a
        <5>1. a = b - 1 /\ b \in Nat /\ b > 0 /\ b # 1
          BY <3>1, <3>3
        <5> HIDE DEF a, b
        <5> QED BY <5>1
      <4> QED BY <1>2, <1>4, <3>1, <4>1
    <3> QED BY <3>2, <3>3
  <2>2. CASE ~m.variadic
    BY <1>2, <1>3, <2>2
  <2> QED BY <1>1, <2>1, <2>2
<1>6. Reg!Outcome(cb) = "called" <=> Len(x) = IF cb.hasCtx THEN 1 ELSE 0
  <2>1. cb.hasCtx => Len(x) >= 1
    BY <1>4, <1>5
  <2> QED BY <1>4, <2>1 DEF Reg!Outcome, Reg!Passed
<1>7. CASE cb.hasCtx
  <2>1. Len(x) = 1 <=> x = <<"ctx">>
    <3>1. Len(x) = 1 => x = <<x[1]>>
      BY <1>4, Single
    <3>2. Len(<<"ctx">>) = 1
      OBVIOUS
    <3> QED BY <1>5, <1>7, <3>1, <3>2, Zenon
  <2>2. x # <<>>
    BY <1>5, <1>7
  <2> QED BY <1>6, <1>7, <2>1, <2>2 DEF x, cb, m
<1>8. CASE ~cb.hasCtx
  <2>1. Len(x) = 0 <=> x = <<>>
    BY <1>4
  <2>2. x # <<"ctx">>
    <3>1. Len(<<"ctx">>) = 1 /\ <<"ctx">>[1] = "ctx" /\ 1 > 0
      OBVIOUS
    <3> QED BY <1>5, <1>8, <3>1, Zenon
  <2> QED BY <1>6, <1>8, <2>1, <2>2 DEF x, cb, m
<1> QED BY <1>7, <1>8

LEMMA RegSound == RegInv => MethodsFound
<1> SUFFICES ASSUME RegInv, NEW n \in Names, NEW f \in AllMethods
             PROVE  LET found == Reg!Found(Reg!Word(n, f))
                        readings == {r \in Names \X AllMethods :
                                       ~Reg!HasSeparator(r[1]) /\ Reg!Word(r[1], r[2]) = Reg!Word(n, f)}
                    IN /\ found # {} => readings # {}
                       /\ \A r \in readings : found = Reg!Exposed(r[1], r[2])
                       /\ \A cb \in found : Reg!Outcome(cb) = "called" <=> Reg!Fixed(cb) \in {<<>>, <<"ctx">>}
  BY DEF MethodsFound, Reg!MethodsFound, AllMethods, Reg!Methods
<1>1. /\ \A q, x : Reg!Word(q, x) = Word(q, "_", x)
      /\ \A q : Reg!HasSeparator(q) <=> HasPart(q, "_")
  BY DEF Reg!Word, Word, Reg!HasSeparator, HasPart
<1> DEFINE found == Reg!Found(Reg!Word(n, f))
<1>2. ASSUME NEW m \in Names, NEW g \in AllMethods, ~HasPart(m, "_"), Word(m, "_", g) = Word(n, "_", f)
      PROVE  found = Reg!Exposed(m, g) /\ found = Lookup(m, g)
  <2>1. Reg!Found(Word(m, "_", g)) = Lookup(m, g)
    BY <1>2, FoundPlain
  <2>2. Lookup(m, g) = Reg!Exposed(m, g)
    BY LookupExposed
  <2> QED BY <1>1, <1>2, <2>1, <2>2, Zenon
<1>3. ASSUME found # {}
      PROVE  \E m \in Names, g \in AllMethods : ~HasPart(m, "_") /\ Word(m, "_", g) = Word(n, "_", f)
  BY <1>1, <1>3, FoundReading, Zenon
<1>4. ASSUME NEW cb \in found
      PROVE  Reg!Outcome(cb) = "called" <=> Reg!Fixed(cb) \in {<<>>, <<"ctx">>}
  <2>1. PICK m \in Names, g \in AllMethods : ~HasPart(m, "_") /\ Word(m, "_", g) = Word(n, "_", f)
    BY <1>3, <1>4, Zenon
  <2>2. cb \in Lookup(m, g)
    BY <1>2, <1>4, <2>1, Zenon
  <2>3. PICK r \in Receivers : g \in DOMAIN r /\ cb = Reg!newCallback(r[g])
    BY <2>2, LookupExposed, Zenon
  <2> QED BY <2>3, CallOutcome, Zenon
<1> HIDE DEF found
<1>5. ASSUME NEW r \in Names \X AllMethods, ~HasPart(r[1], "_"), Word(r[1], "_", r[2]) = Word(n, "_", f)
      PROVE  found = Reg!Exposed(r[1], r[2])
  <2>1. r[1] \in Names /\ r[2] \in AllMethods
    BY <1>5
  <2> QED BY <1>2, <1>5, <2>1, Zenon
<1>6. ASSUME found # {}
      PROVE  \E r \in Names \X AllMethods : ~HasPart(r[1], "_") /\ Word(r[1], "_", r[2]) = Word(n, "_", f)
  <2>1. PICK m \in Names, g \in AllMethods : ~HasPart(m, "_") /\ Word(m, "_", g) = Word(n, "_", f)
    BY <1>3, <1>6, Zenon
  <2>2. <<m, g>> \in Names \X AllMethods /\ <<m, g>>[1] = m /\ <<m, g>>[2] = g
    OBVIOUS
  <2> QED BY <2>1, <2>2, Zenon
<1> DEFINE readings == {r \in Names \X AllMethods :
                          ~Reg!HasSeparator(r[1]) /\ Reg!Word(r[1], r[2]) = Reg!Word(n, f)}
<1>7. found # {} => readings # {}
  BY <1>1, <1>6, Zenon
<1>8. \A r \in readings : found = Reg!Exposed(r[1], r[2])
  BY <1>1, <1>5, Zenon
<1> QED BY <1>4, <1>7, <1>8, Zenon DEF found

-----------------------------------------------------------------------------
(* The steps of the other parts leave these as they are.                   *)

LEMMA SrvAlways == RpcSpec => []SrvInv
<1>1. RpcInit => SrvInv
  BY SrvInit DEF RpcInit
<1>2. SrvInv /\ [RpcNext]_<<part, rpcVars>> => SrvInv'
  <2>1. [RpcNext]_<<part, rpcVars>> => [Srv!Next]_srvVars
    BY DEF RpcNext, rpcVars
  <2> QED BY <2>1, SrvStep
<1> QED BY <1>1, <1>2, PTL DEF RpcSpec

LEMMA StpAlways == RpcSpec => []StpInv
<1>1. RpcInit => StpInv
  BY StpInit DEF RpcInit
<1>2. StpInv /\ [RpcNext]_<<part, rpcVars>> => StpInv'
  <2>1. [RpcNext]_<<part, rpcVars>> => [Stp!Next]_stpVars
    BY DEF RpcNext, rpcVars
  <2> QED BY <2>1, StpStep
<1> QED BY <1>1, <1>2, PTL DEF RpcSpec

LEMMA BatAlways == RpcSpec => []BatInv
<1>1. RpcInit => BatInv
  BY BatInit DEF RpcInit
<1>2. BatInv /\ [RpcNext]_<<part, rpcVars>> => BatInv'
  <2>1. [RpcNext]_<<part, rpcVars>> => [Bat!Next]_batVars
    BY DEF RpcNext, rpcVars
  <2> QED BY <2>1, BatStep
<1> QED BY <1>1, <1>2, PTL DEF RpcSpec

LEMMA RegAlways == RpcSpec => []RegInv
<1>1. RpcInit => RegInv
  BY RegInit DEF RpcInit
<1>2. RegInv /\ [RpcNext]_<<part, rpcVars>> => RegInv'
  <2>1. [RpcNext]_<<part, rpcVars>> => [Reg!Next]_regVars
    BY DEF RpcNext, rpcVars
  <2> QED BY <2>1, RegStep
<1> QED BY <1>1, <1>2, PTL DEF RpcSpec

(* Notifier and handler: the client learns a subscription's id before the  *)
(* first notification and gets each one once and in order, flushed or      *)
(* written directly; the service is told exactly once that a subscription  *)
(* is over, by unsubscribe or by close.                                    *)
THEOREM SubscriptionsAreSound == RpcSpec => []ServerSubsSound
BY SrvAlways, SrvSound, PTL

(* Once Stop has returned, no connection is served that has not been       *)
(* closed, however many come and go while it runs, and no single request   *)
(* that is called then is let in.                                          *)
THEOREM StopIsComplete == RpcSpec => []StoppedServesNone
<1>1. StpInv => StoppedServesNone
  BY DEF StpInv, StoppedServesNone
<1> QED BY <1>1, StpAlways, PTL

(* batchCallBuffer: whenever the timeout cuts in, the batch is answered in *)
(* one message, with one answer for each call in the order of the calls.   *)
THEOREM BatchAnsweredOnce == RpcSpec => []AnsweredOnce
<1>1. BatInv => AnsweredOnce
  BY DEF BatInv, AnsweredOnce
<1> QED BY <1>1, BatAlways, PTL

(* serviceRegistry: however many receivers are registered under whatever   *)
(* names, what a full name finds is the method of the service before its   *)
(* first separator, of the last receiver there that has it; and it crashes *)
(* if it needs more than a context.                                        *)
THEOREM MethodsAreFound == RpcSpec => []MethodsFound
BY RegAlways, RegSound, PTL

(* The types of all parts of Rpc.                                          *)
THEOREM TypesAlways == RpcSpec => []TypeOK
<1>1. SubInv /\ CliInv /\ SrvInv /\ BatInv /\ StpInv => TypeOK
  BY DEF SubInv, CliInv, SrvInv, BatInv, StpInv, TypeOK
<1> QED BY <1>1, SubAlways, CliAlways, SrvAlways, BatAlways, StpAlways, PTL

=============================================================================
