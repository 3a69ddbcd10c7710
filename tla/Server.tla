------------------------------- MODULE Server -------------------------------
(***************************************************************************)
(* rpc.Server (rpc/server.go): the connections that are served, and Stop.  *)
(* Serving itself is an empty function in this commit; connections come    *)
(* and go as trackCodec and untrackCodec have it.  A request over HTTP     *)
(* (serveSingleRequest) has a handler for itself, which it closes.         *)
(***************************************************************************)
EXTENDS Integers

CONSTANTS
  Codecs,   \* connections
  Requests  \* single requests over HTTP

VARIABLES
  serving,    \* s.run = 1
  codecs,     \* s.codecs
  codecState, \* codecState[c]: "new", "served", "refused" or "gone"
  codecOpen,  \* the codecs that have not been closed
  request,    \* request[r]: where serveSingleRequest is
  afterStop        \* history: <<r, "called">> and <<r, "read">> of what is done after Stop

serverStopVars == <<serving, codecs, codecState, codecOpen, request, afterStop>>

RequestStates == {"none", "called", "refused", "let in", "handle", "failed", "answered"}

Init ==
  /\ serving = TRUE /\ codecs = {}
  /\ codecState = [c \in Codecs |-> "new"]
  /\ codecOpen = Codecs
  /\ request = [r \in Requests |-> "none"]
  /\ afterStop = {}

-----------------------------------------------------------------------------
(* Mutant: s.run is not looked at.                                         *)
TrackAlways(c) ==
  /\ codecState[c] = "new"
  /\ codecs' = codecs \cup {c} /\ codecState' = [codecState EXCEPT ![c] = "served"]
  /\ UNCHANGED <<serving, codecOpen, request, afterStop>>

trackCodec(c) ==
  /\ codecState[c] = "new"
  /\ \/ serving /\ codecs' = codecs \cup {c} /\ codecState' = [codecState EXCEPT ![c] = "served"]
     \/ ~serving /\ codecs' = codecs /\ codecState' = [codecState EXCEPT ![c] = "refused"]
  /\ UNCHANGED <<serving, codecOpen, request, afterStop>>

(* The connection ends by itself or because it was closed.                 *)
untrackCodec(c) ==
  /\ codecState[c] = "served"
  /\ codecs' = codecs \ {c} /\ codecState' = [codecState EXCEPT ![c] = "gone"]
  /\ UNCHANGED <<serving, codecOpen, request, afterStop>>

(* Only the first Stop closes the codecs; all under the mutex.             *)
Stop ==
  /\ serving /\ serving' = FALSE
  /\ codecOpen' = codecOpen \ codecs
  /\ UNCHANGED <<codecs, codecState, request, afterStop>>

(* serveSingleRequest: it looks at s.run first, reads, and handles what it *)
(* has read.  An unreadable request is answered with an error, one that    *)
(* has no more input (io.EOF) is not answered.                             *)
Go(r, to) == request' = [request EXCEPT ![r] = to]
Note(r, what) == afterStop' = IF serving THEN afterStop ELSE afterStop \cup {<<r, what>>}

CallSingle(r) == request[r] = "none" /\ Go(r, "called") /\ Note(r, "called")

(* Mutant: s.run is not looked at.                                         *)
LetInAlways(r) == request[r] = "called" /\ Go(r, "let in") /\ UNCHANGED afterStop

LetIn(r) ==
  /\ request[r] = "called"
  /\ Go(r, IF serving THEN "let in" ELSE "refused")
  /\ UNCHANGED afterStop

ReadSingle(r) ==
  /\ request[r] = "let in"
  /\ \E to \in {"handle", "failed", "answered"} : Go(r, to)
  /\ Note(r, "read")

HandleSingle(r) == request[r] = "handle" /\ Go(r, "answered") /\ UNCHANGED afterStop

serveSingleRequest(r) ==
  /\ CallSingle(r) \/ LetIn(r) \/ ReadSingle(r) \/ HandleSingle(r)
  /\ UNCHANGED <<serving, codecs, codecState, codecOpen>>

Next ==
  \/ \E c \in Codecs : trackCodec(c) \/ untrackCodec(c)
  \/ \E r \in Requests : serveSingleRequest(r)
  \/ Stop

Spec == Init /\ [][Next]_serverStopVars

-----------------------------------------------------------------------------
TypeOK ==
  /\ serving \in BOOLEAN /\ codecs \subseteq Codecs /\ codecOpen \subseteq Codecs
  /\ codecState \in [Codecs -> {"new", "served", "refused", "gone"}]
  /\ request \in [Requests -> RequestStates]
  /\ afterStop \subseteq Requests \X {"called", "read"}

(* Stop leaves no connection open: one that was tracked before is closed   *)
(* by it, and one that comes while it runs is either among them or is      *)
(* refused.  Of the single requests none that is called after Stop is let  *)
(* in, and so none is read or answered.                                    *)
StoppedServesNone ==
  /\ ~serving => \A c \in Codecs : codecState[c] = "served" => c \notin codecOpen
  /\ \A r \in Requests : <<r, "called">> \in afterStop => request[r] \in {"called", "refused"}

(* What the comment of Stop says: it stops reading new requests.  A single *)
(* request that was let in before Stop is read after it.                   *)
StopReadsNoMore == \A r \in Requests : <<r, "read">> \notin afterStop

=============================================================================
