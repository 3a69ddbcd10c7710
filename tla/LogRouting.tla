----------------------------- MODULE LogRouting -----------------------------
(***************************************************************************)
(* Where records go while loggers are made and their handlers exchanged    *)
(* (log/logger.go, log/handler_go14.go), into a stream that one goroutine  *)
(* at a time writes to (SyncHandler) or into a buffered handler, whose own *)
(* goroutine passes them on (BufferedHandler of such a stream).            *)
(*                                                                         *)
(* A new logger's handler is its parent's: it follows what becomes of it   *)
(* until it is given one of its own.  The handler of a logger is loaded    *)
(* atomically, one logger after the other up to one with a handler of its  *)
(* own.  Root has no handler until it is given one: a record that comes to *)
(* it before panics, and a panic ends the program.  A record is            *)
(* <<writer, number>>.                                                     *)
(***************************************************************************)
EXTENDS Integers, Sequences, FiniteSets

CONSTANTS
  Loggers, Root,       \* Root is one of them
  Streams, Buffered,   \* handlers: streams, and the one that is buffered
  Writers,
  bufSize,
  MaxRecords           \* bound: records of a writer

Handlers == Streams \cup {Buffered}
None == "none"
Empty == "empty"

VARIABLES
  handler,   \* handler[g]: a handler, the logger it follows, Empty, or None before it is made
  writer,    \* writer[w]: where w is in write, and how many records it has begun
  lock,      \* lock[s]: who is in the SyncHandler of the stream
  queue,     \* the buffered handler's channel
  held,      \* the record its goroutine has taken, or <<>>
  written,   \* written[s]: what the stream has written; Buffered has a stream of its own
  sent,      \* history: what went into the channel, in order
  saw        \* history: the handlers in force, since the call, for its logger and those it followed

routeVars == <<handler, writer, lock, queue, held, written, sent, saw>>

(* The loggers that g follows, itself among them: the least set with g     *)
(* that is closed under following.                                         *)
Closed(h, G) == \A a \in G : h[a] \in Loggers => h[a] \in G
Above(h, g) == {a \in Loggers : \A G \in SUBSET Loggers : g \in G /\ Closed(h, G) => a \in G}
InForce(h, g) == {h[a] : a \in Above(h, g)} \cap Handlers

Init ==
  /\ handler = [g \in Loggers |-> IF g = Root THEN Empty ELSE None]
  /\ writer = [w \in Writers |-> [pc |-> "idle", at |-> None, n |-> 0]]
  /\ lock = [s \in Handlers |-> None]
  /\ queue = <<>> /\ held = <<>>
  /\ written = [s \in Handlers |-> <<>>]
  /\ sent = <<>>
  /\ saw = [w \in Writers |-> {}]

(* The handlers a writer may have met: those in force for its loggers now  *)
(* are added whenever a handler is exchanged.                              *)
Saw(h) == saw' = [w \in Writers |->
            IF writer[w].pc = "load" THEN saw[w] \cup InForce(h, writer[w].at) ELSE saw[w]]

(* logger.New.                                                             *)
New(p, g) ==
  /\ handler[p] # None /\ handler[g] = None
  /\ handler' = [handler EXCEPT ![g] = p]
  /\ UNCHANGED <<writer, lock, queue, held, written, sent, saw>>

SetHandler(g, h) ==
  /\ handler[g] # None
  /\ handler' = [handler EXCEPT ![g] = h]
  /\ Saw(handler')
  /\ UNCHANGED <<writer, lock, queue, held, written, sent>>

Go(w, pc) == writer' = [writer EXCEPT ![w].pc = pc]

Call(w, g) ==
  /\ writer[w].pc = "idle" /\ writer[w].n < MaxRecords /\ handler[g] # None
  /\ writer' = [writer EXCEPT ![w] = [pc |-> "load", at |-> g, n |-> @.n + 1]]
  /\ saw' = [saw EXCEPT ![w] = InForce(handler, g)]
  /\ UNCHANGED <<handler, lock, queue, held, written, sent>>

(* swapHandler.Log; the zero swapHandler has nothing to load.              *)
Reached(h) ==
  CASE h \in Loggers -> "load"
    [] h = Empty -> "panicked"
    [] h = Buffered -> "send"
    [] OTHER -> "lock"

Load(w) ==
  /\ writer[w].pc = "load"
  /\ LET h == handler[writer[w].at] IN writer' = [writer EXCEPT ![w].at = h, ![w].pc = Reached(h)]
  /\ UNCHANGED <<handler, lock, queue, held, written, sent, saw>>

Record(w) == <<w, writer[w].n>>

Lock(w) ==
  /\ writer[w].pc = "lock" /\ lock[writer[w].at] = None
  /\ lock' = [lock EXCEPT ![writer[w].at] = w]
  /\ Go(w, "write")
  /\ UNCHANGED <<handler, queue, held, written, sent, saw>>

Write(w) ==
  /\ writer[w].pc = "write"
  /\ written' = [written EXCEPT ![writer[w].at] = Append(@, Record(w))]
  /\ lock' = [lock EXCEPT ![writer[w].at] = None]
  /\ Go(w, "idle")
  /\ UNCHANGED <<handler, queue, held, sent, saw>>

(* Mutant: a record that finds the channel full is dropped.                *)
SendOrDrop(w) ==
  /\ writer[w].pc = "send"
  /\ queue' = IF Len(queue) < bufSize THEN Append(queue, Record(w)) ELSE queue
  /\ sent' = Append(sent, Record(w))
  /\ Go(w, "idle")
  /\ UNCHANGED <<handler, lock, held, written, saw>>

(* ChannelHandler waits while the channel is full.                         *)
Send(w) ==
  /\ writer[w].pc = "send" /\ Len(queue) < bufSize
  /\ queue' = Append(queue, Record(w))
  /\ sent' = Append(sent, Record(w))
  /\ Go(w, "idle")
  /\ UNCHANGED <<handler, lock, held, written, saw>>

(* The buffered handler's goroutine.                                       *)
Take ==
  /\ held = <<>> /\ queue # <<>>
  /\ held' = Head(queue)
  /\ queue' = Tail(queue)
  /\ UNCHANGED <<handler, writer, lock, written, sent, saw>>

PassOn ==
  /\ held # <<>>
  /\ written' = [written EXCEPT ![Buffered] = Append(@, held)]
  /\ held' = <<>>
  /\ UNCHANGED <<handler, writer, lock, queue, sent, saw>>

WriterStep(w) == Load(w) \/ Lock(w) \/ Write(w) \/ Send(w)

Running == \A w \in Writers : writer[w].pc # "panicked"

Next ==
  /\ Running
  /\ \/ \E p, g \in Loggers : New(p, g)
     \/ \E g \in Loggers, h \in Handlers : SetHandler(g, h)
     \/ \E w \in Writers : (\E g \in Loggers : Call(w, g)) \/ WriterStep(w)
     \/ Take \/ PassOn

Spec == Init /\ [][Next]_routeVars

-----------------------------------------------------------------------------
Held == IF held = <<>> THEN <<>> ELSE <<held>>
On(s, r) == \E i \in DOMAIN s : s[i] = r

(* What the buffered handler passes on is what was put into its channel,   *)
(* in that order; the records of one writer stay in order wherever they    *)
(* go; and a record is written once and to one place, which was in force   *)
(* during the call for its logger or for one that it followed.             *)
PassedOn == sent = written[Buffered] \o Held \o queue

InOrder(s) == \A i, j \in DOMAIN s : i < j /\ s[i][1] = s[j][1] => s[i][2] < s[j][2]

Over(w, n) == n < writer[w].n \/ (n = writer[w].n /\ writer[w].pc = "idle")
WrittenOnce ==
  \A w \in Writers, n \in 1..MaxRecords :
    LET streams == {s \in Streams : On(written[s], <<w, n>>)} IN
      IF On(sent, <<w, n>>)
        THEN Over(w, n) /\ streams = {}
        ELSE IF Over(w, n) THEN \E s \in Streams : streams = {s} ELSE streams = {}

HandlerWasInForce ==
  \A w \in Writers : writer[w].pc \in {"lock", "write", "send"} => writer[w].at \in saw[w]

(* Only root is ever without a handler, and only until it is given one: no *)
(* record ends the program after that, whatever loggers were made and      *)
(* given before, and whichever followed root then.                         *)
PanicsUnconfigured ==
  /\ \A g \in Loggers : handler[g] = Empty => g = Root
  /\ ~Running => handler[Root] = Empty

RecordsDelivered ==
  /\ PassedOn /\ InOrder(sent) /\ \A s \in Handlers : InOrder(written[s])
  /\ WrittenOnce /\ HandlerWasInForce

RecordsRouted == RecordsDelivered /\ PanicsUnconfigured

=============================================================================
