---------------------------- MODULE LogHandlers ----------------------------
(***************************************************************************)
(* The parts of package log side by side: the GlogHandler of               *)
(* Glog, the loggers, streams and buffered handler of LogRouting, and one  *)
(* record in a tree of handlers of HandlerTree.                            *)
(***************************************************************************)
EXTENDS Glog

CONSTANTS
  Followers,             \* the loggers of LogRouting
  Root,                  \* the first of them
  Streams, Buffered,     \* their handlers
  Writers, bufSize,
  MaxRecords,            \* bound: records of a writer
  Trees, StreamNames,    \* the handlers of HandlerTree
  Prefixes, Arguments    \* and what its records are made of

VARIABLES
  handler, writer, lock, queue, held, written, sent, saw,
  given, calls, record, wrote, evaluated, err

Routing == INSTANCE LogRouting WITH Loggers <- Followers

routes == <<handler, writer, lock, queue, held, written, sent, saw>>

(* A logger is no handler of its own, there is one root, and having no     *)
(* handler is neither.                                                     *)
ASSUME RoutingAssumption ==
  /\ Root \in Followers /\ MaxRecords \in Nat
  /\ Buffered \notin Streams /\ Followers \cap Routing!Handlers = {}
  /\ {Routing!None, Routing!Empty} \cap (Followers \cup Routing!Handlers) = {}

RouteSpec == Routing!Spec

Tree == INSTANCE HandlerTree

treeVars == <<given, calls, record, wrote, evaluated, err>>

ASSUME TreesAssumption ==
  /\ \A h \in Trees : Tree!Made(h)
  /\ Tree!NoError \notin StreamNames
  /\ \A p \in Prefixes : Tree!IsSeq(p)
  /\ \A args \in Arguments : Tree!IsSeq(args)

TreeSpec == Tree!Spec

(* See LogRouting: each record is written once and to a handler in force,  *)
(* in the order it was sent (swapHandler, ChannelHandler, BufferedHandler),*)
(* and none ends the program once root has a handler (root.go).            *)
RecordsRouted == Routing!RecordsRouted

(* See HandlerTree: filters, failover and lazy values lose and repeat      *)
(* nothing of a record, and a failover of streams takes the first that     *)
(* works (LazyHandler, FailoverHandler, MultiHandler).                     *)
TreesSound == Tree!TreesSound

=============================================================================
