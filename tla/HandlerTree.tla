---------------------------- MODULE HandlerTree ----------------------------
(***************************************************************************)
(* What becomes of one record in a tree of handlers (log/handler.go), and  *)
(* of the context it is made with (log/logger.go).  The handlers share the *)
(* record: what one of them adds to its context the next one sees.  A      *)
(* context is a sequence of pairs <<key, value>>, a key is a tuple, and a  *)
(* value is [lazy, of].                                                    *)
(*                                                                         *)
(* One goroutine logs one record.  Its calls of Log are a stack: handlers  *)
(* that end with a call of another one (return h.Log(r)) are replaced by   *)
(* it, so that below the innermost call only MultiHandler and              *)
(* FailoverHandler wait, after `next` of their handlers were called.       *)
(***************************************************************************)
EXTENDS Integers, Sequences

CONSTANTS
  Trees,         \* handlers, and all those they are made of
  StreamNames,   \* of streams, and what identifies the error of one
  RecordLevels,
  Prefixes,      \* contexts of loggers
  Arguments      \* what a caller adds: a sequence of values

VARIABLES
  given,     \* <<tree, record>> of the call, <<>> before it
  calls,     \* the calls of Log under way, the innermost last
  record,    \* the record they share
  wrote,     \* what the streams wrote, in order: <<stream, record>>
  evaluated, \* history: for each pass of LazyHandler the places whose functions it called
  err        \* what the last call of Log returned

treeVars == <<given, calls, record, wrote, evaluated, err>>

NoError == "nil"

(* A handler is one of these; h or hs is what it passes the record on to.  *)
Filters == {"lvl", "match lvl", "match"}
Wrapper == {"sync", "caller", "lazy"} \cup Filters
Group == {"multi", "failover"}
Made(h) ==
  \/ h.kind = "stream" /\ h.name \in StreamNames /\ h.works \in BOOLEAN
  \/ h.kind = "discard"
  \/ h.kind \in Wrapper /\ h.h \in Trees
  \/ h.kind \in Group /\ h.hs \in Seq(Trees)

IsSeq(s) == s \in Seq({s[i] : i \in DOMAIN s})

-----------------------------------------------------------------------------
Value(v) == [lazy |-> "no", of |-> v]
Key(k) == <<k>>
NilValue == Value("nil")
OddPair == <<Key("LOG15_ERROR"), Value("normalized")>>
BadLazy == <<Key("LOG15_ERROR"), Value("bad lazy")>>

(* normalize: an argument without a partner gets nil, and the complaint a  *)
(* pair of its own.                                                        *)
normalize(args) ==
  LET pairs == [i \in 1..(Len(args) \div 2) |-> <<Key(args[2 * i - 1].of), args[2 * i]>>] IN
    IF Len(args) % 2 = 0 THEN pairs ELSE pairs \o <<<<Key(args[Len(args)].of), NilValue>>, OddPair>>

newContext(prefix, args) == prefix \o normalize(args)

(* evaluateLazy: a function without arguments and with results is called.  *)
IsLazy(pair) == pair[2].lazy # "no"
Evaluates(pair) == pair[2].lazy \in {"one result", "results"}
Settled(pair) ==
  IF ~IsLazy(pair) THEN pair
  ELSE <<pair[1], Value(IF Evaluates(pair) THEN pair[2].of ELSE "INVALID_LAZY")>>

Refused(ctx) == \E i \in DOMAIN ctx : IsLazy(ctx[i]) /\ ~Evaluates(ctx[i])
Complained(ctx, was) == IF Refused(was) THEN Append(ctx, BadLazy) ELSE ctx

(* Mutant: the value stays in the context.                                 *)
EvaluateLaziesKeeps(ctx) == Complained(ctx, ctx)

(* LazyHandler puts the results in the place of the lazy values.           *)
EvaluateLazies(ctx) == Complained([i \in DOMAIN ctx |-> Settled(ctx[i])], ctx)

(* MatchFilterHandler on a key of the context: the first pair with it.     *)
Matches(ctx, key, value) ==
  LET at == {i \in DOMAIN ctx : ctx[i][1] = key} IN
    at # {} /\ ctx[CHOOSE i \in at : \A j \in at : i <= j][2] = value

-----------------------------------------------------------------------------
Frame(h) == [at |-> h, next |-> 0]
Top == calls[Len(calls)]
Running(kinds) == calls # <<>> /\ Top.at.kind \in kinds

WithCtx(r, ctx) == [lvl |-> r.lvl, ctx |-> ctx]
FailoverError(i, e) == <<<<"failover_err", i - 1>>, Value(e)>>

(* The innermost call returns e; it ends with a call of h; it calls the    *)
(* next of its handlers.                                                   *)
Return(e) == calls' = SubSeq(calls, 1, Len(calls) - 1) /\ err' = e
EndWith(h) == calls' = [calls EXCEPT ![Len(calls)] = Frame(h)] /\ UNCHANGED err
CallNext == /\ calls' = Append([calls EXCEPT ![Len(calls)].next = @ + 1], Frame(Top.at.hs[Top.next + 1]))
            /\ UNCHANGED err

Init == given = <<>> /\ calls = <<>> /\ record = <<>> /\ wrote = <<>> /\ evaluated = <<>> /\ err = NoError

(* logger.write.                                                           *)
Write ==
  /\ given = <<>>
  /\ \E h \in Trees, lvl \in RecordLevels, prefix \in Prefixes, args \in Arguments :
       /\ record' = [lvl |-> lvl, ctx |-> newContext(prefix, args)]
       /\ given' = <<h, record'>>
       /\ calls' = <<Frame(h)>>
  /\ UNCHANGED <<wrote, evaluated, err>>

(* A pass of LazyHandler over the record.                                  *)
Pass ==
  /\ record' = WithCtx(record, EvaluateLazies(record.ctx))
  /\ evaluated' = Append(evaluated, {i \in DOMAIN record.ctx : Evaluates(record.ctx[i])})

(* StreamHandler: a LazyHandler, a SyncHandler and the writer.             *)
Stream ==
  /\ Running({"stream"})
  /\ Pass
  /\ wrote' = IF Top.at.works THEN Append(wrote, <<Top.at.name, record'>>) ELSE wrote
  /\ Return(IF Top.at.works THEN NoError ELSE Top.at.name)
  /\ UNCHANGED given

Discard ==
  /\ Running({"discard"})
  /\ Return(NoError)
  /\ UNCHANGED <<given, record, wrote, evaluated>>

Sync ==
  /\ Running({"sync"})
  /\ EndWith(Top.at.h)
  /\ UNCHANGED <<given, record, wrote, evaluated>>

Caller ==
  /\ Running({"caller"})
  /\ record' = WithCtx(record, Append(record.ctx, <<Key("caller"), Value("site")>>))
  /\ EndWith(Top.at.h)
  /\ UNCHANGED <<given, wrote, evaluated>>

Lazy ==
  /\ Running({"lazy"})
  /\ Pass
  /\ EndWith(Top.at.h)
  /\ UNCHANGED <<given, wrote>>

(* LvlFilterHandler; MatchFilterHandler on the level, or on the context.   *)
Filter ==
  /\ Running(Filters)
  /\ LET h == Top.at
         passes == \/ h.kind = "lvl" /\ record.lvl <= h.max
                   \/ h.kind = "match lvl" /\ record.lvl = h.max
                   \/ h.kind = "match" /\ Matches(record.ctx, h.key, h.value)
     IN IF passes THEN EndWith(h.h) ELSE Return(NoError)
  /\ UNCHANGED <<given, record, wrote, evaluated>>

Multi ==
  /\ Running({"multi"})
  /\ IF Top.next < Len(Top.at.hs) THEN CallNext ELSE Return(NoError)
  /\ UNCHANGED <<given, record, wrote, evaluated>>

(* What failed is noted before the next one is called.                     *)
Failover ==
  /\ Running({"failover"})
  /\ LET failed == Top.next > 0 /\ err # NoError IN
       /\ record' = IF failed THEN WithCtx(record, Append(record.ctx, FailoverError(Top.next, err))) ELSE record
       /\ IF Top.next < Len(Top.at.hs) /\ (Top.next = 0 \/ failed) THEN CallNext
          ELSE Return(IF failed THEN err ELSE NoError)
  /\ UNCHANGED <<given, wrote, evaluated>>

Next ==
  \/ Write
  \/ Stream \/ Discard \/ Sync \/ Caller \/ Lazy \/ Filter \/ Multi \/ Failover

Spec == Init /\ [][Next]_treeVars

-----------------------------------------------------------------------------
(* Whatever tree of handlers a record goes through, each of its functions  *)
(* is called once at most; no stream is handed a lazy value; the pairs the *)
(* record was made with reach every stream first, complete and in their    *)
(* order; and it is said once, and only then, that a lazy value was bad.   *)
FunctionsCalledOnce(r) ==
  \A i \in DOMAIN evaluated : evaluated[i] = IF i = 1 THEN {j \in DOMAIN r.ctx : Evaluates(r.ctx[j])} ELSE {}

Intact(r, got) ==
  /\ got.lvl = r.lvl
  /\ Len(got.ctx) >= Len(r.ctx)
  /\ \A j \in DOMAIN got.ctx : ~IsLazy(got.ctx[j])
  /\ \A j \in DOMAIN r.ctx : got.ctx[j] = Settled(r.ctx[j])
  /\ LET said == {j \in DOMAIN got.ctx \ DOMAIN r.ctx : got.ctx[j] = BadLazy} IN
       IF Refused(r.ctx) THEN \E j \in said : said = {j} ELSE said = {}

(* A failover of streams writes to the first that works and to no other,   *)
(* with the errors of those before it in the context, in their order; it   *)
(* fails if none works, with the last one's error.                         *)
OfStreams(h) == h.kind = "failover" /\ \A i \in DOMAIN h.hs : h.hs[i].kind = "stream"
Errors(hs, k) == [i \in 1..k |-> FailoverError(i, hs[i].name)]
FailedBefore(hs, k) == \A i \in 1..(k - 1) : ~hs[i].works

FailsOver(hs, r) ==
  IF \A i \in DOMAIN hs : ~hs[i].works
    THEN wrote = <<>> /\ err = IF hs = <<>> THEN NoError ELSE hs[Len(hs)].name
    ELSE \E k \in DOMAIN hs :
           /\ hs[k].works /\ FailedBefore(hs, k)
           /\ wrote = <<<<hs[k].name, WithCtx(r, EvaluateLazies(r.ctx) \o Errors(hs, k - 1))>>>>
           /\ err = NoError

TreesSound ==
  given # <<>> =>
    /\ FunctionsCalledOnce(given[2])
    /\ \A i \in DOMAIN wrote : Intact(given[2], wrote[i][2])
    /\ OfStreams(given[1]) /\ calls = <<>> => FailsOver(given[1].hs, given[2])

=============================================================================
