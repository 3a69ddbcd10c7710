------------------------------- MODULE MCLog -------------------------------
(***************************************************************************)
(* The log package for TLC, one part at a time: a GlogHandler with two       *)
(* loggers, two call sites, and rulesets that are empty, bad, ineffective, *)
(* overlapping or in another order; two loggers whose handlers are exchanged while two goroutines log; and  *)
(* one record in every small tree of handlers.                             *)
(***************************************************************************)
EXTENDS LogHandlers, TLC

CONSTANTS a, b

VARIABLE part

R(ss, lvl) == [ok |-> TRUE, sites |-> ss, level |-> lvl]
Bad == [ok |-> FALSE, sites |-> {}, level |-> 0]

MCRulesets ==
  {<<>>, <<R({a}, 4), Bad>>, <<R({a, b}, 0)>>, <<R({a}, 1), R({a, b}, 4)>>, <<R({b}, 2)>>}

LoggerSymmetry == Permutations(Loggers)

V(v) == [lazy |-> "no", of |-> v]
L(kind, v) == [lazy |-> kind, of |-> v]
S(name, works) == [kind |-> "stream", name |-> name, works |-> works]

(* Trees: streams that work or fail, under every handler, two deep (of the *)
(* two handlers of a group one is a leaf); and failovers of one to three   *)
(* streams.                                                                *)
Leaves == {S("a", TRUE), S("b", FALSE), [kind |-> "discard"]}
Around(hs) ==
  {[kind |-> k, max |-> IF k = "lvl" THEN 3 ELSE 4, h |-> h] : h \in hs, k \in {"lvl", "match lvl"}}
  \cup {[kind |-> k, h |-> h] : h \in hs, k \in {"sync", "caller", "lazy"}}
  \cup {[kind |-> "match", key |-> <<"k">>, value |-> V(v), h |-> h] : h \in hs, v \in {"v", "nil"}}
  \cup {[kind |-> k, hs |-> <<h, leaf>>] : h \in hs, leaf \in Leaves, k \in {"multi", "failover"}}
  \cup {[kind |-> k, hs |-> <<leaf, h>>] : h \in hs, leaf \in Leaves, k \in {"multi", "failover"}}
StreamLists ==
  UNION {{[i \in 1..n |-> S(<<"a", "b", "c">>[i], works[i])] : works \in [1..n -> BOOLEAN]} : n \in 1..3}
MCTrees ==
  LET once == Leaves \cup Around(Leaves) IN
    once \cup Around(once)
    \cup {[kind |-> "failover", hs |-> hs] : hs \in StreamLists} \cup {S(n, w) : n \in {"a", "b", "c"}, w \in BOOLEAN}

(* Records: of a logger with or without a context, with even and odd       *)
(* arguments, some of them lazy.                                           *)
MCPrefixes == {<<>>, <<<<<<"p">>, L("one result", "now")>>>>}
MCArguments ==
  {<<>>, <<V("k")>>, <<V("k"), V("v")>>, <<V("k"), L("results", "v"), V("l"), L("not func", "f")>>,
   <<V("l"), L("args", "g"), V("k")>>}

MCInit ==
  /\ Init /\ Routing!Init /\ Tree!Init
  /\ part \in {"filter", "routes", "tree"}

MCNext ==
  \/ part = "filter" /\ Next /\ UNCHANGED <<part, routes, treeVars>>
  \/ part = "routes" /\ Routing!Next /\ UNCHANGED <<part, treeVars, vars>>
  \/ part = "tree" /\ Tree!Next /\ UNCHANGED <<part, routes, vars>>

MCSpec == MCInit /\ [][MCNext]_<<part, routes, treeVars, vars>>

=============================================================================
