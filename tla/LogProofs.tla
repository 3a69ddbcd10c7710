----------------------------- MODULE LogProofs -----------------------------
(***************************************************************************)
(* Proofs about the concurrent parts of package log.  Of Glog, for any     *)
(* number of loggers, call sites and rules: the cache always agrees with   *)
(* the patterns, and what Log decides from three unsynchronised readings   *)
(* was justified during the call.  Of LogRouting, for any loggers,         *)
(* streams, writers and size of the buffer: every record is written once,  *)
(* in order, and to a handler that was in force.  Of HandlerTree, for any  *)
(* tree of handlers: a lazy value is computed once, a record written is    *)
(* the one given, and streams fail over in their order.                    *)
(***************************************************************************)
EXTENDS LogHandlers, TLAPS, FiniteSetTheorems, WellFoundedInduction, SequenceTheorems

(* A call under way has noted what is in force now.                        *)
Noted ==
  \A l \in Loggers : Active(l) => /\ level \in sawLevel[l]
                                  /\ RuleLevel(patterns, rec[l].site) \in sawRule[l]

(* A call past the verbosity was refused by it.                            *)
Refused ==
  \A l \in Loggers : lpc[l] \in {"override", "lookup", "calculate"} =>
                       \E v \in sawLevel[l] : v < rec[l].lvl

IInv == TypeOK /\ CacheSound /\ Noted /\ Refused /\ (override # 0 => made)

-----------------------------------------------------------------------------
(* A set of indices has a least element: of the intervals 1..x one is      *)
(* minimal, because inclusion of finite sets is well founded.              *)
LEMMA LeastElement ==
  ASSUME NEW n \in Nat, NEW S \in SUBSET (1..n), S # {}
  PROVE  \E x \in S : \A y \in S : x <= y
  <1> DEFINE T == {1..x : x \in S}
             R == StrictSubsetOrdering(1..n)
  <1>1. IsWellFoundedOn(R, SUBSET (1..n))
    <2>1. IsFiniteSet(1..n)
      BY FS_Interval
    <2>2. FiniteSubsetsOf(1..n) = SUBSET (1..n)
      BY <2>1, FS_FiniteSubsetsOfFinite
    <2> QED
      BY <2>2, FS_StrictSubsetOrderingWellFounded
  <1>2. T \subseteq SUBSET (1..n) /\ T # {}
    <2>1. \A x \in S : 1..x \subseteq 1..n
      BY SMT
    <2>2. PICK x0 \in S : TRUE
      OBVIOUS
    <2>3. 1..x0 \in T
      BY Zenon
    <2>4. ASSUME NEW t \in T PROVE t \in SUBSET (1..n)
      BY <2>1, Zenon
    <2> QED
      BY <2>3, <2>4, Zenon
  <1>3. \E t \in T : \A u \in T : ~(<<u, t>> \in R)
    <2> HIDE DEF T, R
    <2> QED
      BY <1>1, <1>2, WFMin
  <1>4. PICK x \in S : \A y \in S : ~(<<1..y, 1..x>> \in R)
    BY <1>3, Zenon
  <1>5. ASSUME NEW y \in S, y < x PROVE FALSE
    <2>1. 1..y \subseteq 1..x /\ x \in 1..x /\ x \notin 1..y
      BY <1>5
    <2>2. 1..y \in SUBSET (1..n) /\ 1..x \in SUBSET (1..n)
      BY SMT
    <2>3. <<1..y, 1..x>> \in R
      BY <2>1, <2>2 DEF StrictSubsetOrdering
    <2> QED
      BY <2>3, <1>4
  <1> QED
    BY <1>4, <1>5

(* The level of a call site is 0 or that of a rule that counts.            *)
LEMMA RuleLevelNat ==
  ASSUME NEW ps \in Seq(Rule), NEW s
  PROVE  RuleLevel(ps, s) \in Nat
  <1> DEFINE S == Matching(ps, s)
  <1>1. S \in SUBSET (1..Len(ps)) /\ \A i \in S : ps[i].level \in Nat
    <2>1. \A i \in 1..Len(ps) : ps[i].level \in Int
      <3>1. \A i \in 1..Len(ps) : ps[i] \in Rule
        OBVIOUS
      <3> QED
        BY <3>1 DEF Rule
    <2>2. DOMAIN ps = 1..Len(ps)
      OBVIOUS
    <2> QED
      BY <2>1, <2>2 DEF Matching, Effective
  <1>2. CASE S = {}
    BY <1>2 DEF RuleLevel
  <1>3. CASE S # {}
    <2>1. Len(ps) \in Nat
      OBVIOUS
    <2>2. \E i \in S : \A j \in S : i <= j
      BY <1>1, <1>3, <2>1, LeastElement, Zenon
    <2>3. (CHOOSE i \in S : \A j \in S : i <= j) \in S
      BY <2>2, Zenon
    <2> QED
      BY <1>1, <1>3, <2>3 DEF RuleLevel
  <1> QED
    BY <1>2, <1>3

(* When no rule counts, none matches.                                      *)
LEMMA NoOverride ==
  ASSUME NEW ps \in Seq(Rule), Cardinality(Effective(ps)) = 0, NEW s
  PROVE  RuleLevel(ps, s) = 0
  <1>1. IsFiniteSet(Effective(ps))
    <2>1. Effective(ps) \subseteq 1..Len(ps) /\ Len(ps) \in Nat
      BY DEF Effective
    <2>2. IsFiniteSet(1..Len(ps))
      BY <2>1, FS_Interval
    <2> QED
      BY <2>1, <2>2, FS_Subset
  <1>2. Effective(ps) = {}
    BY <1>1, FS_EmptySet
  <1> QED
    BY <1>2 DEF RuleLevel, Matching

-----------------------------------------------------------------------------
LEMMA InitIInv == Init => IInv
  <1> SUFFICES ASSUME Init PROVE IInv
    OBVIOUS
  <1>1. Effective(<<>>) = {}
    BY DEF Effective
  <1>2. override = Cardinality(Effective(patterns))
    BY <1>1, FS_EmptySet DEF Init
  <1>3. <<>> \in Seq(Rule)
    OBVIOUS
  <1>4. TypeOK
    <2>1. backtrace = (location # NoSite)
      BY Zenon DEF Init
    <2>2. made \in BOOLEAN
      BY Zenon DEF Init
    <2>3. patterns \in Seq(Rule) /\ level \in Nat /\ location \in Sites \cup {NoSite}
      BY <1>3 DEF Init
    <2>4. /\ siteCache \in [Sites -> Nat \cup {Uncached}]
          /\ lpc \in [Loggers -> LoggerStates]
          /\ rec \in [Loggers -> [site : Sites \cup {NoSite}, lvl : 0..5]]
          /\ own \in [Loggers -> 0..5]
          /\ sawLevel \in [Loggers -> SUBSET Nat]
          /\ sawRule \in [Loggers -> SUBSET Nat]
          /\ \A l \in Loggers : ~Active(l)
      BY DEF Init, LoggerStates, Active, Uncached
    <2> QED
      BY <1>2, <2>1, <2>2, <2>3, <2>4 DEF TypeOK
  <1> QED
    BY <1>4 DEF Init, IInv, CacheSound, Noted, Refused, Active

(* Every step keeps the types.                                             *)
LEMMA TypeStep == IInv /\ [Next]_vars => TypeOK'
  <1> SUFFICES ASSUME IInv, [Next]_vars PROVE TypeOK'
    OBVIOUS
  <1> USE DEF TypeOK, Active, LoggerStates
  <1>0. TypeOK
    BY DEF IInv
  <1>1. ASSUME NEW v \in Verbosities, Verbosity(v) PROVE TypeOK'
    BY <1>0, <1>1, LevelsAssumption
    DEF Verbosity, NoteLevel, filterVars, traceVars
  <1>2. ASSUME NEW ruleset \in Rulesets, Vmodule(ruleset) PROVE TypeOK'
    <2>1. ruleset \in Seq(Rule)
      BY RulesetsAssumption
    <2>2. \A s : RuleLevel(ruleset, s) \in Nat
      BY <2>1, RuleLevelNat
    <2>3. sawRule' \in [Loggers -> SUBSET Nat]
      BY <1>0, <1>2, <2>2 DEF Vmodule, NoteRules
    <2> QED
      BY <1>0, <1>2, <2>1, <2>3 DEF Vmodule, traceVars, Uncached
  <1>3. ASSUME NEW s \in Sites, BacktraceAt(s) PROVE TypeOK'
    <2>1. backtrace' = (location' # NoSite)
      BY <1>3, SitesAssumption, Zenon DEF BacktraceAt
    <2> QED
      BY <1>0, <1>3, <2>1 DEF BacktraceAt, filterVars, callVars
  <1>4. ASSUME NEW l \in Loggers, Log(l) PROVE TypeOK'
    <2>1. ASSUME NEW s \in Sites, NEW v \in RecordLevels, LogCall(l, s, v) PROVE TypeOK'
      <3>1. RuleLevel(patterns, s) \in Nat
        BY <1>0, RuleLevelNat
      <3> QED
        BY <1>0, <2>1, <3>1, LevelsAssumption DEF LogCall, filterVars, traceVars
    <2>2. ASSUME NEW pc \in LoggerStates, Go(l, pc), Active(l),
                 UNCHANGED <<level, override, patterns, made, traceVars>>,
                 rec' \in [Loggers -> [site : Sites \cup {NoSite}, lvl : 0..5]],
                 \A k \in Loggers : rec'[k].site = rec[k].site,
                 siteCache' \in [Sites -> Nat \cup {Uncached}]
          PROVE  TypeOK'
      BY <1>0, <2>2 DEF Go, traceVars
    <2>3. CASE LoadBacktrace(l)
      BY <1>0, <2>2, <2>3 DEF LoadBacktrace, filterVars
    <2>4. CASE MatchLocation(l)
      BY <1>0, <2>2, <2>4 DEF MatchLocation, filterVars, LvlInfo
    <2>5. CASE LoadLevel(l)
      BY <1>0, <2>2, <2>5 DEF LoadLevel, filterVars
    <2>6. CASE LoadOverride(l)
      BY <1>0, <2>2, <2>6 DEF LoadOverride, filterVars
    <2>7. CASE Lookup(l)
      BY <1>0, <2>2, <2>7 DEF Lookup, Verdict, filterVars
    <2>8. CASE Calculate(l)
      <3>1. RuleLevel(patterns, rec[l].site) \in Nat
        BY <1>0, RuleLevelNat
      <3> QED
        BY <1>0, <2>2, <2>8, <3>1 DEF Calculate, Verdict
    <2>9. CASE Emit(l)
      BY <1>0, <2>2, <2>9 DEF Emit, filterVars
    <2> QED
      BY <1>4, <2>1, <2>3, <2>4, <2>5, <2>6, <2>7, <2>8, <2>9 DEF Log
  <1>5. CASE UNCHANGED vars
    BY <1>0, <1>5 DEF vars, filterVars, traceVars, callVars
  <1> QED
    BY <1>1, <1>2, <1>3, <1>4, <1>5 DEF Next, Configure

(* Only Vmodule changes the patterns, and it empties the cache; only       *)
(* Calculate writes to it.  A call gets to the cache through an override.  *)
LEMMA CacheStep == IInv /\ [Next]_vars => CacheSound' /\ (override # 0 => made)'
  <1> SUFFICES ASSUME IInv, [Next]_vars PROVE CacheSound' /\ (override # 0 => made)'
    OBVIOUS
  <1>0. TypeOK /\ CacheSound /\ (override # 0 => made)
    BY DEF IInv
  <1> USE DEF CacheSound
  <1>1. ASSUME NEW v \in Verbosities, Verbosity(v) PROVE CacheSound' /\ (override # 0 => made)'
    BY <1>0, <1>1 DEF Verbosity, filterVars
  <1>2. ASSUME NEW ruleset \in Rulesets, Vmodule(ruleset)
        PROVE  CacheSound' /\ (override # 0 => made)'
    BY <1>0, <1>2 DEF Vmodule
  <1>3. ASSUME NEW s \in Sites, BacktraceAt(s) PROVE CacheSound' /\ (override # 0 => made)'
    BY <1>0, <1>3 DEF BacktraceAt, filterVars
  <1>4. ASSUME NEW l \in Loggers, Log(l) PROVE CacheSound' /\ (override # 0 => made)'
    <2> USE DEF TypeOK, LoggerStates
    <2>1. ASSUME NEW s \in Sites, NEW v \in RecordLevels, LogCall(l, s, v)
          PROVE  CacheSound' /\ (override # 0 => made)'
      BY <1>0, <2>1 DEF LogCall, filterVars
    <2>2. CASE LoadBacktrace(l)
      BY <1>0, <2>2 DEF LoadBacktrace, Go, filterVars
    <2>3. CASE MatchLocation(l)
      BY <1>0, <2>3 DEF MatchLocation, Go, filterVars
    <2>4. CASE LoadLevel(l)
      BY <1>0, <2>4 DEF LoadLevel, Go, filterVars
    <2>5. CASE LoadOverride(l)
      BY <1>0, <2>5 DEF LoadOverride, Go, filterVars
    <2>6. CASE Lookup(l)
      BY <1>0, <2>6 DEF Lookup, Verdict, Go, filterVars
    <2>7. CASE Calculate(l)
      BY <1>0, <2>7 DEF Calculate, Verdict, Go, Active
    <2>8. CASE Emit(l)
      BY <1>0, <2>8 DEF Emit, Go, filterVars
    <2> QED
      BY <1>4, <2>1, <2>2, <2>3, <2>4, <2>5, <2>6, <2>7, <2>8 DEF Log
  <1>5. CASE UNCHANGED vars
    BY <1>0, <1>5 DEF vars, filterVars
  <1> QED
    BY <1>1, <1>2, <1>3, <1>4, <1>5 DEF Next, Configure

(* What is in force now has been noted, and the verbosity that refused a   *)
(* record as well.                                                         *)
LEMMA NotedStep == IInv /\ [Next]_vars => Noted' /\ Refused'
  <1> SUFFICES ASSUME IInv, [Next]_vars PROVE Noted' /\ Refused'
    OBVIOUS
  <1> USE DEF Noted, Refused, Active
  <1>0. TypeOK /\ Noted /\ Refused
    BY DEF IInv
  <1>1. ASSUME NEW v \in Verbosities, Verbosity(v) PROVE Noted' /\ Refused'
    BY <1>0, <1>1 DEF Verbosity, NoteLevel, filterVars, TypeOK
  <1>2. ASSUME NEW ruleset \in Rulesets, Vmodule(ruleset) PROVE Noted' /\ Refused'
    BY <1>0, <1>2 DEF Vmodule, NoteRules, TypeOK
  <1>3. ASSUME NEW s \in Sites, BacktraceAt(s) PROVE Noted' /\ Refused'
    BY <1>0, <1>3 DEF BacktraceAt, filterVars, callVars
  <1>4. ASSUME NEW l \in Loggers, Log(l) PROVE Noted' /\ Refused'
    <2> USE DEF TypeOK, LoggerStates
    <2>1. ASSUME NEW s \in Sites, NEW v \in RecordLevels, LogCall(l, s, v)
          PROVE  Noted' /\ Refused'
      BY <1>0, <2>1 DEF LogCall, filterVars
    <2>2. CASE LoadBacktrace(l)
      BY <1>0, <2>2 DEF LoadBacktrace, Go, filterVars
    <2>3. CASE MatchLocation(l)
      BY <1>0, <2>3 DEF MatchLocation, Go, filterVars
    <2>4. CASE LoadLevel(l)
      <3>1. Noted'
        BY <1>0, <2>4 DEF LoadLevel, Go, filterVars
      <3>2. Refused'
        BY <1>0, <2>4 DEF LoadLevel, Go, filterVars
      <3> QED BY <3>1, <3>2
    <2>5. CASE LoadOverride(l)
      BY <1>0, <2>5 DEF LoadOverride, Go, filterVars
    <2>6. CASE Lookup(l)
      BY <1>0, <2>6 DEF Lookup, Verdict, Go, filterVars
    <2>7. CASE Calculate(l)
      BY <1>0, <2>7 DEF Calculate, Verdict, Go
    <2>8. CASE Emit(l)
      BY <1>0, <2>8 DEF Emit, Go, filterVars
    <2> QED
      BY <1>4, <2>1, <2>2, <2>3, <2>4, <2>5, <2>6, <2>7, <2>8 DEF Log
  <1>5. CASE UNCHANGED vars
    BY <1>0, <1>5 DEF vars, filterVars, callVars
  <1> QED
    BY <1>1, <1>2, <1>3, <1>4, <1>5 DEF Next, Configure

(* What one step may decide about one call, see VerdictJustified.          *)
Justified(l) ==
  /\ Dropped(l) => /\ \E v \in sawLevel[l] : v < rec[l].lvl
                   /\ \E v \in sawRule[l] : v < rec[l].lvl
  /\ Passed(l) => \E v \in sawLevel[l] \cup sawRule[l] : v >= rec[l].lvl

(* A drop without overrides: then no rule matches, and the level 0 of the  *)
(* call site is below the record's, which is above a verbosity.            *)
LEMMA VerdictStep ==
  ASSUME IInv, [Next]_vars, NEW l \in Loggers
  PROVE  Justified(l)
  <1> USE DEF Justified, Dropped, Passed, TypeOK, LoggerStates
  <1>0. TypeOK /\ CacheSound /\ Noted /\ Refused
    BY DEF IInv
  <1>1. ASSUME lpc' = lpc PROVE Justified(l)
    BY <1>1
  <1>2. ASSUME NEW k \in Loggers, Log(k), k # l PROVE Justified(l)
    <2>1. lpc'[l] = lpc[l]
      BY <1>0, <1>2
      DEF Log, LogCall, LoadBacktrace, MatchLocation, LoadLevel, LoadOverride, Lookup,
          Calculate, Emit, Go
    <2> QED
      BY <2>1
  <1>3. CASE Log(l)
    <2>1. CASE \/ (\E s \in Sites, v \in RecordLevels : LogCall(l, s, v))
               \/ LoadBacktrace(l) \/ MatchLocation(l) \/ Emit(l)
      BY <1>0, <2>1 DEF LogCall, LoadBacktrace, MatchLocation, Emit, Go
    <2>2. CASE LoadLevel(l)
      BY <1>0, <2>2 DEF LoadLevel, Go, Noted, Active
    <2>3. CASE LoadOverride(l)
      <3>1. override = 0 => RuleLevel(patterns, rec[l].site) = 0
        BY <1>0, NoOverride
      <3>2. RuleLevel(patterns, rec[l].site) \in sawRule[l]
        BY <1>0, <2>3 DEF Noted, Active, LoadOverride
      <3>3. \E v \in sawLevel[l] : v < rec[l].lvl
        BY <1>0, <2>3 DEF Refused, LoadOverride
      <3>4. rec[l].lvl > 0
        BY <1>0, <3>3
      <3>5. lpc[l] = "override" /\ lpc'[l] = IF override = 0 THEN "idle" ELSE "lookup"
        BY <1>0, <2>3 DEF LoadOverride, Go
      <3> QED
        BY <1>0, <3>1, <3>2, <3>3, <3>4, <3>5
    <2>4. CASE Lookup(l)
      <3>1. lpc[l] = "lookup"
        BY <2>4 DEF Lookup
      <3>2. RuleLevel(patterns, rec[l].site) \in sawRule[l]
        BY <1>0, <3>1 DEF Noted, Active
      <3>3. \E v \in sawLevel[l] : v < rec[l].lvl
        BY <1>0, <3>1 DEF Refused
      <3>4. rec[l].site \in Sites
        BY <1>0, <3>1 DEF Active
      <3>5. CASE siteCache[rec[l].site] = Uncached
        BY <1>0, <2>4, <3>1, <3>5 DEF Lookup, Go
      <3>6. CASE siteCache[rec[l].site] # Uncached
        <4>1. siteCache[rec[l].site] = RuleLevel(patterns, rec[l].site)
          BY <1>0, <3>4, <3>6 DEF CacheSound
        <4>2. lpc'[l] = Verdict(l, RuleLevel(patterns, rec[l].site))
          BY <1>0, <2>4, <3>6, <4>1 DEF Lookup, Go
        <4>3. RuleLevel(patterns, rec[l].site) \in Nat
          BY <1>0, RuleLevelNat
        <4> QED
          BY <1>0, <3>1, <3>2, <3>3, <4>2, <4>3 DEF Verdict
      <3> QED
        BY <3>5, <3>6
    <2>5. CASE Calculate(l)
      <3>1. lpc[l] = "calculate"
        BY <2>5 DEF Calculate
      <3>2. RuleLevel(patterns, rec[l].site) \in sawRule[l]
        BY <1>0, <3>1 DEF Noted, Active
      <3>3. \E v \in sawLevel[l] : v < rec[l].lvl
        BY <1>0, <3>1 DEF Refused
      <3>4. lpc'[l] = Verdict(l, RuleLevel(patterns, rec[l].site))
        BY <1>0, <2>5 DEF Calculate, Go
      <3>5. RuleLevel(patterns, rec[l].site) \in Nat
        BY <1>0, RuleLevelNat
      <3> QED
        BY <1>0, <3>1, <3>2, <3>3, <3>4, <3>5 DEF Verdict
    <2> QED
      BY <1>3, <2>1, <2>2, <2>3, <2>4, <2>5 DEF Log
  <1>4. Configure => lpc' = lpc
    BY DEF Configure, Verbosity, Vmodule, BacktraceAt
  <1> QED
    BY <1>1, <1>2, <1>3, <1>4 DEF Next, vars

-----------------------------------------------------------------------------
LEMMA Invariance == Spec => []IInv
  <1>1. IInv /\ [Next]_vars => IInv'
    BY TypeStep, CacheStep, NotedStep DEF IInv
  <1> QED
    BY InitIInv, <1>1, PTL DEF Spec

(* Types, and that the number of overrides and the backtrace flag, which   *)
(* Log reads without the lock, agree with the patterns and the location.   *)
THEOREM TypeCorrect == Spec => []TypeOK
  <1>1. IInv => TypeOK
    BY DEF IInv
  <1> QED
    BY Invariance, <1>1, PTL

(* The call-site cache agrees with the patterns in force, however Vmodule  *)
(* and any number of Log calls overlap, and is never written while nil.    *)
THEOREM CacheIsSound == Spec => []CacheSound
  <1>1. IInv => CacheSound
    BY DEF IInv
  <1> QED
    BY Invariance, <1>1, PTL

(* Log drops or passes a record only if a setting that was in force during *)
(* the call says so, although it reads the settings at different moments.  *)
THEOREM VerdictsJustified == Spec => VerdictJustified
  <1>1. IInv /\ [Next]_vars => [\A l \in Loggers : Justified(l)]_vars
    BY VerdictStep
  <1>2. Spec => [][\A l \in Loggers : Justified(l)]_vars
    BY Invariance, <1>1, PTL DEF Spec
  <1> QED
    BY <1>2 DEF VerdictJustified, Justified

-----------------------------------------------------------------------------
(* LogRouting.                                                             *)

Handlers == Routing!Handlers
None == Routing!None
Empty == Routing!Empty
Recs == Writers \X (1..MaxRecords)
PCs == {"idle", "load", "lock", "write", "send", "panicked"}
Places == Followers \cup Handlers \cup {None, Empty}
WriterRecords == [pc : PCs, at : Places, n : 0..MaxRecords]

RouteTypes ==
  /\ handler \in [Followers -> Places]
  /\ writer \in [Writers -> WriterRecords]
  /\ queue \in Seq(Recs) /\ (held = <<>> \/ held \in Recs)
  /\ written \in [Handlers -> Seq(Recs)] /\ sent \in Seq(Recs)
  /\ saw \in [Writers -> SUBSET Handlers]

(* A logger that is followed has been made; where a writer may be, and     *)
(* that it has seen what it may still come to.                             *)
FollowedMade == \A g \in Followers : handler[g] \in Followers => handler[handler[g]] # None
Loading ==
  \A w \in Writers : writer[w].pc = "load" =>
    /\ writer[w].at \in Followers /\ handler[writer[w].at] # None
    /\ Routing!InForce(handler, writer[w].at) \subseteq saw[w]
Delivering ==
  \A w \in Writers :
    /\ writer[w].pc \in {"lock", "write"} => writer[w].at \in Streams
    /\ writer[w].pc = "send" => writer[w].at = Buffered
    /\ writer[w].pc # "idle" => writer[w].n >= 1

RouteInv == RouteTypes /\ FollowedMade /\ Loading /\ Delivering /\ Routing!RecordsDelivered

LEMMA WriterFields ==
  ASSUME RouteTypes, NEW w \in Writers
  PROVE  /\ writer[w].pc \in PCs /\ writer[w].at \in Places
         /\ writer[w].n \in 0..MaxRecords /\ writer[w].n \in Nat /\ writer[w].n <= MaxRecords
<1>1. writer[w] \in WriterRecords
  BY DEF RouteTypes
<1> QED BY <1>1, RoutingAssumption DEF WriterRecords

LEMMA WriterWhole ==
  ASSUME RouteTypes, NEW w \in Writers
  PROVE  writer[w] = [pc |-> writer[w].pc, at |-> writer[w].at, n |-> writer[w].n]
<1>1. writer[w] \in WriterRecords
  BY DEF RouteTypes
<1> QED BY <1>1 DEF WriterRecords

(* A record of these fields is one of a writer.                            *)
LEMMA WriterRecord ==
  ASSUME NEW pc \in PCs, NEW at \in Places, NEW n \in 0..MaxRecords
  PROVE  [pc |-> pc, at |-> at, n |-> n] \in WriterRecords
BY DEF WriterRecords

-----------------------------------------------------------------------------
(* Following.                                                              *)

(* What a logger follows is followed by those that follow the logger.      *)
LEMMA AboveFacts ==
  ASSUME NEW h, NEW g \in Followers
  PROVE  /\ g \in Routing!Above(h, g)
         /\ h[g] \in Followers => Routing!Above(h, h[g]) \subseteq Routing!Above(h, g)
BY DEF Routing!Above, Routing!Closed

LEMMA InForceFacts ==
  ASSUME NEW h, NEW g \in Followers
  PROVE  /\ h[g] \in Handlers => h[g] \in Routing!InForce(h, g)
         /\ h[g] \in Followers => Routing!InForce(h, h[g]) \subseteq Routing!InForce(h, g)
         /\ Routing!InForce(h, g) \subseteq Handlers
BY AboveFacts DEF Routing!InForce, Handlers

(* A new logger changes nothing for the others: none of them follows it.   *)
LEMMA NewFollows ==
  ASSUME RouteTypes, FollowedMade, NEW p \in Followers, NEW g \in Followers, Routing!New(p, g),
         NEW a \in Followers, handler[a] # None
  PROVE  Routing!InForce(handler', a) \subseteq Routing!InForce(handler, a)
<1> DEFINE Made == {b \in Followers : handler[b] # None}
<1>1. handler[g] = None /\ \A b \in Made : handler'[b] = handler[b]
  BY DEF Routing!New, RouteTypes, None
<1>2. ASSUME NEW b \in Routing!Above(handler', a) PROVE b \in Routing!Above(handler, a) /\ b \in Made
  <2>1. ASSUME NEW G \in SUBSET Followers, a \in G, Routing!Closed(handler, G)
        PROVE  b \in G /\ b \in Made
    <3>1. Routing!Closed(handler', G \cap Made)
      BY <1>1, <2>1 DEF FollowedMade, Routing!Closed
    <3>2. G \cap Made \in SUBSET Followers /\ a \in G \cap Made
      BY <2>1
    <3> HIDE DEF Made
    <3> QED BY <3>1, <3>2 DEF Routing!Above
  <2>2. b \in Followers
    BY DEF Routing!Above
  <2>3. Routing!Closed(handler, Made) /\ a \in Made /\ Made \in SUBSET Followers
    BY DEF FollowedMade, Routing!Closed
  <2> HIDE DEF Made
  <2> QED BY <2>1, <2>2, <2>3 DEF Routing!Above
<1> HIDE DEF Made
<1> QED BY <1>1, <1>2 DEF Routing!InForce

-----------------------------------------------------------------------------
(* Records in sequences.                                                   *)

LEMMA AppendOn ==
  ASSUME NEW S, NEW s \in Seq(S), NEW r \in S, NEW x
  PROVE  Routing!On(Append(s, r), x) <=> Routing!On(s, x) \/ x = r
<1>1. /\ Len(Append(s, r)) = Len(s) + 1 /\ DOMAIN Append(s, r) = 1..(Len(s) + 1) /\ DOMAIN s = 1..Len(s)
      /\ Len(s) \in Nat /\ Append(s, r)[Len(s) + 1] = r /\ \A i \in 1..Len(s) : Append(s, r)[i] = s[i]
  BY AppendProperties, LenProperties
<1> QED BY <1>1 DEF Routing!On

LEMMA AppendInOrder ==
  ASSUME NEW s \in Seq(Recs), Routing!InOrder(s), NEW r \in Recs,
         \A i \in DOMAIN s : s[i][1] = r[1] => s[i][2] < r[2]
  PROVE  Routing!InOrder(Append(s, r))
<1>1. /\ Len(Append(s, r)) = Len(s) + 1 /\ DOMAIN Append(s, r) = 1..(Len(s) + 1) /\ DOMAIN s = 1..Len(s)
      /\ Len(s) \in Nat /\ Append(s, r)[Len(s) + 1] = r /\ \A i \in 1..Len(s) : Append(s, r)[i] = s[i]
  BY AppendProperties, LenProperties
<1> SUFFICES ASSUME NEW i \in 1..(Len(s) + 1), NEW j \in 1..(Len(s) + 1), i < j,
                    Append(s, r)[i][1] = Append(s, r)[j][1]
             PROVE  Append(s, r)[i][2] < Append(s, r)[j][2]
  BY <1>1 DEF Routing!InOrder
<1>2. i \in 1..Len(s)
  BY <1>1
<1> QED BY <1>1, <1>2 DEF Routing!InOrder

(* What has been written of the buffered records is a part of those sent.  *)
LEMMA Concatenated ==
  ASSUME NEW S, NEW s \in Seq(S), NEW t \in Seq(S), NEW u \in Seq(S)
  PROVE  /\ s \o t \o u \in Seq(S) /\ Len(s \o t \o u) = Len(s) + Len(t) + Len(u)
         /\ \A i \in 1..Len(s) : (s \o t \o u)[i] = s[i]
         /\ \A i \in 1..Len(t) : (s \o t \o u)[Len(s) + i] = t[i]
         /\ \A i \in 1..Len(u) : (s \o t \o u)[Len(s) + Len(t) + i] = u[i]
<1>1. s \o t \in Seq(S) /\ Len(s \o t) = Len(s) + Len(t) /\ Len(s) \in Nat /\ Len(t) \in Nat /\ Len(u) \in Nat
  BY ConcatProperties, LenProperties
<1>2. /\ \A i \in 1..Len(s) : (s \o t)[i] = s[i]
      /\ \A i \in 1..Len(t) : (s \o t)[Len(s) + i] = t[i]
  BY <1>1, ConcatProperties
<1>3. /\ s \o t \o u \in Seq(S) /\ Len(s \o t \o u) = Len(s \o t) + Len(u)
      /\ \A i \in 1..Len(s \o t) : (s \o t \o u)[i] = (s \o t)[i]
      /\ \A i \in 1..Len(u) : (s \o t \o u)[Len(s \o t) + i] = u[i]
  BY <1>1, ConcatProperties
<1> QED BY <1>1, <1>2, <1>3

LEMMA HeldIs == RouteTypes => Routing!Held \in Seq(Recs)
BY DEF RouteTypes, Routing!Held

LEMMA PartInOrder ==
  ASSUME NEW b \in Seq(Recs), NEW t \in Seq(Recs), NEW u \in Seq(Recs), Routing!InOrder(b \o t \o u)
  PROVE  Routing!InOrder(b)
<1> DEFINE s == b \o t \o u
<1>1. s \in Seq(Recs) /\ Len(s) >= Len(b) /\ \A i \in 1..Len(b) : s[i] = b[i]
  BY Concatenated, LenProperties
<1>2. DOMAIN b = 1..Len(b) /\ DOMAIN s = 1..Len(s) /\ Len(s) \in Nat /\ Len(b) \in Nat
  BY <1>1, LenProperties
<1>3. Routing!InOrder(s)
  OBVIOUS
<1> HIDE DEF s
<1> QED BY <1>1, <1>2, <1>3 DEF Routing!InOrder

(* What a writer is about to write or send is behind all that it has       *)
(* written and sent.                                                       *)
LEMMA OnMeansOver ==
  ASSUME RouteInv, NEW w \in Writers, NEW n \in 1..MaxRecords,
         Routing!On(sent, <<w, n>>) \/ \E s \in Streams : Routing!On(written[s], <<w, n>>)
  PROVE  Routing!Over(w, n)
BY DEF RouteInv, Routing!RecordsDelivered, Routing!WrittenOnce

LEMMA NextRecord ==
  ASSUME RouteInv, NEW w \in Writers, writer[w].pc # "idle"
  PROVE  /\ Routing!Record(w) \in Recs /\ writer[w].n \in 1..MaxRecords
         /\ ~Routing!On(sent, Routing!Record(w)) /\ \A s \in Streams : ~Routing!On(written[s], Routing!Record(w))
         /\ \A i \in DOMAIN sent : sent[i][1] = w => sent[i][2] < writer[w].n
         /\ \A s \in Streams : \A i \in DOMAIN written[s] : written[s][i][1] = w => written[s][i][2] < writer[w].n
<1>1. writer[w].n \in 1..MaxRecords
  <2>1. RouteTypes /\ writer[w].n >= 1
    BY DEF RouteInv, Delivering
  <2> QED BY <2>1, WriterFields, RoutingAssumption
<1>2. Routing!Record(w) = <<w, writer[w].n>> /\ Routing!Record(w) \in Recs
  BY <1>1 DEF Routing!Record, Recs
<1>3. ~Routing!Over(w, writer[w].n)
  BY <1>1 DEF Routing!Over
<1>4. ASSUME NEW m \in 1..MaxRecords, Routing!Over(w, m) PROVE m < writer[w].n
  BY <1>4 DEF Routing!Over
<1>5. ASSUME NEW s \in Seq(Recs), NEW i \in DOMAIN s, s[i][1] = w
      PROVE  s[i][2] \in 1..MaxRecords /\ Routing!On(s, <<w, s[i][2]>>)
  <2>1. s[i] \in Recs
    BY <1>5, ElementOfSeq, LenProperties
  <2>2. s[i] = <<w, s[i][2]>> /\ s[i][2] \in 1..MaxRecords
    BY <2>1, <1>5 DEF Recs
  <2> QED BY <2>2 DEF Routing!On
<1>6. \A i \in DOMAIN sent : sent[i][1] = w => sent[i][2] < writer[w].n
  <2>1. sent \in Seq(Recs)
    BY DEF RouteInv, RouteTypes
  <2> QED BY <1>4, <1>5, <2>1, OnMeansOver
<1>7. ASSUME NEW s \in Streams, NEW i \in DOMAIN written[s], written[s][i][1] = w
      PROVE  written[s][i][2] < writer[w].n
  <2>1. written[s] \in Seq(Recs)
    BY DEF RouteInv, RouteTypes, Handlers, Routing!Handlers
  <2>2. written[s][i][2] \in 1..MaxRecords /\ Routing!On(written[s], <<w, written[s][i][2]>>)
    BY <1>5, <1>7, <2>1
  <2>3. Routing!Over(w, written[s][i][2])
    BY <2>2, OnMeansOver
  <2> QED BY <1>4, <2>2, <2>3
<1> QED BY <1>1, <1>2, <1>3, <1>6, <1>7, OnMeansOver

-----------------------------------------------------------------------------
(* The steps.  Where no record moves, it is enough that no call ends.      *)
Unmoved ==
  /\ UNCHANGED <<queue, held, written, sent>>
  /\ \A w \in Writers, n \in 1..MaxRecords : Routing!Over(w, n)' <=> Routing!Over(w, n)

LEMMA UnmovedStays ==
  ASSUME RouteInv, Unmoved
  PROVE  /\ Routing!PassedOn' /\ Routing!InOrder(sent)' /\ (\A s \in Handlers : Routing!InOrder(written[s]))'
         /\ Routing!WrittenOnce'
<1>1. UNCHANGED <<queue, held, written, sent>>
  BY DEF Unmoved
<1>2. Routing!PassedOn' /\ Routing!InOrder(sent)' /\ (\A s \in Handlers : Routing!InOrder(written[s]))'
  <2>1. Routing!PassedOn /\ Routing!InOrder(sent) /\ \A s \in Handlers : Routing!InOrder(written[s])
    BY DEF RouteInv, Routing!RecordsDelivered, Handlers
  <2>2. Routing!PassedOn' <=> Routing!PassedOn
    BY <1>1 DEF Routing!PassedOn, Routing!Held
  <2>3. Routing!InOrder(sent)' <=> Routing!InOrder(sent)
    BY <1>1 DEF Routing!InOrder
  <2>4. ASSUME NEW s \in Handlers PROVE Routing!InOrder(written[s])'
    <3>1. Routing!InOrder(written[s])
      BY <2>1
    <3>2. written'[s] = written[s]
      BY <1>1
    <3> QED BY <3>1, <3>2 DEF Routing!InOrder
  <2>5. \A s \in Handlers : Routing!InOrder(written[s])'
    BY <2>4
  <2> QED BY <2>1, <2>2, <2>3, <2>5
<1>3. Routing!WrittenOnce'
  <2>1. \A x : Routing!On(sent, x)' <=> Routing!On(sent, x)
    BY <1>1 DEF Routing!On
  <2>2. \A w \in Writers, n \in 1..MaxRecords :
          {s \in Streams : Routing!On(written[s], <<w, n>>)}' = {s \in Streams : Routing!On(written[s], <<w, n>>)}
    BY <1>1 DEF Routing!On
  <2>3. Routing!WrittenOnce
    BY DEF RouteInv, Routing!RecordsDelivered
  <2> QED BY <2>1, <2>2, <2>3 DEF Routing!WrittenOnce, Unmoved
<1> QED BY <1>2, <1>3

LEMMA RouteInit == Routing!Init => RouteInv
<1> SUFFICES ASSUME Routing!Init PROVE RouteInv
  OBVIOUS
<1>1. RouteTypes
  BY RoutingAssumption, EmptySeq DEF Routing!Init, RouteTypes, WriterRecords, PCs, Places, Handlers, None, Empty
<1>2. \A w \in Writers : writer[w].pc = "idle" /\ writer[w].n = 0
  BY DEF Routing!Init
<1>3. FollowedMade
  BY RoutingAssumption DEF Routing!Init, FollowedMade, Handlers
<1>4. Loading /\ Delivering /\ Routing!HandlerWasInForce
  BY <1>2 DEF Loading, Delivering, Routing!HandlerWasInForce
<1>5. sent = <<>> /\ queue = <<>> /\ held = <<>> /\ \A s \in Handlers : written[s] = <<>>
  BY DEF Routing!Init, Handlers
<1>6. Routing!PassedOn /\ Routing!InOrder(sent) /\ \A s \in Handlers : Routing!InOrder(written[s])
  <2>1. written[Buffered] = <<>>
    BY <1>5 DEF Handlers, Routing!Handlers
  <2>2. <<>> \o <<>> \o <<>> = <<>>
    BY EmptySeq, ConcatEmptySeq
  <2>3. Routing!PassedOn
    BY <1>5, <2>1, <2>2 DEF Routing!PassedOn, Routing!Held
  <2> QED BY <1>5, <2>3 DEF Routing!InOrder
<1>7. Routing!WrittenOnce
  <2>1. \A x : ~Routing!On(<<>>, x)
    BY DEF Routing!On
  <2>2. \A s \in Streams : written[s] = <<>>
    BY <1>5 DEF Handlers, Routing!Handlers
  <2>3. \A w \in Writers, n \in 1..MaxRecords : ~Routing!Over(w, n)
    BY <1>2 DEF Routing!Over
  <2> QED BY <1>5, <2>1, <2>2, <2>3 DEF Routing!WrittenOnce
<1> QED BY <1>1, <1>3, <1>4, <1>6, <1>7 DEF RouteInv, Routing!RecordsDelivered, Handlers

LEMMA NewInv ==
  ASSUME RouteInv, NEW p \in Followers, NEW g \in Followers, Routing!New(p, g)
  PROVE  RouteInv'
<1>1. UNCHANGED <<writer, queue, held, written, sent, saw>> /\ handler[p] # None /\ handler[g] = None
      /\ handler' = [handler EXCEPT ![g] = p]
  BY DEF Routing!New, None
<1>2. RouteTypes' /\ Delivering' /\ Routing!HandlerWasInForce'
  BY <1>1 DEF RouteInv, RouteTypes, Places, Delivering, Routing!RecordsDelivered, Routing!HandlerWasInForce
<1>3. FollowedMade'
  BY <1>1, RoutingAssumption DEF RouteInv, RouteTypes, FollowedMade, None
<1>4. Loading'
  <2> SUFFICES ASSUME NEW w \in Writers, writer[w].pc = "load"
               PROVE  /\ writer[w].at \in Followers /\ handler'[writer[w].at] # None
                      /\ Routing!InForce(handler', writer[w].at) \subseteq saw[w]
    BY <1>1 DEF Loading
  <2>1. /\ writer[w].at \in Followers /\ handler[writer[w].at] # None
        /\ Routing!InForce(handler, writer[w].at) \subseteq saw[w]
    BY DEF RouteInv, Loading
  <2> QED BY <1>1, <2>1, NewFollows DEF RouteInv, RouteTypes
<1>5. Unmoved
  BY <1>1 DEF Unmoved, Routing!Over
<1> QED BY <1>2, <1>3, <1>4, <1>5, UnmovedStays DEF RouteInv, Routing!RecordsDelivered, Handlers

LEMMA SetHandlerInv ==
  ASSUME RouteInv, NEW g \in Followers, NEW h \in Handlers, Routing!SetHandler(g, h)
  PROVE  RouteInv'
<1>1. /\ UNCHANGED <<writer, queue, held, written, sent>> /\ handler[g] # None
      /\ handler' = [handler EXCEPT ![g] = h]
      /\ saw' = [w \in Writers |-> IF writer[w].pc = "load"
                                     THEN saw[w] \cup Routing!InForce(handler', writer[w].at) ELSE saw[w]]
  BY DEF Routing!SetHandler, Routing!Saw, None
<1>2. \A a : Routing!InForce(handler', a) \subseteq Handlers
  BY DEF Routing!InForce, Handlers
<1>3. RouteTypes'
  BY <1>1, <1>2 DEF RouteInv, RouteTypes, Places
<1>4. \A w \in Writers : saw[w] \subseteq saw'[w]
  BY <1>1 DEF RouteInv, RouteTypes
<1>5. Delivering' /\ Routing!HandlerWasInForce'
  BY <1>1, <1>4 DEF RouteInv, Delivering, Routing!RecordsDelivered, Routing!HandlerWasInForce
<1>6. h # None /\ h \notin Followers
  BY RoutingAssumption DEF Handlers, None
<1>7. FollowedMade'
  BY <1>1, <1>6 DEF RouteInv, RouteTypes, FollowedMade
<1>8. Loading'
  BY <1>1, <1>6 DEF RouteInv, RouteTypes, Loading
<1>9. Unmoved
  BY <1>1 DEF Unmoved, Routing!Over
<1> QED BY <1>3, <1>5, <1>7, <1>8, <1>9, UnmovedStays DEF RouteInv, Routing!RecordsDelivered, Handlers

(* A writer begins, comes to the handler of the logger it is at, gets the  *)
(* lock of a stream.                                                       *)
LEMMA WalkInv ==
  ASSUME RouteInv, NEW w \in Writers,
         (\E g \in Followers : Routing!Call(w, g)) \/ Routing!Load(w) \/ Routing!Lock(w)
  PROVE  RouteInv'
<1>1. UNCHANGED <<handler, queue, held, written, sent>>
  BY DEF Routing!Call, Routing!Load, Routing!Lock
<1>2. \A v \in Writers \ {w} : writer'[v] = writer[v] /\ saw'[v] = saw[v]
  BY DEF RouteInv, RouteTypes, Routing!Call, Routing!Load, Routing!Lock, Routing!Go
<1>3. FollowedMade'
  BY <1>1 DEF RouteInv, FollowedMade
<1> SUFFICES RouteTypes' /\ Loading' /\ Delivering' /\ Routing!HandlerWasInForce' /\ Unmoved
  BY <1>3, UnmovedStays DEF RouteInv, Routing!RecordsDelivered, Handlers
<1>4. ASSUME NEW g \in Followers, Routing!Call(w, g)
      PROVE  RouteTypes' /\ Loading' /\ Delivering' /\ Routing!HandlerWasInForce' /\ Unmoved
  <2>1. /\ writer[w].pc = "idle" /\ writer[w].n < MaxRecords /\ handler[g] # None
        /\ writer'[w] = [pc |-> "load", at |-> g, n |-> writer[w].n + 1]
        /\ saw'[w] = Routing!InForce(handler, g)
    BY <1>4 DEF RouteInv, RouteTypes, Routing!Call, None
  <2>2. writer[w].n \in Nat /\ writer[w].n + 1 \in 1..MaxRecords
    <3>1. RouteTypes
      BY DEF RouteInv
    <3>2. writer[w].n \in Nat
      BY <3>1, WriterFields
    <3> QED BY <2>1, <3>2, RoutingAssumption
  <2>3. RouteTypes'
    <3>1. writer'[w] \in WriterRecords
      BY <2>1, <2>2 DEF WriterRecords, PCs, Places
    <3>2. saw'[w] \in SUBSET Handlers
      BY <2>1, InForceFacts
    <3>3. writer' \in [Writers -> WriterRecords] /\ saw' \in [Writers -> SUBSET Handlers]
      BY <3>1, <3>2, <1>4 DEF RouteInv, RouteTypes, Routing!Call
    <3> QED BY <1>1, <3>3 DEF RouteInv, RouteTypes
  <2>4. Loading'
    BY <1>1, <1>2, <2>1 DEF RouteInv, Loading
  <2>5. Delivering'
    BY <1>2, <2>1, <2>2 DEF RouteInv, Delivering
  <2>6. Routing!HandlerWasInForce'
    BY <1>2, <2>1 DEF RouteInv, Routing!RecordsDelivered, Routing!HandlerWasInForce
  <2>7. Unmoved
    <3> SUFFICES ASSUME NEW v \in Writers, NEW n \in 1..MaxRecords PROVE Routing!Over(v, n)' <=> Routing!Over(v, n)
      BY <1>1 DEF Unmoved
    <3>1. CASE v = w
      BY <3>1, <2>1, <2>2 DEF Routing!Over
    <3>2. CASE v # w
      BY <3>2, <1>2 DEF Routing!Over
    <3> QED BY <3>1, <3>2
  <2> QED BY <2>3, <2>4, <2>5, <2>6, <2>7
<1>5. CASE Routing!Load(w) \/ Routing!Lock(w)
  <2>1. saw' = saw
    BY <1>5 DEF Routing!Load, Routing!Lock
  <2>2. CASE Routing!Load(w)
    <3> DEFINE h == handler[writer[w].at]
    <3>1. /\ writer[w].pc = "load" /\ writer[w].at \in Followers /\ h # None
          /\ Routing!InForce(handler, writer[w].at) \subseteq saw[w]
      BY <2>2 DEF Routing!Load, RouteInv, Loading
    <3>2. h \in Followers \cup Handlers \cup {Empty} /\ h \in Places
      BY <3>1 DEF RouteInv, RouteTypes, Places
    <3>3. writer'[w] = [pc |-> Routing!Reached(h), at |-> h, n |-> writer[w].n]
      <4>1. RouteTypes /\ writer[w] = [pc |-> writer[w].pc, at |-> writer[w].at, n |-> writer[w].n]
        BY WriterWhole DEF RouteInv
      <4>2. writer' = [writer EXCEPT ![w].at = h, ![w].pc = Routing!Reached(h)]
        BY <2>2 DEF Routing!Load
      <4> QED BY <4>1, <4>2 DEF RouteTypes
    <3>14. /\ h \in Followers => Routing!Reached(h) = "load"
           /\ h = Empty => Routing!Reached(h) = "panicked"
           /\ h = Buffered => Routing!Reached(h) = "send"
           /\ h \in Streams => Routing!Reached(h) = "lock"
      BY RoutingAssumption DEF Routing!Reached, Empty, Routing!Handlers
    <3>4. writer' \in [Writers -> WriterRecords]
      <4>1. writer'[w] \in WriterRecords
        <5>1. writer[w].n \in 0..MaxRecords
          BY WriterFields DEF RouteInv
        <5>2. Routing!Reached(h) \in PCs
          BY <3>2, <3>14 DEF PCs, Handlers, Routing!Handlers
        <5> QED BY <3>2, <3>3, <5>1, <5>2, WriterRecord
      <4> QED BY <4>1, <2>2 DEF RouteInv, RouteTypes, Routing!Load
    <3>5. h \in Followers => handler[h] # None /\ Routing!InForce(handler, h) \subseteq saw[w]
      BY <3>1, InForceFacts DEF RouteInv, FollowedMade
    <3>6. h \notin Followers => h = Empty \/ (h \in saw[w] /\ (h = Buffered \/ h \in Streams))
      BY <3>1, <3>2, InForceFacts DEF Handlers, Routing!Handlers
    <3>7. writer[w].n >= 1
      BY <3>1 DEF RouteInv, Delivering
    <3> HIDE DEF h
    <3>8. RouteTypes'
      BY <1>1, <2>1, <3>4 DEF RouteInv, RouteTypes
    <3>9. Loading'
      BY <1>1, <1>2, <2>1, <3>3, <3>5, <3>6, <3>14 DEF RouteInv, Loading
    <3>10. Delivering'
      BY <1>2, <3>3, <3>5, <3>6, <3>7, <3>14 DEF RouteInv, Delivering
    <3>11. Routing!HandlerWasInForce'
      BY <1>2, <2>1, <3>3, <3>6, <3>14 DEF RouteInv, Routing!RecordsDelivered, Routing!HandlerWasInForce
    <3>12. Unmoved
      BY <1>1, <1>2, <3>1, <3>3, <3>6, <3>14 DEF Unmoved, Routing!Over
    <3> QED BY <3>8, <3>9, <3>10, <3>11, <3>12
  <2>3. CASE Routing!Lock(w)
    <3>1. writer[w].pc = "lock" /\ writer'[w] = [pc |-> "write", at |-> writer[w].at, n |-> writer[w].n]
      BY <2>3, WriterWhole DEF Routing!Lock, Routing!Go, RouteInv, RouteTypes
    <3>2. writer' \in [Writers -> WriterRecords]
      <4>1. writer'[w] \in WriterRecords
        <5>1. writer[w].n \in 0..MaxRecords /\ writer[w].at \in Places /\ "write" \in PCs
          BY WriterFields DEF RouteInv, PCs
        <5> QED BY <3>1, <5>1, WriterRecord
      <4> QED BY <4>1, <2>3 DEF RouteInv, RouteTypes, Routing!Lock, Routing!Go
    <3>3. RouteTypes'
      BY <1>1, <2>1, <3>2 DEF RouteInv, RouteTypes
    <3>4. Loading'
      BY <1>1, <1>2, <2>1, <3>1 DEF RouteInv, Loading
    <3>5. Delivering'
      BY <1>2, <3>1 DEF RouteInv, Delivering
    <3>6. Routing!HandlerWasInForce'
      BY <1>2, <2>1, <3>1 DEF RouteInv, Routing!RecordsDelivered, Routing!HandlerWasInForce
    <3>7. Unmoved
      BY <1>1, <1>2, <3>1 DEF Unmoved, Routing!Over
    <3> QED BY <3>3, <3>4, <3>5, <3>6, <3>7
  <2> QED BY <1>5, <2>2, <2>3
<1> QED BY <1>4, <1>5

(* A writer puts its record into a stream or into the channel.             *)
LEMMA DoneStep ==
  ASSUME RouteInv, NEW w \in Writers, Routing!Write(w) \/ Routing!Send(w)
  PROVE  /\ UNCHANGED <<handler, held, saw>> /\ writer[w].pc # "idle"
         /\ writer'[w] = [pc |-> "idle", at |-> writer[w].at, n |-> writer[w].n]
         /\ \A v \in Writers \ {w} : writer'[v] = writer[v]
         /\ writer' \in [Writers -> WriterRecords]
         /\ FollowedMade' /\ Loading' /\ Delivering' /\ Routing!HandlerWasInForce'
         /\ \A v \in Writers, n \in 1..MaxRecords :
              Routing!Over(v, n)' <=> Routing!Over(v, n) \/ <<v, n>> = Routing!Record(w)
<1>1. UNCHANGED <<handler, held, saw>> /\ writer[w].pc # "idle" /\ writer' = [writer EXCEPT ![w].pc = "idle"]
  BY DEF Routing!Write, Routing!Send, Routing!Go
<1>2. /\ writer'[w] = [pc |-> "idle", at |-> writer[w].at, n |-> writer[w].n]
      /\ \A v \in Writers \ {w} : writer'[v] = writer[v]
  <2>1. writer[w] = [pc |-> writer[w].pc, at |-> writer[w].at, n |-> writer[w].n]
    BY WriterWhole DEF RouteInv
  <2>2. writer \in [Writers -> WriterRecords]
    BY DEF RouteInv, RouteTypes
  <2>3. writer'[w] = [writer[w] EXCEPT !.pc = "idle"] /\ \A v \in Writers \ {w} : writer'[v] = writer[v]
    BY <1>1, <2>2
  <2> QED BY <2>1, <2>3
<1>3. writer' \in [Writers -> WriterRecords]
  <2>1. writer'[w] \in WriterRecords
    <3>1. writer[w].n \in 0..MaxRecords /\ writer[w].at \in Places /\ "idle" \in PCs
      BY WriterFields DEF RouteInv, PCs
    <3> QED BY <1>2, <3>1, WriterRecord
  <2> QED BY <2>1, <1>1 DEF RouteInv, RouteTypes
<1>4. FollowedMade' /\ Loading'
  BY <1>1, <1>2 DEF RouteInv, FollowedMade, Loading
<1>5. Delivering' /\ Routing!HandlerWasInForce'
  BY <1>1, <1>2 DEF RouteInv, Delivering, Routing!RecordsDelivered, Routing!HandlerWasInForce
<1>6. ASSUME NEW v \in Writers, NEW n \in 1..MaxRecords
      PROVE  Routing!Over(v, n)' <=> Routing!Over(v, n) \/ <<v, n>> = Routing!Record(w)
  <2>1. CASE v = w
    BY <2>1, <1>1, <1>2 DEF Routing!Over, Routing!Record
  <2>2. CASE v # w
    BY <2>2, <1>2 DEF Routing!Over, Routing!Record
  <2> QED BY <2>1, <2>2
<1> QED BY <1>1, <1>2, <1>3, <1>4, <1>5, <1>6

LEMMA WriteInv == ASSUME RouteInv, NEW w \in Writers, Routing!Write(w) PROVE RouteInv'
<1> DEFINE s == writer[w].at
           r == Routing!Record(w)
<1>1. s \in Streams /\ writer[w].pc # "idle" /\ s \in Handlers /\ s # Buffered
  BY RoutingAssumption DEF Routing!Write, RouteInv, Delivering, Handlers, Routing!Handlers
<1>2. /\ r \in Recs /\ ~Routing!On(sent, r) /\ \A t \in Streams : ~Routing!On(written[t], r)
      /\ \A i \in DOMAIN written[s] : written[s][i][1] = w => written[s][i][2] < writer[w].n
  BY <1>1, NextRecord
<1>3. /\ UNCHANGED <<queue, sent>> /\ written' = [written EXCEPT ![s] = Append(written[s], r)]
  BY DEF Routing!Write
<1>4. written \in [Handlers -> Seq(Recs)] /\ written[s] \in Seq(Recs)
  BY <1>1 DEF RouteInv, RouteTypes
<1>5. written'[s] = Append(written[s], r) /\ \A t \in Handlers \ {s} : written'[t] = written[t]
  BY <1>1, <1>3, <1>4
<1>6. RouteTypes'
  <2>1. Append(written[s], r) \in Seq(Recs)
    BY <1>2, <1>4, AppendProperties
  <2>2. written' \in [Handlers -> Seq(Recs)]
    BY <1>3, <1>4, <2>1
  <2> QED BY <1>3, <2>2, DoneStep DEF RouteInv, RouteTypes
<1>7. Routing!PassedOn'
  <2>1. written'[Buffered] = written[Buffered] /\ held' = held
    BY <1>1, <1>5, DoneStep DEF Handlers, Routing!Handlers
  <2> QED BY <1>3, <2>1 DEF RouteInv, Routing!RecordsDelivered, Routing!PassedOn, Routing!Held
<1>8. Routing!InOrder(sent)' /\ (\A t \in Handlers : Routing!InOrder(written[t]))'
  <2>1. Routing!InOrder(sent) /\ \A t \in Handlers : Routing!InOrder(written[t])
    BY DEF RouteInv, Routing!RecordsDelivered, Handlers
  <2>2. r[1] = w /\ r[2] = writer[w].n
    BY DEF Routing!Record
  <2>3. Routing!InOrder(Append(written[s], r))
    BY <1>1, <1>2, <1>4, <2>1, <2>2, AppendInOrder
  <2>4. \A t \in Handlers : Routing!InOrder(written'[t])
    BY <1>5, <2>1, <2>3
  <2> QED BY <1>3, <2>1, <2>4 DEF Routing!InOrder
<1>9. Routing!WrittenOnce'
  <2> SUFFICES ASSUME NEW v \in Writers, NEW n \in 1..MaxRecords
               PROVE  LET streams == {t \in Streams : Routing!On(written'[t], <<v, n>>)} IN
                        IF Routing!On(sent', <<v, n>>)
                          THEN Routing!Over(v, n)' /\ streams = {}
                          ELSE IF Routing!Over(v, n)' THEN \E t \in Streams : streams = {t} ELSE streams = {}
    BY DEF Routing!WrittenOnce, Routing!On
  <2>1. LET streams == {t \in Streams : Routing!On(written[t], <<v, n>>)} IN
          IF Routing!On(sent, <<v, n>>)
            THEN Routing!Over(v, n) /\ streams = {}
            ELSE IF Routing!Over(v, n) THEN \E t \in Streams : streams = {t} ELSE streams = {}
    BY DEF RouteInv, Routing!RecordsDelivered, Routing!WrittenOnce
  <2>2. Routing!Over(v, n)' <=> Routing!Over(v, n) \/ <<v, n>> = r
    BY DoneStep
  <2>3. ASSUME NEW t \in Streams
        PROVE  Routing!On(written'[t], <<v, n>>) <=> Routing!On(written[t], <<v, n>>) \/ (t = s /\ <<v, n>> = r)
    <3>1. CASE t = s
      <4>1. Routing!On(Append(written[s], r), <<v, n>>) <=> Routing!On(written[s], <<v, n>>) \/ <<v, n>> = r
        BY <1>2, <1>4, AppendOn
      <4> QED BY <3>1, <4>1, <1>5
    <3>2. CASE t # s
      <4>1. written'[t] = written[t]
        BY <3>2, <1>5 DEF Handlers, Routing!Handlers
      <4> QED BY <3>2, <4>1
    <3> QED BY <3>1, <3>2
  <2>4. CASE <<v, n>> = r
    <3>1. {t \in Streams : Routing!On(written'[t], <<v, n>>)} = {s}
      BY <1>1, <1>2, <2>3, <2>4
    <3> QED BY <1>1, <1>2, <1>3, <2>2, <2>4, <3>1
  <2>5. CASE <<v, n>> # r
    <3>1. {t \in Streams : Routing!On(written'[t], <<v, n>>)} = {t \in Streams : Routing!On(written[t], <<v, n>>)}
      BY <2>3, <2>5
    <3> QED BY <1>3, <2>1, <2>2, <2>5, <3>1
  <2> QED BY <2>4, <2>5
<1> QED BY <1>6, <1>7, <1>8, <1>9, DoneStep DEF RouteInv, Routing!RecordsDelivered, Handlers

LEMMA SendInv == ASSUME RouteInv, NEW w \in Writers, Routing!Send(w) PROVE RouteInv'
<1> DEFINE r == Routing!Record(w)
           b == written[Buffered]
<1>1. writer[w].pc # "idle" /\ written' = written /\ sent' = Append(sent, r) /\ queue' = Append(queue, r)
  BY DEF Routing!Send
<1>2. /\ r \in Recs /\ ~Routing!On(sent, r) /\ \A t \in Streams : ~Routing!On(written[t], r)
      /\ \A i \in DOMAIN sent : sent[i][1] = w => sent[i][2] < writer[w].n
  BY <1>1, NextRecord
<1>3. /\ written \in [Handlers -> Seq(Recs)] /\ b \in Seq(Recs) /\ sent \in Seq(Recs) /\ queue \in Seq(Recs)
      /\ Routing!Held \in Seq(Recs)
  BY HeldIs DEF RouteInv, RouteTypes, Handlers, Routing!Handlers
<1>4. RouteTypes'
  BY <1>1, <1>2, <1>3, AppendProperties, DoneStep DEF RouteInv, RouteTypes
<1>5. Routing!PassedOn'
  <2> DEFINE c == b \o Routing!Held
  <2>1. sent = c \o queue
    BY DEF RouteInv, Routing!RecordsDelivered, Routing!PassedOn
  <2>2. c \in Seq(Recs) /\ <<r>> \in Seq(Recs)
    BY <1>2, <1>3, ConcatProperties
  <2> HIDE DEF c, r
  <2>3. Append(sent, r) = (c \o queue) \o <<r>>
    BY <1>2, <1>3, <2>1, AppendIsConcat
  <2>4. (c \o queue) \o <<r>> = c \o (queue \o <<r>>)
    <3> DEFINE z == <<r>>
    <3>1. \A s, t, u \in Seq(Recs) : (s \o t) \o u = s \o (t \o u)
      BY ConcatAssociative
    <3>2. c \in Seq(Recs) /\ queue \in Seq(Recs) /\ z \in Seq(Recs)
      BY <1>3, <2>2
    <3> HIDE DEF z
    <3>3. (c \o queue) \o z = c \o (queue \o z)
      BY <3>1, <3>2
    <3> QED BY <3>3 DEF z
  <2>5. queue \o <<r>> = Append(queue, r)
    BY <1>2, <1>3, AppendIsConcat
  <2>6. sent' = c \o queue'
    BY <1>1, <2>3, <2>4, <2>5
  <2>7. held' = held
    BY DoneStep
  <2> QED BY <1>1, <2>6, <2>7 DEF Routing!PassedOn, Routing!Held, c
<1>6. Routing!InOrder(sent)' /\ (\A t \in Handlers : Routing!InOrder(written[t]))'
  <2>1. Routing!InOrder(sent) /\ \A t \in Handlers : Routing!InOrder(written[t])
    BY DEF RouteInv, Routing!RecordsDelivered, Handlers
  <2>2. r[1] = w /\ r[2] = writer[w].n
    BY DEF Routing!Record
  <2>3. Routing!InOrder(Append(sent, r))
    BY <1>2, <1>3, <2>1, <2>2, AppendInOrder
  <2> QED BY <1>1, <2>1, <2>3 DEF Routing!InOrder
<1>7. Routing!WrittenOnce'
  <2> SUFFICES ASSUME NEW v \in Writers, NEW n \in 1..MaxRecords
               PROVE  LET streams == {t \in Streams : Routing!On(written[t], <<v, n>>)} IN
                        IF Routing!On(sent', <<v, n>>)
                          THEN Routing!Over(v, n)' /\ streams = {}
                          ELSE IF Routing!Over(v, n)' THEN \E t \in Streams : streams = {t} ELSE streams = {}
    BY <1>1 DEF Routing!WrittenOnce, Routing!On
  <2>1. LET streams == {t \in Streams : Routing!On(written[t], <<v, n>>)} IN
          IF Routing!On(sent, <<v, n>>)
            THEN Routing!Over(v, n) /\ streams = {}
            ELSE IF Routing!Over(v, n) THEN \E t \in Streams : streams = {t} ELSE streams = {}
    BY DEF RouteInv, Routing!RecordsDelivered, Routing!WrittenOnce
  <2>2. Routing!Over(v, n)' <=> Routing!Over(v, n) \/ <<v, n>> = r
    BY DoneStep
  <2>3. Routing!On(sent', <<v, n>>) <=> Routing!On(sent, <<v, n>>) \/ <<v, n>> = r
    BY <1>1, <1>2, <1>3, AppendOn
  <2>4. CASE <<v, n>> = r
    <3>1. {t \in Streams : Routing!On(written[t], <<v, n>>)} = {}
      BY <1>2, <2>4
    <3> QED BY <2>2, <2>3, <2>4, <3>1
  <2>5. CASE <<v, n>> # r
    BY <2>1, <2>2, <2>3, <2>5
  <2> QED BY <2>4, <2>5
<1> QED BY <1>4, <1>5, <1>6, <1>7, DoneStep DEF RouteInv, Routing!RecordsDelivered, Handlers

(* The goroutine of the buffered handler.                                  *)
LEMMA PassInv == ASSUME RouteInv, Routing!Take \/ Routing!PassOn PROVE RouteInv'
<1> DEFINE b == written[Buffered]
<1>1. UNCHANGED <<handler, writer, sent, saw>>
  BY DEF Routing!Take, Routing!PassOn
<1>2. /\ written \in [Handlers -> Seq(Recs)] /\ b \in Seq(Recs) /\ queue \in Seq(Recs)
      /\ Buffered \in Handlers /\ sent = b \o Routing!Held \o queue
  BY DEF RouteInv, RouteTypes, Routing!RecordsDelivered, Routing!PassedOn, Handlers, Routing!Handlers
<1>3. FollowedMade' /\ Loading' /\ Delivering' /\ Routing!HandlerWasInForce'
  BY <1>1 DEF RouteInv, FollowedMade, Loading, Delivering, Routing!RecordsDelivered,
     Routing!HandlerWasInForce
<1>4. RouteTypes' /\ Routing!PassedOn' /\ \A t \in Streams : written'[t] = written[t]
  <2>1. CASE Routing!Take
    <3>1. held = <<>> /\ held' = Head(queue) /\ queue' = Tail(queue) /\ queue # <<>> /\ written' = written
      BY <2>1 DEF Routing!Take
    <3>2. Head(queue) \in Recs /\ Tail(queue) \in Seq(Recs)
      BY <1>2, <3>1, HeadTailProperties
    <3>3. held' # <<>>
      <4>1. held' = <<held'[1], held'[2]>>
        BY <3>1, <3>2 DEF Recs
      <4> QED BY <4>1
    <3>4. queue = <<Head(queue)>> \o Tail(queue)
      BY <1>2, <3>1
    <3>5. sent = b \o <<>> \o queue /\ b \o <<>> = b
      BY <1>2, <3>1, ConcatEmptySeq DEF Routing!Held
    <3>6. b \o (<<Head(queue)>> \o Tail(queue)) = b \o <<Head(queue)>> \o Tail(queue)
      <4>1. <<Head(queue)>> \in Seq(Recs)
        BY <3>2
      <4> QED BY <1>2, <3>2, <4>1, ConcatAssociative
    <3>7. sent = b \o <<held'>> \o queue'
      BY <3>1, <3>4, <3>5, <3>6
    <3>8. Routing!PassedOn'
      BY <1>1, <3>1, <3>3, <3>7 DEF Routing!PassedOn, Routing!Held
    <3> QED BY <1>1, <3>1, <3>2, <3>8 DEF RouteInv, RouteTypes
  <2>2. CASE Routing!PassOn
    <3>1. held # <<>> /\ held' = <<>> /\ queue' = queue /\ written' = [written EXCEPT ![Buffered] = Append(b, held)]
      BY <2>2 DEF Routing!PassOn
    <3>2. held \in Recs
      BY <3>1 DEF RouteInv, RouteTypes
    <3>3. Append(b, held) \in Seq(Recs) /\ Append(b, held) = b \o <<held>>
      BY <1>2, <3>2, AppendProperties, AppendIsConcat
    <3>4. written' \in [Handlers -> Seq(Recs)] /\ written'[Buffered] = Append(b, held)
      BY <1>2, <3>1, <3>3
    <3>5. Append(b, held) \o <<>> = Append(b, held)
      BY <3>3, ConcatEmptySeq
    <3>6. sent = Append(b, held) \o <<>> \o queue
      BY <1>2, <3>1, <3>3, <3>5 DEF Routing!Held
    <3>7. Routing!PassedOn'
      BY <1>1, <3>1, <3>4, <3>6 DEF Routing!PassedOn, Routing!Held
    <3>8. \A t \in Streams : written'[t] = written[t]
      BY <1>2, <3>1, RoutingAssumption DEF Handlers, Routing!Handlers
    <3> QED BY <1>1, <3>1, <3>4, <3>7, <3>8 DEF RouteInv, RouteTypes
  <2> QED BY <2>1, <2>2
<1>5. Routing!InOrder(sent)' /\ (\A t \in Handlers : Routing!InOrder(written[t]))'
  <2>1. Routing!InOrder(sent) /\ \A t \in Streams : Routing!InOrder(written[t])
    BY DEF RouteInv, Routing!RecordsDelivered, Handlers, Routing!Handlers
  <2>2. written'[Buffered] \in Seq(Recs) /\ queue' \in Seq(Recs) /\ Routing!Held' \in Seq(Recs)
    BY <1>4, <1>2 DEF RouteTypes, Routing!Held
  <2>3. sent' = written'[Buffered] \o Routing!Held' \o queue'
    BY <1>4 DEF Routing!PassedOn
  <2>4. Routing!InOrder(written'[Buffered])
    BY <1>1, <2>1, <2>2, <2>3, PartInOrder
  <2>5. \A t \in Handlers : Routing!InOrder(written'[t])
    BY <1>4, <2>1, <2>4 DEF Handlers, Routing!Handlers
  <2> QED BY <1>1, <2>1, <2>5 DEF Routing!InOrder
<1>6. Routing!WrittenOnce'
  <2>1. \A x : Routing!On(sent, x)' <=> Routing!On(sent, x)
    BY <1>1 DEF Routing!On
  <2>2. \A w \in Writers, n \in 1..MaxRecords :
          /\ {s \in Streams : Routing!On(written[s], <<w, n>>)}' = {s \in Streams : Routing!On(written[s], <<w, n>>)}
          /\ Routing!Over(w, n)' <=> Routing!Over(w, n)
    BY <1>1, <1>4 DEF Routing!On, Routing!Over
  <2>3. Routing!WrittenOnce
    BY DEF RouteInv, Routing!RecordsDelivered
  <2> QED BY <2>1, <2>2, <2>3 DEF Routing!WrittenOnce
<1> QED BY <1>3, <1>4, <1>5, <1>6 DEF RouteInv, Routing!RecordsDelivered, Handlers

LEMMA RouteStep == RouteInv /\ [Routing!Next]_(Routing!routeVars) => RouteInv'
<1> SUFFICES ASSUME RouteInv, [Routing!Next]_(Routing!routeVars) PROVE RouteInv'
  OBVIOUS
<1>1. CASE UNCHANGED Routing!routeVars
  <2>1. UNCHANGED <<handler, writer, lock, queue, held, written, sent, saw>>
    BY <1>1 DEF Routing!routeVars
  <2>2. RouteTypes' /\ FollowedMade' /\ Loading' /\ Delivering' /\ Routing!HandlerWasInForce'
    BY <2>1 DEF RouteInv, RouteTypes, FollowedMade, Loading, Delivering, Routing!RecordsDelivered,
       Routing!HandlerWasInForce
  <2>3. Unmoved
    BY <2>1 DEF Unmoved, Routing!Over
  <2> QED BY <2>2, <2>3, UnmovedStays DEF RouteInv, Routing!RecordsDelivered, Handlers
<1>2. CASE Routing!Next
  BY <1>2, NewInv, SetHandlerInv, WalkInv, WriteInv, SendInv, PassInv
  DEF Routing!Next, Routing!WriterStep, Handlers
<1> QED BY <1>1, <1>2

(* That only root may be without a handler, and that a panic finds it so:  *)
(* nothing runs on after one.                                              *)
LEMMA ConfiguredStep ==
  RouteInv /\ Routing!PanicsUnconfigured /\ [Routing!Next]_(Routing!routeVars) => Routing!PanicsUnconfigured'
<1> SUFFICES ASSUME RouteInv, Routing!PanicsUnconfigured, [Routing!Next]_(Routing!routeVars)
             PROVE  Routing!PanicsUnconfigured'
  OBVIOUS
<1>1. CASE UNCHANGED Routing!routeVars
  BY <1>1 DEF Routing!PanicsUnconfigured, Routing!Running, Routing!routeVars
<1>2. CASE Routing!Next
  <2>1. Routing!Running /\ \A g \in Followers : handler[g] = Empty => g = Root
    BY <1>2 DEF Routing!Next, Routing!PanicsUnconfigured, Empty
  <2>2. ASSUME NEW p \in Followers, NEW g \in Followers, Routing!New(p, g) PROVE Routing!PanicsUnconfigured'
    BY <2>1, <2>2, RoutingAssumption DEF Routing!New, RouteInv, RouteTypes, Routing!PanicsUnconfigured,
       Routing!Running, Empty
  <2>3. ASSUME NEW g \in Followers, NEW h \in Handlers, Routing!SetHandler(g, h) PROVE Routing!PanicsUnconfigured'
    BY <2>1, <2>3, RoutingAssumption DEF Routing!SetHandler, RouteInv, RouteTypes, Routing!PanicsUnconfigured,
       Routing!Running, Empty, Handlers
  <2>4. ASSUME NEW w \in Writers, Routing!Load(w) PROVE Routing!PanicsUnconfigured'
    <3>1. handler' = handler /\ writer[w].at \in Followers
      BY <2>4 DEF Routing!Load, RouteInv, Loading
    <3>2. CASE handler[writer[w].at] = Empty
      BY <2>1, <3>1, <3>2 DEF Routing!PanicsUnconfigured, Empty
    <3>3. CASE handler[writer[w].at] # Empty
      <4>1. Routing!Reached(handler[writer[w].at]) # "panicked"
        BY <3>3 DEF Routing!Reached, Empty
      <4>2. writer'[w].pc # "panicked" /\ \A v \in Writers \ {w} : writer'[v] = writer[v]
        BY <2>4, <4>1 DEF Routing!Load, RouteInv, RouteTypes, WriterRecords
      <4> QED BY <2>1, <3>1, <4>2 DEF Routing!PanicsUnconfigured, Routing!Running, Empty
    <3> QED BY <3>2, <3>3
  <2>5. ASSUME NEW w \in Writers,
               (\E g \in Followers : Routing!Call(w, g)) \/ Routing!Lock(w) \/ Routing!Write(w) \/ Routing!Send(w)
        PROVE  Routing!PanicsUnconfigured'
    <3>1. handler' = handler
      BY <2>5 DEF Routing!Call, Routing!Lock, Routing!Write, Routing!Send
    <3>2. writer'[w].pc # "panicked" /\ \A v \in Writers \ {w} : writer'[v] = writer[v]
      BY <2>5 DEF Routing!Call, Routing!Lock, Routing!Write, Routing!Send, Routing!Go, RouteInv, RouteTypes, WriterRecords
    <3> QED BY <2>1, <3>1, <3>2 DEF Routing!PanicsUnconfigured, Routing!Running, Empty
  <2>6. CASE Routing!Take \/ Routing!PassOn
    BY <2>1, <2>6 DEF Routing!Take, Routing!PassOn, Routing!PanicsUnconfigured, Routing!Running, Empty
  <2> QED BY <1>2, <2>2, <2>3, <2>4, <2>5, <2>6 DEF Routing!Next, Routing!WriterStep, Handlers
<1> QED BY <1>1, <1>2

(* Every record is written once, in the order of its writer's calls, to a  *)
(* handler that was in force for its logger or for one that this followed, *)
(* however loggers are made and handlers exchanged meanwhile; and a record *)
(* ends the program only while root has not been given a handler yet.      *)
THEOREM RecordsAlwaysRouted == RouteSpec => []RecordsRouted
<1>1. RouteSpec => []RouteInv
  BY RouteInit, RouteStep, PTL DEF RouteSpec, Routing!Spec
<1>2. Routing!Init => Routing!PanicsUnconfigured
  <2>1. Empty # None
    BY DEF Empty, None, Routing!Empty, Routing!None
  <2> QED BY <2>1, RoutingAssumption DEF Routing!Init, Routing!PanicsUnconfigured, Routing!Running, Empty, None
<1>3. RouteSpec => []Routing!PanicsUnconfigured
  BY <1>1, <1>2, ConfiguredStep, PTL DEF RouteSpec, Routing!Spec
<1>4. RouteInv /\ Routing!PanicsUnconfigured => RecordsRouted
  BY DEF RouteInv, RecordsRouted, Routing!RecordsRouted
<1> QED BY <1>1, <1>3, <1>4, PTL

-----------------------------------------------------------------------------
(* HandlerTree.                                                            *)

IsSeq(s) == Tree!IsSeq(s)

LEMMA Sequence ==
  ASSUME NEW S, NEW s \in Seq(S)
  PROVE  IsSeq(s)
<1> DEFINE R == {s[i] : i \in DOMAIN s}
<1>1. s \in [1..Len(s) -> S] /\ Len(s) \in Nat /\ DOMAIN s = 1..Len(s)
  BY LenProperties
<1>2. s \in [1..Len(s) -> R]
  BY <1>1
<1> HIDE DEF R
<1>3. s \in Seq(R)
  BY <1>1, <1>2, SeqDef
<1> QED BY <1>3 DEF IsSeq, Tree!IsSeq, R

LEMMA SequenceIs ==
  ASSUME NEW s, IsSeq(s)
  PROVE  Len(s) \in Nat /\ DOMAIN s = 1..Len(s) /\ s = [i \in 1..Len(s) |-> s[i]]
<1>1. s \in Seq({s[i] : i \in DOMAIN s})
  BY DEF IsSeq, Tree!IsSeq
<1> DEFINE R == {s[i] : i \in DOMAIN s}
<1> HIDE DEF R
<1>2. s \in Seq(R)
  BY <1>1 DEF R
<1> QED BY <1>2, LenProperties

LEMMA Tabulated ==
  ASSUME NEW n \in Nat, NEW f, f = [i \in 1..n |-> f[i]]
  PROVE  IsSeq(f) /\ Len(f) = n
<1> DEFINE R == {f[i] : i \in 1..n}
<1>1. f \in [1..n -> R]
  <2>1. \A i \in 1..n : f[i] \in R
    OBVIOUS
  <2> HIDE DEF R
  <2> QED BY <2>1
<1> HIDE DEF R
<1>2. f \in Seq(R)
  BY <1>1, SeqDef
<1>3. Len(f) = n
  <2>1. DOMAIN f = 1..Len(f) /\ Len(f) \in Nat /\ DOMAIN f = 1..n
    BY <1>1, <1>2, LenProperties
  <2> QED BY <2>1
<1> QED BY <1>2, <1>3, Sequence

LEMMA SameSequence ==
  ASSUME NEW s, NEW t, IsSeq(s), IsSeq(t), Len(s) = Len(t), \A i \in 1..Len(s) : s[i] = t[i]
  PROVE  s = t
<1>1. s = [i \in 1..Len(s) |-> s[i]] /\ t = [i \in 1..Len(s) |-> t[i]]
  BY SequenceIs, Zenon
<1>2. [i \in 1..Len(s) |-> s[i]] = [i \in 1..Len(s) |-> t[i]]
  OBVIOUS
<1> QED BY <1>1, <1>2, Zenon

LEMMA Appended ==
  ASSUME NEW s, IsSeq(s), NEW x
  PROVE  /\ IsSeq(Append(s, x)) /\ Len(Append(s, x)) = Len(s) + 1
         /\ \A i \in 1..Len(s) : Append(s, x)[i] = s[i]
         /\ Append(s, x)[Len(s) + 1] = x
         /\ DOMAIN Append(s, x) = 1..(Len(s) + 1)
<1> DEFINE R == {s[i] : i \in DOMAIN s} \cup {x}
<1>1. s \in Seq({s[i] : i \in DOMAIN s}) /\ {s[i] : i \in DOMAIN s} \subseteq R /\ x \in R
  BY DEF IsSeq, Tree!IsSeq
<1>2. s \in Seq(R)
  BY <1>1, SeqMonotonic
<1> HIDE DEF R
<1>3. /\ Append(s, x) \in Seq(R) /\ Len(Append(s, x)) = Len(s) + 1
      /\ \A i \in 1..Len(s) : Append(s, x)[i] = s[i]
      /\ Append(s, x)[Len(s) + 1] = x
  BY <1>1, <1>2, AppendProperties
<1>4. IsSeq(Append(s, x))
  BY <1>3, Sequence
<1> QED BY <1>3, <1>4, SequenceIs

LEMMA Joined ==
  ASSUME NEW s, NEW t, IsSeq(s), IsSeq(t)
  PROVE  /\ IsSeq(s \o t) /\ Len(s \o t) = Len(s) + Len(t)
         /\ \A i \in 1..(Len(s) + Len(t)) : (s \o t)[i] = IF i <= Len(s) THEN s[i] ELSE t[i - Len(s)]
<1> DEFINE A == {s[i] : i \in DOMAIN s}
           B == {t[i] : i \in DOMAIN t}
           R == A \cup B
<1>1. s \in Seq(A) /\ t \in Seq(B)
  BY DEF IsSeq, Tree!IsSeq
<1> HIDE DEF A, B
<1>2. A \subseteq R /\ B \subseteq R
  OBVIOUS
<1> HIDE DEF R
<1>3. s \in Seq(R) /\ t \in Seq(R)
  BY <1>1, <1>2, SeqMonotonic
<1> QED BY <1>3, ConcatProperties, Sequence

-----------------------------------------------------------------------------
(* What the handlers add is neither lazy nor, but for its own, the         *)
(* complaint of LazyHandler.                                               *)
CallerPair == <<Tree!Key("caller"), Tree!Value("site")>>

LEMMA AddedPairs ==
  /\ ~Tree!IsLazy(CallerPair) /\ CallerPair # Tree!BadLazy /\ ~Tree!IsLazy(Tree!BadLazy)
  /\ \A i, e : ~Tree!IsLazy(Tree!FailoverError(i, e)) /\ Tree!FailoverError(i, e) # Tree!BadLazy
BY DEF CallerPair, Tree!IsLazy, Tree!BadLazy, Tree!FailoverError, Tree!Key, Tree!Value

LEMMA SettledIs ==
  ASSUME NEW pair
  PROVE  ~Tree!IsLazy(Tree!Settled(pair)) /\ (~Tree!IsLazy(pair) => Tree!Settled(pair) = pair /\ ~Tree!Evaluates(pair))
<1>1. ~Tree!IsLazy(pair) => ~Tree!Evaluates(pair)
  BY DEF Tree!IsLazy, Tree!Evaluates
<1>2. \A k, v : ~Tree!IsLazy(<<k, Tree!Value(v)>>)
  BY DEF Tree!IsLazy, Tree!Value
<1> QED BY <1>1, <1>2 DEF Tree!Settled

LEMMA PassIs ==
  ASSUME NEW ctx, IsSeq(ctx)
  PROVE  LET e == Tree!EvaluateLazies(ctx) IN
           /\ IsSeq(e) /\ Len(e) = Len(ctx) + (IF Tree!Refused(ctx) THEN 1 ELSE 0)
           /\ \A i \in 1..Len(ctx) : e[i] = Tree!Settled(ctx[i])
           /\ Tree!Refused(ctx) => e[Len(ctx) + 1] = Tree!BadLazy
           /\ \A i \in 1..Len(e) : ~Tree!IsLazy(e[i])
<1> DEFINE m == [i \in DOMAIN ctx |-> Tree!Settled(ctx[i])]
           e == Tree!EvaluateLazies(ctx)
<1>1. Len(ctx) \in Nat /\ DOMAIN ctx = 1..Len(ctx)
  BY SequenceIs
<1>2. m = [i \in 1..Len(ctx) |-> m[i]] /\ \A i \in 1..Len(ctx) : m[i] = Tree!Settled(ctx[i])
  BY <1>1
<1>3. e = IF Tree!Refused(ctx) THEN Append(m, Tree!BadLazy) ELSE m
  BY DEF Tree!EvaluateLazies, Tree!Complained
<1> HIDE DEF m, e
<1>4. IsSeq(m) /\ Len(m) = Len(ctx)
  BY <1>1, <1>2, Tabulated
<1>5. \A i \in 1..Len(ctx) : ~Tree!IsLazy(m[i])
  BY <1>2, SettledIs
<1>6. CASE Tree!Refused(ctx)
  <2>1. e = Append(m, Tree!BadLazy)
    BY <1>3, <1>6
  <2>2. /\ IsSeq(e) /\ Len(e) = Len(ctx) + 1 /\ e[Len(ctx) + 1] = Tree!BadLazy
        /\ \A i \in 1..Len(ctx) : e[i] = m[i]
    BY <1>4, <2>1, Appended
  <2>3. ASSUME NEW i \in 1..Len(e) PROVE ~Tree!IsLazy(e[i])
    <3>1. i \in 1..Len(ctx) \/ i = Len(ctx) + 1
      BY <1>1, <2>2
    <3> QED BY <1>5, <2>2, <3>1, AddedPairs
  <2> QED BY <1>2, <1>6, <2>2, <2>3 DEF e
<1>7. CASE ~Tree!Refused(ctx)
  <2>1. e = m /\ Len(ctx) + 0 = Len(ctx)
    BY <1>1, <1>3, <1>7
  <2> QED BY <1>2, <1>4, <1>5, <1>7, <2>1 DEF e
<1> QED BY <1>6, <1>7

(* A second pass finds nothing to do.                                      *)
LEMMA PassAgain ==
  ASSUME NEW ctx, IsSeq(ctx), \A i \in 1..Len(ctx) : ~Tree!IsLazy(ctx[i])
  PROVE  Tree!EvaluateLazies(ctx) = ctx
<1>1. ~Tree!Refused(ctx) /\ DOMAIN ctx = 1..Len(ctx) /\ Len(ctx) \in Nat
  BY SequenceIs DEF Tree!Refused
<1>2. /\ IsSeq(Tree!EvaluateLazies(ctx)) /\ Len(Tree!EvaluateLazies(ctx)) = Len(ctx) + 0
      /\ \A i \in 1..Len(ctx) : Tree!EvaluateLazies(ctx)[i] = ctx[i]
  BY <1>1, PassIs, SettledIs
<1> DEFINE e == Tree!EvaluateLazies(ctx)
<1> HIDE DEF e
<1>3. IsSeq(e) /\ Len(e) = Len(ctx) /\ \A i \in 1..Len(e) : e[i] = ctx[i]
  BY <1>1, <1>2 DEF e
<1>4. e = ctx
  BY <1>3, SameSequence
<1> QED BY <1>4 DEF e

-----------------------------------------------------------------------------
(* What has become of the record: the pairs it was made with are in front, *)
(* untouched before the first pass and settled after it; what was added    *)
(* since is not lazy, and holds the complaint if there was one to make.    *)
Said(r, ctx) == {j \in DOMAIN ctx \ DOMAIN r.ctx : ctx[j] = Tree!BadLazy}
Once(r, ctx) == IF Tree!Refused(r.ctx) THEN \E j \in Said(r, ctx) : Said(r, ctx) = {j} ELSE Said(r, ctx) = {}
Lengthened(r, ctx) ==
  /\ IsSeq(ctx) /\ Len(ctx) >= Len(r.ctx)
  /\ \A j \in 1..Len(ctx) : j > Len(r.ctx) => ~Tree!IsLazy(ctx[j])
Untouched(r, ctx) == (\A j \in 1..Len(r.ctx) : ctx[j] = r.ctx[j]) /\ Said(r, ctx) = {}
Evaluated(r, ctx) == (\A j \in 1..Len(r.ctx) : ctx[j] = Tree!Settled(r.ctx[j])) /\ Once(r, ctx)
Carried(r, ctx, passed) == Lengthened(r, ctx) /\ IF passed THEN Evaluated(r, ctx) ELSE Untouched(r, ctx)

LEMMA CarriedOn ==
  ASSUME NEW r, IsSeq(r.ctx), NEW ctx, NEW passed \in BOOLEAN, Carried(r, ctx, passed),
         NEW pair, ~Tree!IsLazy(pair), pair # Tree!BadLazy
  PROVE  Carried(r, Append(ctx, pair), passed)
<1> DEFINE c == Append(ctx, pair)
<1>1. /\ IsSeq(ctx) /\ Len(ctx) \in Nat /\ DOMAIN ctx = 1..Len(ctx)
      /\ Len(r.ctx) \in Nat /\ DOMAIN r.ctx = 1..Len(r.ctx) /\ Len(ctx) >= Len(r.ctx)
  BY SequenceIs DEF Carried, Lengthened
<1>2. /\ IsSeq(c) /\ Len(c) = Len(ctx) + 1 /\ DOMAIN c = 1..(Len(ctx) + 1) /\ c[Len(ctx) + 1] = pair
      /\ \A i \in 1..Len(ctx) : c[i] = ctx[i]
  BY <1>1, Appended
<1> HIDE DEF c
<1>3. Lengthened(r, c)
  <2>1. ASSUME NEW j \in 1..Len(c), j > Len(r.ctx) PROVE ~Tree!IsLazy(c[j])
    <3>1. j \in 1..Len(ctx) \/ j = Len(ctx) + 1
      BY <1>1, <1>2
    <3>2. CASE j \in 1..Len(ctx)
      BY <1>2, <2>1, <3>2 DEF Carried, Lengthened
    <3>3. CASE j = Len(ctx) + 1
      BY <1>2, <3>3
    <3> QED BY <3>1, <3>2, <3>3
  <2>2. Len(c) >= Len(r.ctx)
    BY <1>1, <1>2
  <2> QED BY <1>2, <2>1, <2>2 DEF Lengthened
<1>4. Said(r, c) = Said(r, ctx)
  <2>1. ASSUME NEW j \in 1..(Len(ctx) + 1), c[j] = Tree!BadLazy PROVE j \in 1..Len(ctx)
    BY <1>1, <1>2, <2>1
  <2>2. \A j \in 1..Len(ctx) : j \in 1..(Len(ctx) + 1)
    BY <1>1
  <2> QED BY <1>1, <1>2, <2>1, <2>2 DEF Said
<1>5. \A j \in 1..Len(r.ctx) : c[j] = ctx[j]
  BY <1>1, <1>2
<1>6. CASE passed
  <2>1. Evaluated(r, ctx)
    BY <1>6 DEF Carried
  <2>2. Evaluated(r, c)
    BY <1>4, <1>5, <2>1 DEF Evaluated, Once
  <2> QED BY <1>3, <1>6, <2>2 DEF Carried, c
<1>7. CASE ~passed
  <2>1. Untouched(r, ctx)
    BY <1>7 DEF Carried
  <2>2. Untouched(r, c)
    BY <1>4, <1>5, <2>1 DEF Untouched
  <2> QED BY <1>3, <1>7, <2>2 DEF Carried, c
<1> QED BY <1>6, <1>7

LEMMA CarriedThrough ==
  ASSUME NEW r, IsSeq(r.ctx), NEW ctx, NEW passed \in BOOLEAN, Carried(r, ctx, passed)
  PROVE  /\ Carried(r, Tree!EvaluateLazies(ctx), TRUE)
         /\ \A i \in 1..Len(Tree!EvaluateLazies(ctx)) : ~Tree!IsLazy(Tree!EvaluateLazies(ctx)[i])
<1> DEFINE e == Tree!EvaluateLazies(ctx)
<1>1. /\ IsSeq(ctx) /\ Len(ctx) \in Nat /\ DOMAIN ctx = 1..Len(ctx)
      /\ Len(r.ctx) \in Nat /\ DOMAIN r.ctx = 1..Len(r.ctx) /\ Len(ctx) >= Len(r.ctx)
  BY SequenceIs DEF Carried, Lengthened
<1>2. /\ IsSeq(e) /\ Len(e) = Len(ctx) + (IF Tree!Refused(ctx) THEN 1 ELSE 0)
      /\ \A i \in 1..Len(ctx) : e[i] = Tree!Settled(ctx[i])
      /\ Tree!Refused(ctx) => e[Len(ctx) + 1] = Tree!BadLazy
      /\ \A i \in 1..Len(e) : ~Tree!IsLazy(e[i])
  BY <1>1, PassIs
<1>3. \A j \in 1..Len(ctx) : j > Len(r.ctx) => ~Tree!IsLazy(ctx[j])
  BY DEF Carried, Lengthened
<1>4. CASE passed
  <2>1. \A j \in 1..Len(ctx) : ~Tree!IsLazy(ctx[j])
    <3>1. ASSUME NEW j \in 1..Len(ctx) PROVE ~Tree!IsLazy(ctx[j])
      <4>1. CASE j > Len(r.ctx)
        BY <1>3, <4>1
      <4>2. CASE j \in 1..Len(r.ctx)
        BY <1>4, <4>2, SettledIs DEF Carried, Evaluated
      <4> QED BY <1>1, <4>1, <4>2
    <3> QED BY <3>1
  <2>2. e = ctx
    BY <1>1, <2>1, PassAgain
  <2>3. Carried(r, ctx, TRUE)
    BY <1>4 DEF Carried
  <2> QED BY <1>2, <2>2, <2>3
<1>5. CASE ~passed
  <2>1. (\A j \in 1..Len(r.ctx) : ctx[j] = r.ctx[j]) /\ Said(r, ctx) = {}
    BY <1>5 DEF Carried, Untouched
  <2>2. Tree!Refused(ctx) <=> Tree!Refused(r.ctx)
    <3>1. \A j \in 1..Len(r.ctx) : j \in 1..Len(ctx)
      BY <1>1
    <3>2. \A j \in 1..Len(ctx) : j > Len(r.ctx) \/ j \in 1..Len(r.ctx)
      BY <1>1
    <3> QED BY <1>1, <1>3, <2>1, <3>1, <3>2 DEF Tree!Refused
  <2>3. \A j \in 1..Len(r.ctx) : e[j] = Tree!Settled(r.ctx[j])
    <3>1. \A j \in 1..Len(r.ctx) : j \in 1..Len(ctx)
      BY <1>1
    <3> QED BY <1>2, <2>1, <3>1
  <2>4. Lengthened(r, e)
    <3>1. Len(e) >= Len(r.ctx)
      BY <1>1, <1>2
    <3> QED BY <1>2, <3>1 DEF Lengthened
  <2>5. ASSUME NEW j \in 1..Len(ctx), j > Len(r.ctx) PROVE e[j] # Tree!BadLazy
    <3>1. e[j] = ctx[j]
      BY <1>2, <1>3, <2>5, SettledIs
    <3>2. j \notin Said(r, ctx) /\ j \in DOMAIN ctx \ DOMAIN r.ctx
      BY <1>1, <2>1, <2>5
    <3> QED BY <3>1, <3>2 DEF Said
  <2>6. DOMAIN e = 1..Len(e)
    BY <1>2, SequenceIs
  <2>7. Once(r, e)
    <3>1. CASE Tree!Refused(r.ctx)
      <4>1. Len(e) = Len(ctx) + 1 /\ e[Len(ctx) + 1] = Tree!BadLazy
        BY <1>2, <2>2, <3>1
      <4> DEFINE last == Len(ctx) + 1
      <4>2. last \in DOMAIN e \ DOMAIN r.ctx
        BY <1>1, <2>6, <4>1
      <4>3. \A j \in DOMAIN e \ DOMAIN r.ctx : j # last => j \in 1..Len(ctx) /\ j > Len(r.ctx)
        BY <1>1, <2>6, <4>1
      <4>4. e[last] = Tree!BadLazy
        BY <4>1
      <4> HIDE DEF last, e
      <4>5. Said(r, e) = {last}
        BY <2>5, <4>2, <4>3, <4>4 DEF Said
      <4> QED BY <3>1, <4>5 DEF Once
    <3>2. CASE ~Tree!Refused(r.ctx)
      <4>1. Len(e) = Len(ctx)
        <5>1. ~Tree!Refused(ctx)
          BY <2>2, <3>2
        <5>2. Len(e) = Len(ctx) + 0
          BY <1>2, <5>1
        <5> HIDE DEF e
        <5> QED BY <1>1, <5>2
      <4>2. \A j \in DOMAIN e \ DOMAIN r.ctx : j \in 1..Len(ctx) /\ j > Len(r.ctx)
        BY <1>1, <2>6, <4>1
      <4> HIDE DEF e
      <4>3. Said(r, e) = {}
        BY <2>5, <4>2 DEF Said
      <4> QED BY <3>2, <4>3 DEF Once
    <3> QED BY <3>1, <3>2
  <2> HIDE DEF e
  <2>8. Carried(r, e, TRUE)
    BY <2>3, <2>4, <2>7 DEF Carried, Evaluated
  <2> QED BY <1>2, <2>8 DEF e
<1> QED BY <1>4, <1>5

(* The places whose functions a pass calls.                                *)
LEMMA CalledPlaces ==
  ASSUME NEW r, IsSeq(r.ctx), NEW ctx, NEW passed \in BOOLEAN, Carried(r, ctx, passed)
  PROVE  {i \in DOMAIN ctx : Tree!Evaluates(ctx[i])}
           = IF passed THEN {} ELSE {i \in DOMAIN r.ctx : Tree!Evaluates(r.ctx[i])}
<1>1. /\ Len(ctx) \in Nat /\ DOMAIN ctx = 1..Len(ctx)
      /\ Len(r.ctx) \in Nat /\ DOMAIN r.ctx = 1..Len(r.ctx) /\ Len(ctx) >= Len(r.ctx)
  BY SequenceIs DEF Carried, Lengthened
<1>2. \A j \in 1..Len(ctx) : j \in 1..Len(r.ctx) \/ ~Tree!Evaluates(ctx[j])
  <2>1. \A j \in 1..Len(ctx) : j \in 1..Len(r.ctx) \/ j > Len(r.ctx)
    BY <1>1
  <2> QED BY <2>1, SettledIs DEF Carried, Lengthened
<1>3. \A j \in 1..Len(r.ctx) : j \in 1..Len(ctx)
  BY <1>1
<1>4. CASE passed
  <2>1. \A j \in 1..Len(r.ctx) : ~Tree!Evaluates(ctx[j])
    BY <1>4, SettledIs DEF Carried, Evaluated
  <2> QED BY <1>1, <1>2, <1>4, <2>1
<1>5. CASE ~passed
  <2>1. \A j \in 1..Len(r.ctx) : ctx[j] = r.ctx[j]
    BY <1>5 DEF Carried, Untouched
  <2> QED BY <1>1, <1>2, <1>3, <1>5, <2>1
<1> QED BY <1>4, <1>5

(* What a stream is handed.                                                *)
LEMMA CarriedIntact ==
  ASSUME NEW r, IsSeq(r.ctx), NEW ctx, Carried(r, ctx, TRUE), \A i \in 1..Len(ctx) : ~Tree!IsLazy(ctx[i]),
         NEW lvl, lvl = r.lvl
  PROVE  Tree!Intact(r, [lvl |-> lvl, ctx |-> ctx])
<1> DEFINE got == [lvl |-> lvl, ctx |-> ctx]
<1>1. DOMAIN ctx = 1..Len(ctx) /\ DOMAIN r.ctx = 1..Len(r.ctx)
  BY SequenceIs DEF Carried, Lengthened
<1>2. got.lvl = r.lvl /\ got.ctx = ctx
  OBVIOUS
<1> HIDE DEF got
<1>3. /\ Len(ctx) >= Len(r.ctx) /\ (\A j \in 1..Len(r.ctx) : ctx[j] = Tree!Settled(r.ctx[j]))
      /\ IF Tree!Refused(r.ctx) THEN \E j \in Said(r, ctx) : Said(r, ctx) = {j} ELSE Said(r, ctx) = {}
  BY DEF Carried, Lengthened, Evaluated, Once
<1>4. Said(r, ctx) = {j \in DOMAIN got.ctx \ DOMAIN r.ctx : got.ctx[j] = Tree!BadLazy}
  BY <1>2 DEF Said
<1> DEFINE said == {j \in DOMAIN got.ctx \ DOMAIN r.ctx : got.ctx[j] = Tree!BadLazy}
<1>5. IF Tree!Refused(r.ctx) THEN \E j \in said : said = {j} ELSE said = {}
  BY <1>3, <1>4
<1> HIDE DEF said
<1>6. Tree!Intact(r, got)
  BY <1>1, <1>2, <1>3, <1>5 DEF Tree!Intact, said
<1> QED BY <1>6 DEF got

(* What a record is made with.                                             *)
LEMMA ContextIs ==
  ASSUME NEW prefix, NEW args, IsSeq(prefix), IsSeq(args)
  PROVE  IsSeq(Tree!newContext(prefix, args))
<1> DEFINE n == Len(args) \div 2
           pairs == [i \in 1..n |-> <<Tree!Key(args[2 * i - 1].of), args[2 * i]>>]
           a == <<Tree!Key(args[Len(args)].of), Tree!NilValue>>
           odd == <<a, Tree!OddPair>>
<1>1. n \in Nat
  <2>1. Len(args) \in Nat
    BY SequenceIs
  <2> QED BY <2>1
<1>2. Tree!normalize(args) = IF Len(args) % 2 = 0 THEN pairs ELSE pairs \o odd
  BY DEF Tree!normalize
<1> HIDE DEF n
<1>3. pairs = [i \in 1..n |-> pairs[i]]
  OBVIOUS
<1> HIDE DEF pairs, a
<1>4. IsSeq(pairs)
  BY <1>1, <1>3, Tabulated
<1>5. IsSeq(odd)
  <2>1. odd \in Seq({a, Tree!OddPair})
    OBVIOUS
  <2> HIDE DEF odd
  <2> QED BY <2>1, Sequence
<1> HIDE DEF odd
<1>6. IsSeq(Tree!normalize(args))
  BY <1>2, <1>4, <1>5, Joined
<1> QED BY <1>6, Joined DEF Tree!newContext

-----------------------------------------------------------------------------
(* The invariant.                                                          *)
Made == given[2]
RecordWhole(r) == r = [lvl |-> r.lvl, ctx |-> r.ctx]

Intacts(w) == IsSeq(w) /\ \A i \in 1..Len(w) : Tree!Intact(Made, w[i][2])
CalledFirst(passes) ==
  IsSeq(passes) /\ \A i \in 1..Len(passes) :
    passes[i] = IF i = 1 THEN {j \in DOMAIN Made.ctx : Tree!Evaluates(Made.ctx[j])} ELSE {}

RecordInv ==
  /\ IsSeq(Made.ctx) /\ RecordWhole(Made) /\ RecordWhole(record) /\ record.lvl = Made.lvl
  /\ Carried(Made, record.ctx, evaluated # <<>>)
  /\ CalledFirst(evaluated)
  /\ Intacts(wrote)

LEMMA PairAdded ==
  ASSUME RecordInv, UNCHANGED <<given, wrote, evaluated>>, NEW pair, ~Tree!IsLazy(pair), pair # Tree!BadLazy,
         record' = Tree!WithCtx(record, Append(record.ctx, pair))
  PROVE  RecordInv'
<1>1. record'.ctx = Append(record.ctx, pair) /\ record'.lvl = Made.lvl /\ RecordWhole(record')
  BY DEF RecordInv, Tree!WithCtx, RecordWhole
<1>2. Carried(Made, record'.ctx, evaluated # <<>>)
  BY <1>1, CarriedOn DEF RecordInv
<1> QED BY <1>1, <1>2 DEF RecordInv, Made, CalledFirst, Intacts

LEMMA PassMade ==
  ASSUME RecordInv, Tree!Pass, UNCHANGED given
  PROVE  /\ RecordWhole(record') /\ record'.lvl = Made.lvl /\ Carried(Made, record'.ctx, evaluated' # <<>>)
         /\ CalledFirst(evaluated')
         /\ Tree!Intact(Made, record')
<1> DEFINE b == evaluated # <<>>
           c == record.ctx
           e == Tree!EvaluateLazies(c)
<1>1. record' = [lvl |-> Made.lvl, ctx |-> e] /\ RecordWhole(record')
  BY DEF RecordInv, Tree!Pass, Tree!WithCtx, RecordWhole
<1>2. b \in BOOLEAN /\ IsSeq(Made.ctx) /\ Carried(Made, c, b) /\ CalledFirst(evaluated)
  BY DEF RecordInv
<1> DEFINE places == {i \in DOMAIN c : Tree!Evaluates(c[i])}
<1>3. evaluated' = Append(evaluated, places)
  BY DEF Tree!Pass
<1>4. places = IF b THEN {} ELSE {i \in DOMAIN Made.ctx : Tree!Evaluates(Made.ctx[i])}
  <2> HIDE DEF b, c
  <2> QED BY <1>2, CalledPlaces
<1> HIDE DEF places
<1>5. /\ IsSeq(evaluated) /\ Len(evaluated) \in Nat
      /\ IsSeq(evaluated') /\ Len(evaluated') = Len(evaluated) + 1
      /\ (\A i \in 1..Len(evaluated) : evaluated'[i] = evaluated[i])
      /\ evaluated'[Len(evaluated) + 1] = places
  BY <1>2, <1>3, Appended, SequenceIs DEF CalledFirst
<1>6. evaluated' # <<>>
  BY <1>5
<1>7. CalledFirst(evaluated')
  <2>1. ASSUME NEW i \in 1..Len(evaluated')
        PROVE  evaluated'[i] = IF i = 1 THEN {j \in DOMAIN Made.ctx : Tree!Evaluates(Made.ctx[j])} ELSE {}
    <3>1. CASE i \in 1..Len(evaluated)
      BY <1>2, <1>5, <3>1 DEF CalledFirst
    <3>2. CASE i = Len(evaluated) + 1
      <4>1. b <=> i # 1
        <5>1. Len(evaluated) = 0 => evaluated = <<>>
          BY <1>5, SequenceIs, EmptySeq DEF IsSeq, Tree!IsSeq
        <5> QED BY <1>5, <3>2, <5>1
      <4> HIDE DEF b
      <4> QED BY <1>4, <1>5, <3>2, <4>1
    <3> QED BY <1>5, <2>1, <3>1, <3>2
  <2> QED BY <1>5, <2>1 DEF CalledFirst
<1> HIDE DEF b, c
<1>8. Carried(Made, e, TRUE) /\ \A i \in 1..Len(e) : ~Tree!IsLazy(e[i])
  BY <1>2, CarriedThrough
<1> HIDE DEF e
<1>9. Tree!Intact(Made, [lvl |-> Made.lvl, ctx |-> e])
  BY <1>2, <1>8, CarriedIntact
<1>10. Carried(Made, record'.ctx, evaluated' # <<>>)
  BY <1>1, <1>6, <1>8
<1> QED BY <1>1, <1>7, <1>9, <1>10

LEMMA RecordStep ==
  ASSUME RecordInv, given # <<>>, Tree!Next
  PROVE  RecordInv'
<1>1. UNCHANGED given
  BY DEF Tree!Next, Tree!Write, Tree!Stream, Tree!Discard, Tree!Sync, Tree!Caller, Tree!Lazy, Tree!Filter,
     Tree!Multi, Tree!Failover
<1>2. ASSUME UNCHANGED <<record, wrote, evaluated>> PROVE RecordInv'
  BY <1>1, <1>2 DEF RecordInv, Made, CalledFirst, Intacts
<1>3. CASE Tree!Stream
  <2>1. Tree!Pass /\ (wrote' = wrote \/ wrote' = Append(wrote, <<Tree!Top.at.name, record'>>))
    BY <1>3 DEF Tree!Stream
  <2> DEFINE x == <<Tree!Top.at.name, record'>>
  <2>2. x[2] = record'
    OBVIOUS
  <2>3. wrote' = wrote \/ wrote' = Append(wrote, x)
    BY <2>1
  <2> HIDE DEF x
  <2>4. Tree!Intact(Made, x[2]) /\ CalledFirst(evaluated')
        /\ RecordWhole(record') /\ record'.lvl = Made.lvl /\ Carried(Made, record'.ctx, evaluated' # <<>>)
    BY <1>1, <2>1, <2>2, PassMade
  <2>5. Intacts(wrote')
    <3>1. Intacts(wrote) /\ IsSeq(wrote) /\ Len(wrote) \in Nat
      BY SequenceIs DEF RecordInv, Intacts
    <3>2. CASE wrote' = Append(wrote, x)
      <4>1. /\ IsSeq(wrote') /\ Len(wrote') = Len(wrote) + 1 /\ wrote'[Len(wrote) + 1] = x
            /\ \A i \in 1..Len(wrote) : wrote'[i] = wrote[i]
        BY <3>1, <3>2, Appended
      <4>2. ASSUME NEW i \in 1..Len(wrote') PROVE Tree!Intact(Made, wrote'[i][2])
        <5>1. i \in 1..Len(wrote) \/ i = Len(wrote) + 1
          BY <3>1, <4>1
        <5>2. CASE i \in 1..Len(wrote)
          BY <3>1, <4>1, <5>2 DEF Intacts
        <5>3. CASE i = Len(wrote) + 1
          BY <2>4, <4>1, <5>3
        <5> QED BY <5>1, <5>2, <5>3
      <4> QED BY <4>1, <4>2 DEF Intacts
    <3> QED BY <2>3, <3>1, <3>2
  <2> QED BY <1>1, <2>4, <2>5 DEF RecordInv, Made, CalledFirst, Intacts
<1>4. CASE Tree!Lazy
  <2>1. Tree!Pass /\ UNCHANGED wrote
    BY <1>4 DEF Tree!Lazy
  <2>2. CalledFirst(evaluated') /\ RecordWhole(record') /\ record'.lvl = Made.lvl
        /\ Carried(Made, record'.ctx, evaluated' # <<>>)
    BY <1>1, <2>1, PassMade
  <2> QED BY <1>1, <2>1, <2>2 DEF RecordInv, Made, CalledFirst, Intacts
<1>5. CASE Tree!Caller
  <2>1. UNCHANGED <<given, wrote, evaluated>> /\ record' = Tree!WithCtx(record, Append(record.ctx, CallerPair))
    BY <1>5 DEF Tree!Caller, CallerPair
  <2> QED BY <2>1, PairAdded, AddedPairs
<1>6. CASE Tree!Failover
  <2>1. UNCHANGED <<given, wrote, evaluated>>
    BY <1>6 DEF Tree!Failover
  <2> DEFINE pair == Tree!FailoverError(Tree!Top.next, err)
  <2>2. UNCHANGED record \/ record' = Tree!WithCtx(record, Append(record.ctx, pair))
    BY <1>6 DEF Tree!Failover
  <2>3. ~Tree!IsLazy(pair) /\ pair # Tree!BadLazy
    BY AddedPairs
  <2> HIDE DEF pair
  <2> QED BY <1>2, <2>1, <2>2, <2>3, PairAdded
<1> QED BY <1>2, <1>3, <1>4, <1>5, <1>6
    DEF Tree!Next, Tree!Write, Tree!Discard, Tree!Sync, Tree!Filter, Tree!Multi

-----------------------------------------------------------------------------
(* A failover of streams: between two of them, and within one.             *)
Context(hs, r, k) == Tree!EvaluateLazies(r.ctx) \o Tree!Errors(hs, k)

Within(hs, r, k) ==
  /\ wrote = <<>> /\ Tree!FailedBefore(hs, k)
  /\ record = Tree!WithCtx(r, IF k = 1 THEN r.ctx ELSE Context(hs, r, k - 1))
Between(hs, r, k) ==
  IF k = 0 THEN wrote = <<>> /\ record = r
  ELSE /\ Tree!FailedBefore(hs, k)
       /\ record = Tree!WithCtx(r, Context(hs, r, k - 1))
       /\ IF hs[k].works THEN err = Tree!NoError /\ wrote = <<<<hs[k].name, record>>>>
          ELSE err = hs[k].name /\ wrote = <<>>

Waits(k) == [at |-> given[1], next |-> k]
FailoverInv ==
  Tree!OfStreams(given[1]) =>
    LET hs == given[1].hs IN
      \/ calls = <<>> /\ Tree!FailsOver(hs, Made)
      \/ \E k \in 0..Len(hs) : calls = <<Waits(k)>> /\ Between(hs, Made, k)
      \/ \E k \in 1..Len(hs) : calls = <<Waits(k), Tree!Frame(hs[k])>> /\ Within(hs, Made, k)

TreeInv ==
  IF given = <<>> THEN calls = <<>> /\ wrote = <<>> /\ evaluated = <<>> /\ err = Tree!NoError
  ELSE given[1] \in Trees /\ RecordInv /\ FailoverInv

LEMMA StreamsIs ==
  ASSUME NEW h \in Trees, Tree!OfStreams(h)
  PROVE  /\ h.kind = "failover" /\ Len(h.hs) \in Nat /\ DOMAIN h.hs = 1..Len(h.hs)
         /\ Len(h.hs) = 0 <=> h.hs = <<>>
         /\ \A k \in 1..Len(h.hs) : h.hs[k].kind = "stream" /\ h.hs[k].works \in BOOLEAN /\ h.hs[k].name # Tree!NoError
<1>1. h.kind = "failover" /\ \A i \in DOMAIN h.hs : h.hs[i].kind = "stream"
  BY DEF Tree!OfStreams
<1>2. h.hs \in Seq(Trees)
  BY <1>1, TreesAssumption DEF Tree!Made, Tree!Wrapper, Tree!Filters, Tree!Group
<1>3. Len(h.hs) \in Nat /\ DOMAIN h.hs = 1..Len(h.hs) /\ (Len(h.hs) = 0 <=> h.hs = <<>>)
      /\ \A k \in 1..Len(h.hs) : h.hs[k] \in Trees
  BY <1>2, LenProperties, EmptySeq, ElementOfSeq
<1>4. \A g \in Trees : g.kind = "stream" => g.works \in BOOLEAN /\ g.name # Tree!NoError
  BY TreesAssumption DEF Tree!Made, Tree!Wrapper, Tree!Filters, Tree!Group
<1> QED BY <1>1, <1>3, <1>4

LEMMA ErrorsAre ==
  ASSUME NEW hs, NEW k \in Nat
  PROVE  /\ IsSeq(Tree!Errors(hs, k)) /\ Len(Tree!Errors(hs, k)) = k
         /\ \A i \in 1..k : Tree!Errors(hs, k)[i] = Tree!FailoverError(i, hs[i].name)
<1> DEFINE e == Tree!Errors(hs, k)
<1>1. e = [i \in 1..k |-> e[i]] /\ \A i \in 1..k : e[i] = Tree!FailoverError(i, hs[i].name)
  BY DEF Tree!Errors
<1> HIDE DEF e
<1>2. IsSeq(e) /\ Len(e) = k
  BY <1>1, Tabulated
<1> QED BY <1>1, <1>2 DEF e

LEMMA ContextIsSettled ==
  ASSUME NEW hs, NEW r, IsSeq(r.ctx), NEW k \in Nat
  PROVE  /\ IsSeq(Context(hs, r, k)) /\ Tree!EvaluateLazies(Context(hs, r, k)) = Context(hs, r, k)
         /\ Context(hs, r, 0) = Tree!EvaluateLazies(r.ctx)
         /\ Context(hs, r, k + 1) = Append(Context(hs, r, k), Tree!FailoverError(k + 1, hs[k + 1].name))
<1> DEFINE e == Tree!EvaluateLazies(r.ctx)
           n == Len(e)
<1>1. IsSeq(e) /\ \A i \in 1..n : ~Tree!IsLazy(e[i])
  BY PassIs
<1> HIDE DEF e
<1>2. n \in Nat
  BY <1>1, SequenceIs
<1> HIDE DEF n
<1>3. ASSUME NEW m \in Nat
      PROVE  /\ IsSeq(Context(hs, r, m)) /\ Len(Context(hs, r, m)) = n + m
             /\ \A i \in 1..(n + m) : Context(hs, r, m)[i]
                  = IF i <= n THEN e[i] ELSE Tree!FailoverError(i - n, hs[i - n].name)
  <2> DEFINE t == Tree!Errors(hs, m)
  <2>1. IsSeq(t) /\ Len(t) = m /\ \A i \in 1..m : t[i] = Tree!FailoverError(i, hs[i].name)
    BY ErrorsAre
  <2>2. Context(hs, r, m) = e \o t
    BY DEF Context, e
  <2> HIDE DEF t
  <2>3. /\ IsSeq(e \o t) /\ Len(e \o t) = n + m
        /\ \A i \in 1..(n + m) : (e \o t)[i] = IF i <= n THEN e[i] ELSE t[i - n]
    BY <1>1, <2>1, Joined DEF n
  <2>4. \A i \in 1..(n + m) : ~(i <= n) => i - n \in 1..m
    BY <1>2
  <2> QED BY <2>1, <2>2, <2>3, <2>4
<1>4. \A i \in 1..Len(Context(hs, r, k)) : ~Tree!IsLazy(Context(hs, r, k)[i])
  <2>1. ASSUME NEW i \in 1..(n + k) PROVE ~Tree!IsLazy(Context(hs, r, k)[i])
    <3>1. i <= n => i \in 1..n
      BY <1>2
    <3> QED BY <1>1, <1>3, <3>1, AddedPairs
  <2> QED BY <1>3, <2>1
<1>5. Context(hs, r, 0) = e
  <2>1. n + 0 = n /\ \A i \in 1..n : i <= n
    BY <1>2
  <2>2. IsSeq(Context(hs, r, 0)) /\ Len(Context(hs, r, 0)) = n /\ \A i \in 1..n : Context(hs, r, 0)[i] = e[i]
    BY <1>3, <2>1
  <2> QED BY <1>1, <2>2, SameSequence DEF n
<1>6. Context(hs, r, k + 1) = Append(Context(hs, r, k), Tree!FailoverError(k + 1, hs[k + 1].name))
  <2> DEFINE c == Context(hs, r, k)
             d == Context(hs, r, k + 1)
             x == Tree!FailoverError(k + 1, hs[k + 1].name)
  <2>1. /\ IsSeq(c) /\ Len(c) = n + k
        /\ \A i \in 1..(n + k) : c[i] = IF i <= n THEN e[i] ELSE Tree!FailoverError(i - n, hs[i - n].name)
    BY <1>3
  <2>2. /\ IsSeq(d) /\ Len(d) = n + (k + 1)
        /\ \A i \in 1..(n + (k + 1)) : d[i] = IF i <= n THEN e[i] ELSE Tree!FailoverError(i - n, hs[i - n].name)
    <3>1. k + 1 \in Nat
      OBVIOUS
    <3> QED BY <1>3, <3>1
  <2>3. d[n + k + 1] = x
    <3>1. n + k + 1 \in 1..(n + (k + 1)) /\ ~(n + k + 1 <= n) /\ (n + k + 1) - n = k + 1
      BY <1>2
    <3> QED BY <2>2, <3>1
  <2>4. \A i \in 1..(n + k) : i \in 1..(n + (k + 1)) /\ i # n + k + 1
    BY <1>2
  <2> HIDE DEF c, d, x
  <2>5. /\ IsSeq(Append(c, x)) /\ Len(Append(c, x)) = (n + k) + 1 /\ Append(c, x)[(n + k) + 1] = x
        /\ \A i \in 1..(n + k) : Append(c, x)[i] = c[i]
    BY <2>1, Appended
  <2>6. Len(d) = Len(Append(c, x))
    BY <1>2, <2>2, <2>5
  <2>7. ASSUME NEW i \in 1..Len(d) PROVE d[i] = Append(c, x)[i]
    <3>1. i \in 1..(n + k) \/ i = n + k + 1
      BY <1>2, <2>2
    <3>2. CASE i \in 1..(n + k)
      BY <2>1, <2>2, <2>4, <2>5, <3>2
    <3>3. CASE i = n + k + 1
      BY <2>3, <2>5, <3>3
    <3> QED BY <3>1, <3>2, <3>3
  <2>8. d = Append(c, x)
    BY <2>2, <2>5, <2>6, <2>7, SameSequence
  <2> QED BY <2>8 DEF c, d, x
<1> QED BY <1>3, <1>4, <1>5, <1>6, PassAgain DEF e

LEMMA FirstOfTwo ==
  ASSUME NEW a, NEW b, NEW s, s = <<a, b>>
  PROVE  SubSeq(s, 1, Len(s) - 1) = <<a>>
<1>1. s \in Seq({a, b}) /\ Len(s) - 1 = 1 /\ s[1] = a
  OBVIOUS
<1> DEFINE t == SubSeq(s, 1, 1)
<1>2. \A i \in 1..1 : s[i] \in {a, b}
  BY <1>1
<1>3. t \in Seq({a, b}) /\ Len(t) = 1 /\ t[1] = a
  <2>1. t \in Seq({a, b}) /\ Len(t) = 1 - 1 + 1 /\ \A i \in 1..(1 - 1 + 1) : t[i] = s[1 + i - 1]
    BY <1>2, SubSeqProperties
  <2> HIDE DEF t
  <2> QED BY <1>1, <2>1
<1> HIDE DEF t
<1>4. t = <<a>>
  <2>1. <<a>> \in Seq({a, b}) /\ Len(<<a>>) = 1 /\ <<a>>[1] = a
    OBVIOUS
  <2>2. \A i \in 1..Len(t) : t[i] = <<a>>[i]
    BY <1>3, <2>1
  <2> DEFINE u == <<a>>
  <2> HIDE DEF u
  <2>3. IsSeq(t) /\ IsSeq(u) /\ Len(t) = Len(u) /\ \A i \in 1..Len(t) : t[i] = u[i]
    BY <1>3, <2>1, <2>2, Sequence DEF u
  <2> QED BY <2>3, SameSequence DEF u
<1> QED BY <1>1, <1>4 DEF t

LEMMA TwoOfOne == \A a, b : Append(<<a>>, b) = <<a, b>>
<1> SUFFICES ASSUME NEW a, NEW b PROVE Append(<<a>>, b) = <<a, b>>
  OBVIOUS
<1> DEFINE s == <<a>>
           t == Append(s, b)
           u == <<a, b>>
<1>1. s \in Seq({a, b}) /\ Len(s) = 1 /\ s[1] = a /\ u \in Seq({a, b}) /\ Len(u) = 2 /\ u[1] = a /\ u[2] = b
  OBVIOUS
<1> HIDE DEF s, u
<1>2. t \in Seq({a, b}) /\ Len(t) = Len(s) + 1 /\ (\A i \in 1..Len(s) : t[i] = s[i]) /\ t[Len(s) + 1] = b
  BY <1>1, AppendProperties
<1> HIDE DEF t
<1>3. Len(t) = 2 /\ t[1] = a /\ t[2] = b
  BY <1>1, <1>2
<1>4. IsSeq(t) /\ IsSeq(u) /\ Len(t) = Len(u) /\ \A i \in 1..Len(t) : t[i] = u[i]
  BY <1>1, <1>2, <1>3, Sequence
<1>5. t = u
  BY <1>4, SameSequence
<1> QED BY <1>5 DEF s, t, u

(* A stream of a failover is done: it worked, or left its error.           *)
LEMMA StreamDone ==
  ASSUME given # <<>>, given[1] \in Trees, RecordInv, Tree!OfStreams(given[1]), Tree!Next, NEW k \in 1..Len(given[1].hs),
         calls = <<Waits(k), Tree!Frame(given[1].hs[k])>>, Within(given[1].hs, Made, k)
  PROVE  calls' = <<Waits(k)>> /\ Between(given[1].hs, Made, k)' /\ UNCHANGED given
<1> DEFINE hs == given[1].hs
           s == hs[k]
<1>1. k \in Nat /\ k # 0 /\ s.kind = "stream" /\ s.works \in BOOLEAN /\ s.name # Tree!NoError
  BY StreamsIs
<1>2. Len(calls) = 2 /\ calls # <<>> /\ Tree!Top = Tree!Frame(s) /\ Tree!Top.at = s
  BY DEF Tree!Top, Tree!Frame
<1>3. Tree!Stream
  BY <1>1, <1>2 DEF Tree!Next, Tree!Write, Tree!Discard, Tree!Sync, Tree!Caller, Tree!Lazy, Tree!Filter, Tree!Filters,
     Tree!Multi, Tree!Failover, Tree!Running
<1>4. /\ record' = Tree!WithCtx(record, Tree!EvaluateLazies(record.ctx)) /\ UNCHANGED given
      /\ wrote' = IF s.works THEN Append(wrote, <<s.name, record'>>) ELSE wrote
      /\ err' = IF s.works THEN Tree!NoError ELSE s.name
      /\ calls' = SubSeq(calls, 1, Len(calls) - 1)
  BY <1>2, <1>3 DEF Tree!Stream, Tree!Pass, Tree!Return
<1>5. calls' = <<Waits(k)>>
  <2> DEFINE a == Waits(k)
             b == Tree!Frame(given[1].hs[k])
  <2>1. calls = <<a, b>> /\ calls' = SubSeq(calls, 1, Len(calls) - 1)
    BY <1>4
  <2> HIDE DEF a, b
  <2>2. calls' = <<a>>
    BY <2>1, FirstOfTwo
  <2> QED BY <2>2 DEF a
<1>6. record' = Tree!WithCtx(Made, Context(hs, Made, k - 1))
  <2>1. IsSeq(Made.ctx) /\ k - 1 \in Nat
    BY <1>1 DEF RecordInv
  <2>2. Tree!EvaluateLazies(record.ctx) = Context(hs, Made, k - 1)
    <3>1. CASE k = 1
      <4>1. record.ctx = Made.ctx /\ k - 1 = 0
        BY <3>1 DEF Within, Tree!WithCtx
      <4> QED BY <2>1, <4>1, ContextIsSettled
    <3>2. CASE k # 1
      <4>1. record.ctx = Context(hs, Made, k - 1)
        BY <3>2 DEF Within, Tree!WithCtx
      <4> QED BY <2>1, <4>1, ContextIsSettled
    <3> QED BY <3>1, <3>2
  <2>3. record.lvl = Made.lvl
    BY DEF RecordInv
  <2> QED BY <1>4, <2>2, <2>3 DEF Tree!WithCtx
<1>7. wrote = <<>> /\ Tree!FailedBefore(hs, k)
  BY DEF Within
<1>8. wrote' = IF s.works THEN <<<<s.name, record'>>>> ELSE <<>>
  <2> DEFINE x == <<s.name, record'>>
  <2>1. Append(<<>>, x) = <<x>>
    OBVIOUS
  <2> QED BY <1>4, <1>7, <2>1
<1>9. Made' = Made
  BY <1>4 DEF Made
<1> QED BY <1>1, <1>4, <1>5, <1>6, <1>7, <1>8, <1>9 DEF Between, Tree!FailedBefore

(* A failover goes on to the next stream, or returns.                      *)
LEMMA FailoverGoesOn ==
  ASSUME given # <<>>, given[1] \in Trees, RecordInv, Tree!OfStreams(given[1]), Tree!Next, NEW k \in 0..Len(given[1].hs),
         calls = <<Waits(k)>>, Between(given[1].hs, Made, k)
  PROVE  FailoverInv'
<1> DEFINE h == given[1]
           hs == h.hs
           n == Len(hs)
           failed == k > 0 /\ err # Tree!NoError
           c == Context(hs, Made, k - 1)
<1>1. h.kind = "failover" /\ n \in Nat /\ DOMAIN hs = 1..n /\ (n = 0 <=> hs = <<>>) /\ k \in Nat
  BY StreamsIs
<1>2. Len(calls) = 1 /\ calls # <<>> /\ Tree!Top = Waits(k) /\ Waits(k).at = h /\ Waits(k).next = k
  BY DEF Tree!Top, Waits
<1>3. Tree!Failover
  BY <1>1, <1>2 DEF Tree!Next, Tree!Write, Tree!Stream, Tree!Discard, Tree!Sync, Tree!Caller, Tree!Lazy, Tree!Filter,
     Tree!Filters, Tree!Multi, Tree!Running
<1>4. /\ UNCHANGED <<given, wrote>>
      /\ record' = IF failed THEN Tree!WithCtx(record, Append(record.ctx, Tree!FailoverError(k, err))) ELSE record
      /\ IF k < n /\ (k = 0 \/ failed) THEN Tree!CallNext
         ELSE Tree!Return(IF failed THEN err ELSE Tree!NoError)
  BY <1>2, <1>3 DEF Tree!Failover
<1>5. /\ Tree!Return(IF failed THEN err ELSE Tree!NoError)
           => calls' = <<>> /\ err' = IF failed THEN err ELSE Tree!NoError
      /\ Tree!CallNext => calls' = <<Waits(k + 1), Tree!Frame(hs[k + 1])>>
  <2>1. SubSeq(calls, 1, Len(calls) - 1) = <<>>
    BY <1>2, SubSeqEmpty
  <2>2. [calls EXCEPT ![Len(calls)].next = @ + 1] = <<Waits(k + 1)>>
    <3> DEFINE w == Waits(k)
               v == Waits(k + 1)
    <3>1. [w EXCEPT !.next = w.next + 1] = v
      BY DEF Waits
    <3> HIDE DEF w, v
    <3>2. calls = <<w>> /\ Len(calls) = 1 /\ calls[1] = w
      BY <1>2 DEF w
    <3>3. [calls EXCEPT ![1].next = @ + 1] = [calls EXCEPT ![1] = [calls[1] EXCEPT !.next = calls[1].next + 1]]
      OBVIOUS
    <3>4. [calls EXCEPT ![1].next = @ + 1] = [calls EXCEPT ![1] = v]
      BY <3>1, <3>2, <3>3, Zenon
    <3>5. [calls EXCEPT ![1] = v] = <<v>>
      BY <3>2
    <3> QED BY <3>2, <3>4, <3>5, Zenon DEF v
  <2>3. Append(<<Waits(k + 1)>>, Tree!Frame(hs[k + 1])) = <<Waits(k + 1), Tree!Frame(hs[k + 1])>>
    BY TwoOfOne
  <2>4. Tree!CallNext => calls' = Append([calls EXCEPT ![Len(calls)].next = @ + 1], Tree!Frame(hs[k + 1]))
    BY <1>2 DEF Tree!CallNext
  <2> QED BY <2>1, <2>2, <2>3, <2>4 DEF Tree!Return
<1>6. given' = given /\ Made' = Made
  BY <1>4 DEF Made
<1>7. CASE k = 0
  <2>1. ~failed /\ wrote' = <<>> /\ record' = Made /\ RecordWhole(Made)
    BY <1>4, <1>7 DEF Between, RecordInv
  <2> HIDE DEF failed
  <2>2. CASE n = 0
    <3>1. calls' = <<>> /\ err' = Tree!NoError
      BY <1>4, <1>5, <1>7, <2>1, <2>2
    <3>2. Tree!FailsOver(hs, Made)'
      BY <1>1, <1>6, <2>1, <2>2, <3>1 DEF Tree!FailsOver
    <3> QED BY <1>6, <3>1, <3>2 DEF FailoverInv
  <2>3. CASE n # 0
    <3>1. calls' = <<Waits(1), Tree!Frame(hs[1])>> /\ 1 \in 1..n
      BY <1>1, <1>4, <1>5, <1>7, <2>3
    <3>2. Within(hs, Made, 1)'
      BY <1>6, <2>1 DEF Within, Tree!FailedBefore, Tree!WithCtx, RecordWhole
    <3> QED BY <1>6, <3>1, <3>2 DEF FailoverInv, Waits
  <2> QED BY <2>2, <2>3
<1>8. CASE k # 0
  <2>1. /\ k \in 1..n /\ Tree!FailedBefore(hs, k) /\ record = Tree!WithCtx(Made, c)
        /\ IF hs[k].works THEN err = Tree!NoError /\ wrote = <<<<hs[k].name, record>>>>
           ELSE err = hs[k].name /\ wrote = <<>>
    BY <1>1, <1>8 DEF Between
  <2>2. hs[k].works \in BOOLEAN /\ hs[k].name # Tree!NoError
    BY <2>1, StreamsIs
  <2>3. failed <=> ~hs[k].works
    BY <1>1, <1>8, <2>1, <2>2
  <2> HIDE DEF failed
  <2>4. CASE hs[k].works
    <3>1. calls' = <<>> /\ err' = Tree!NoError /\ wrote' = <<<<hs[k].name, Tree!WithCtx(Made, c)>>>>
      BY <1>4, <1>5, <1>8, <2>1, <2>3, <2>4
    <3>2. Tree!FailsOver(hs, Made)'
      BY <1>1, <1>6, <2>1, <2>4, <3>1 DEF Tree!FailsOver, Context
    <3> QED BY <1>6, <3>1, <3>2 DEF FailoverInv
  <2>5. CASE ~hs[k].works
    <3>1. record' = Tree!WithCtx(Made, Context(hs, Made, k))
      <4>1. k - 1 \in Nat /\ (k - 1) + 1 = k /\ IsSeq(Made.ctx)
        BY <1>1, <1>8 DEF RecordInv
      <4>2. Context(hs, Made, k) = Append(c, Tree!FailoverError(k, hs[k].name))
        BY <4>1, ContextIsSettled
      <4> HIDE DEF c
      <4>3. record.lvl = Made.lvl /\ record.ctx = c
        BY <2>1 DEF Tree!WithCtx
      <4> QED BY <1>4, <2>1, <2>3, <2>5, <4>2, <4>3 DEF Tree!WithCtx
    <3>2. wrote' = <<>> /\ \A i \in 1..k : ~hs[i].works
      <4>1. \A i \in 1..k : i \in 1..(k - 1) \/ i = k
        BY <1>1
      <4> QED BY <1>4, <2>1, <2>5, <4>1 DEF Tree!FailedBefore
    <3>3. CASE k < n
      <4>1. calls' = <<Waits(k + 1), Tree!Frame(hs[k + 1])>> /\ k + 1 \in 1..n /\ (k + 1) - 1 = k /\ k + 1 # 1
        BY <1>1, <1>4, <1>5, <1>8, <2>3, <2>5, <3>3
      <4>2. Within(hs, Made, k + 1)'
        BY <1>6, <3>1, <3>2, <4>1 DEF Within, Tree!FailedBefore, Context
      <4> QED BY <1>6, <4>1, <4>2 DEF FailoverInv, Waits
    <3>4. CASE ~(k < n)
      <4>1. calls' = <<>> /\ err' = hs[k].name /\ k = n
        BY <1>1, <1>4, <1>5, <2>1, <2>3, <2>5, <3>4
      <4>2. Tree!FailsOver(hs, Made)'
        BY <1>1, <1>6, <1>8, <3>2, <4>1 DEF Tree!FailsOver
      <4> QED BY <1>6, <4>1, <4>2 DEF FailoverInv
    <3> QED BY <3>3, <3>4
  <2> QED BY <2>2, <2>4, <2>5
<1> QED BY <1>7, <1>8

LEMMA TreeInit == Tree!Init => TreeInv
BY DEF Tree!Init, TreeInv

LEMMA WriteMade ==
  ASSUME TreeInv, Tree!Write
  PROVE  TreeInv'
<1>1. given = <<>> /\ wrote' = <<>> /\ evaluated' = <<>> /\ err' = err
  BY DEF Tree!Write, TreeInv
<1>2. PICK h \in Trees, lvl \in RecordLevels, prefix \in Prefixes, args \in Arguments :
        /\ record' = [lvl |-> lvl, ctx |-> Tree!newContext(prefix, args)]
        /\ given' = <<h, record'>> /\ calls' = <<Tree!Frame(h)>>
  BY DEF Tree!Write
<1>3. IsSeq(prefix) /\ IsSeq(args)
  BY TreesAssumption DEF IsSeq
<1>4. IsSeq(record'.ctx) /\ RecordWhole(record') /\ given' # <<>> /\ given'[1] = h /\ Made' = record'
  BY <1>2, <1>3, ContextIs DEF RecordWhole, Made
<1> DEFINE r == record'
<1>5. Carried(r, r.ctx, FALSE)
  <2>1. Len(r.ctx) \in Nat /\ DOMAIN r.ctx = 1..Len(r.ctx) /\ IsSeq(r.ctx)
    BY <1>4, SequenceIs
  <2> HIDE DEF r
  <2>2. Lengthened(r, r.ctx)
    BY <2>1 DEF Lengthened
  <2>3. Untouched(r, r.ctx)
    BY DEF Untouched, Said
  <2> QED BY <2>2, <2>3 DEF Carried
<1>6. IsSeq(<<>>) /\ Len(<<>>) = 0
  BY EmptySeq, Sequence
<1>7. RecordInv'
  <2>1. Intacts(wrote)' /\ CalledFirst(evaluated)'
    BY <1>1, <1>6 DEF Intacts, CalledFirst
  <2>2. Carried(Made, record.ctx, evaluated # <<>>)'
    BY <1>1, <1>4, <1>5
  <2> QED BY <1>4, <2>1, <2>2 DEF RecordInv
<1>8. FailoverInv'
  <2> SUFFICES ASSUME Tree!OfStreams(h) PROVE FailoverInv'
    BY <1>4 DEF FailoverInv
  <2>1. Len(h.hs) \in Nat
    BY StreamsIs
  <2>2. calls' = <<Waits(0)>>' /\ Between(h.hs, Made, 0)'
    BY <1>1, <1>2, <1>4 DEF Tree!Frame, Waits, Between
  <2>3. 0 \in 0..Len(h.hs)
    BY <2>1
  <2> QED BY <1>4, <2>2, <2>3 DEF FailoverInv
<1> QED BY <1>4, <1>7, <1>8 DEF TreeInv

LEMMA TreeStep == TreeInv /\ [Tree!Next]_(Tree!treeVars) => TreeInv'
<1> SUFFICES ASSUME TreeInv, [Tree!Next]_(Tree!treeVars) PROVE TreeInv'
  OBVIOUS
<1>1. CASE UNCHANGED Tree!treeVars
  <2>1. UNCHANGED <<given, calls, record, wrote, evaluated, err>>
    BY <1>1 DEF Tree!treeVars
  <2>2. UNCHANGED RecordInv
    BY <2>1 DEF RecordInv, Made, CalledFirst, Intacts
  <2>3. UNCHANGED FailoverInv
    BY <2>1 DEF FailoverInv, Made, Waits, Between, Within, Tree!FailsOver
  <2> QED BY <2>1, <2>2, <2>3 DEF TreeInv
<1>2. CASE Tree!Next /\ given = <<>>
  <2>1. calls = <<>>
    BY <1>2 DEF TreeInv
  <2>2. Tree!Write
    BY <1>2, <2>1 DEF Tree!Next, Tree!Stream, Tree!Discard, Tree!Sync, Tree!Caller, Tree!Lazy, Tree!Filter,
       Tree!Multi, Tree!Failover, Tree!Running
  <2> QED BY <2>2, WriteMade
<1>3. CASE Tree!Next /\ given # <<>>
  <2>1. given[1] \in Trees /\ RecordInv /\ FailoverInv
    BY <1>3 DEF TreeInv
  <2>2. given' = given
    BY <1>3 DEF Tree!Next, Tree!Write, Tree!Stream, Tree!Discard, Tree!Sync, Tree!Caller, Tree!Lazy, Tree!Filter,
       Tree!Multi, Tree!Failover
  <2>3. RecordInv'
    BY <1>3, <2>1, RecordStep
  <2>4. FailoverInv'
    <3> SUFFICES ASSUME Tree!OfStreams(given[1]) PROVE FailoverInv'
      BY <2>2 DEF FailoverInv
    <3> DEFINE hs == given[1].hs
    <3>1. CASE calls = <<>>
      BY <1>3, <3>1 DEF Tree!Next, Tree!Write, Tree!Stream, Tree!Discard, Tree!Sync, Tree!Caller, Tree!Lazy,
         Tree!Filter, Tree!Multi, Tree!Failover, Tree!Running
    <3>2. CASE \E k \in 0..Len(hs) : calls = <<Waits(k)>> /\ Between(hs, Made, k)
      BY <1>3, <2>1, <3>2, FailoverGoesOn
    <3>3. CASE \E k \in 1..Len(hs) : calls = <<Waits(k), Tree!Frame(hs[k])>> /\ Within(hs, Made, k)
      <4>1. PICK k \in 1..Len(hs) : calls = <<Waits(k), Tree!Frame(hs[k])>> /\ Within(hs, Made, k)
        BY <3>3
      <4>2. calls' = <<Waits(k)>> /\ Between(hs, Made, k)'
        BY <1>3, <2>1, <4>1, StreamDone
      <4>3. Waits(k)' = Waits(k) /\ hs' = hs
        BY <2>2 DEF Waits
      <4>4. k \in 0..Len(hs)
        BY <2>1, StreamsIs
      <4> QED BY <2>2, <4>2, <4>3, <4>4 DEF FailoverInv
    <3> QED BY <2>1, <3>1, <3>2, <3>3 DEF FailoverInv
  <2> QED BY <1>3, <2>1, <2>2, <2>3, <2>4 DEF TreeInv
<1> QED BY <1>1, <1>2, <1>3

LEMMA TreeHolds == TreeInv => TreesSound
<1> SUFFICES ASSUME TreeInv, given # <<>>
             PROVE  /\ Tree!FunctionsCalledOnce(given[2])
                    /\ \A i \in DOMAIN wrote : Tree!Intact(given[2], wrote[i][2])
                    /\ Tree!OfStreams(given[1]) /\ calls = <<>> => Tree!FailsOver(given[1].hs, given[2])
  BY DEF TreesSound, Tree!TreesSound
<1>1. RecordInv /\ FailoverInv /\ given[1] \in Trees
  BY DEF TreeInv
<1>2. Tree!FunctionsCalledOnce(given[2])
  <2>1. CalledFirst(evaluated) /\ DOMAIN evaluated = 1..Len(evaluated)
    BY <1>1, SequenceIs DEF RecordInv, CalledFirst
  <2> QED BY <2>1 DEF CalledFirst, Made, Tree!FunctionsCalledOnce
<1>3. \A i \in DOMAIN wrote : Tree!Intact(given[2], wrote[i][2])
  <2>1. Intacts(wrote) /\ DOMAIN wrote = 1..Len(wrote)
    BY <1>1, SequenceIs DEF RecordInv, Intacts
  <2> QED BY <2>1 DEF Intacts, Made
<1>4. ASSUME Tree!OfStreams(given[1]), calls = <<>> PROVE Tree!FailsOver(given[1].hs, given[2])
  <2>1. \A a : calls # <<a>>
    BY <1>4
  <2>2. \A a, b : calls # <<a, b>>
    BY <1>4
  <2> QED BY <1>1, <1>4, <2>1, <2>2 DEF FailoverInv, Made
<1> QED BY <1>2, <1>3, <1>4

(* Whatever tree of handlers a record goes through, a stream gets all it   *)
(* was made with, in place and evaluated; each function is called once; a  *)
(* bad lazy value is complained of once; and a failover of streams writes  *)
(* to the first that works, with the errors of those before it.            *)
THEOREM TreesAreSound == TreeSpec => []TreesSound
<1>1. TreeSpec => []TreeInv
  BY TreeInit, TreeStep, PTL DEF TreeSpec, Tree!Spec
<1> QED BY <1>1, TreeHolds, PTL

=============================================================================
