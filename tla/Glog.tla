-------------------------------- MODULE Glog --------------------------------
(***************************************************************************)
(* log.GlogHandler (log/handler_glog.go): the filter in front of a log     *)
(* handler.  A record passes if its level is within the global verbosity   *)
(* or within the level of the first Vmodule rule that matches its call     *)
(* site; the outcome of the match is cached by call site.  The verbosity,  *)
(* the number of rules and the backtrace flag are read atomically and      *)
(* without the lock, one after the other, while other goroutines change    *)
(* them.                                                                   *)
(*                                                                         *)
(* No section of h.lock has a waiting point: each is one action.  Of what  *)
(* such a section changes, only the flag it stores last is read without    *)
(* the lock, so nobody can tell it from a single step.                     *)
(***************************************************************************)
EXTENDS Integers, Sequences, FiniteSets

CONSTANTS
  Loggers,       \* goroutines calling Log
  Sites,         \* call sites
  NoSite,        \* the empty location
  RecordLevels,  \* levels of the records logged
  Verbosities,   \* arguments of Verbosity
  Rulesets       \* arguments of Vmodule: sequences of rules, see Rule

LvlInfo == 3

(* One rule of a ruleset: whether it parses, the call sites its pattern    *)
(* matches and the level it gives them.                                    *)
Rule == [ok : BOOLEAN, sites : SUBSET Sites, level : Int]

ASSUME SitesAssumption == NoSite \notin Sites
ASSUME LevelsAssumption == RecordLevels \subseteq 0..5 /\ Verbosities \subseteq Nat
ASSUME RulesetsAssumption == Rulesets \subseteq Seq(Rule)

VARIABLES
  level,      \* h.level
  override,   \* h.override
  backtrace,  \* h.backtrace > 0
  patterns,   \* h.patterns, and the rules left out of it, see Effective
  siteCache,  \* siteCache[s]: the cached level, or Uncached
  made,       \* whether h.siteCache is a map yet: writing to nil panics
  location,   \* h.location
  lpc,        \* lpc[l]: where logger l is in Log
  rec,        \* rec[l]: call site and level of the record l logs
  own,        \* history: the level the record had when Log was called
  sawLevel,   \* history: the verbosities in force since then
  sawRule     \* history: the rule levels of its call site since then

filterVars == <<override, patterns, siteCache, made>>
traceVars == <<backtrace, location>>
callVars == <<own, sawLevel, sawRule>>
vars == <<level, filterVars, traceVars, lpc, rec, callVars>>

LoggerStates ==
  {"idle", "backtrace", "match", "level", "override", "lookup", "calculate", "emit"}

Uncached == -1

-----------------------------------------------------------------------------
(* Vmodule leaves the rules with a level of zero or less out of h.patterns; *)
(* here they stay where they are, and neither match nor count.             *)
Effective(ps) == {i \in DOMAIN ps : ps[i].level > 0}

Matching(ps, s) == {i \in Effective(ps) : s \in ps[i].sites}

(* The level of the first rule that matches the call site, 0 if none does. *)
RuleLevel(ps, s) ==
  IF Matching(ps, s) = {} THEN 0
  ELSE ps[CHOOSE i \in Matching(ps, s) : \A j \in Matching(ps, s) : i <= j].level

Parses(ruleset) == \A i \in DOMAIN ruleset : ruleset[i].ok

Active(l) == lpc[l] # "idle"

(* History: a change is noted by every call under way.                     *)
NoteLevel(v) ==
  sawLevel' = [l \in Loggers |-> IF Active(l) THEN sawLevel[l] \cup {v} ELSE sawLevel[l]]
NoteRules(ps) ==
  sawRule' = [l \in Loggers |-> IF Active(l) THEN sawRule[l] \cup {RuleLevel(ps, rec[l].site)}
                                ELSE sawRule[l]]

Init ==
  /\ level = 0 /\ override = 0 /\ backtrace = FALSE
  /\ patterns = <<>>
  /\ siteCache = [s \in Sites |-> Uncached]
  /\ made = FALSE
  /\ location = NoSite
  /\ lpc = [l \in Loggers |-> "idle"]
  /\ rec = [l \in Loggers |-> [site |-> NoSite, lvl |-> 0]]
  /\ own = [l \in Loggers |-> 0]
  /\ sawLevel = [l \in Loggers |-> {}]
  /\ sawRule = [l \in Loggers |-> {}]

-----------------------------------------------------------------------------
(* Configuration, by any goroutine at any time.                            *)

Verbosity(v) ==
  /\ level' = v
  /\ NoteLevel(v)
  /\ UNCHANGED <<filterVars, traceVars, lpc, rec, own, sawRule>>

(* Mutant: the rules left out are counted as overrides.                    *)
VmoduleCountAll(ruleset) ==
  /\ Parses(ruleset)
  /\ patterns' = ruleset
  /\ siteCache' = [s \in Sites |-> Uncached]
  /\ made' = TRUE
  /\ override' = Len(ruleset)
  /\ NoteRules(ruleset)
  /\ UNCHANGED <<level, traceVars, lpc, rec, own, sawLevel>>

(* A ruleset with a bad rule in it changes nothing.                        *)
Vmodule(ruleset) ==
  /\ Parses(ruleset)
  /\ patterns' = ruleset
  /\ siteCache' = [s \in Sites |-> Uncached]
  /\ made' = TRUE
  /\ override' = Cardinality(Effective(ruleset))
  /\ NoteRules(ruleset)
  /\ UNCHANGED <<level, traceVars, lpc, rec, own, sawLevel>>

BacktraceAt(s) ==
  /\ location' = s
  /\ backtrace' = TRUE
  /\ UNCHANGED <<level, filterVars, lpc, rec, callVars>>

-----------------------------------------------------------------------------
(* Log.                                                                    *)

(* The call goes on at pc; when it returns its history is over.            *)
Go(l, pc) ==
  /\ lpc' = [lpc EXCEPT ![l] = pc]
  /\ sawLevel' = [sawLevel EXCEPT ![l] = IF pc = "idle" THEN {} ELSE @]
  /\ sawRule' = [sawRule EXCEPT ![l] = IF pc = "idle" THEN {} ELSE @]
  /\ UNCHANGED own

LogCall(l, s, v) ==
  /\ lpc[l] = "idle"
  /\ lpc' = [lpc EXCEPT ![l] = "backtrace"]
  /\ rec' = [rec EXCEPT ![l] = [site |-> s, lvl |-> v]]
  /\ own' = [own EXCEPT ![l] = v]
  /\ sawLevel' = [sawLevel EXCEPT ![l] = {level}]
  /\ sawRule' = [sawRule EXCEPT ![l] = {RuleLevel(patterns, s)}]
  /\ UNCHANGED <<level, filterVars, traceVars>>

LoadBacktrace(l) ==
  /\ lpc[l] = "backtrace"
  /\ Go(l, IF backtrace THEN "match" ELSE "level")
  /\ UNCHANGED <<level, filterVars, traceVars, rec>>

(* At the location asked for the record becomes one of level info.         *)
MatchLocation(l) ==
  /\ lpc[l] = "match"
  /\ Go(l, "level")
  /\ rec' = [rec EXCEPT ![l].lvl = IF location = rec[l].site THEN LvlInfo ELSE @]
  /\ UNCHANGED <<level, filterVars, traceVars>>

(* Mutant: a record just within the verbosity is not let through.          *)
LoadLevelStrict(l) ==
  /\ lpc[l] = "level"
  /\ Go(l, IF level > rec[l].lvl THEN "emit" ELSE "override")
  /\ UNCHANGED <<level, filterVars, traceVars, rec>>

LoadLevel(l) ==
  /\ lpc[l] = "level"
  /\ Go(l, IF level >= rec[l].lvl THEN "emit" ELSE "override")
  /\ UNCHANGED <<level, filterVars, traceVars, rec>>

LoadOverride(l) ==
  /\ lpc[l] = "override"
  /\ Go(l, IF override = 0 THEN "idle" ELSE "lookup")
  /\ UNCHANGED <<level, filterVars, traceVars, rec>>

Verdict(l, v) == IF v >= rec[l].lvl THEN "emit" ELSE "idle"

Lookup(l) ==
  /\ lpc[l] = "lookup"
  /\ LET v == siteCache[rec[l].site] IN
       Go(l, IF v = Uncached THEN "calculate" ELSE Verdict(l, v))
  /\ UNCHANGED <<level, filterVars, traceVars, rec>>

(* Mutant: when no rule matches, the verbosity is remembered instead of 0. *)
CalculateLevel(l) ==
  /\ lpc[l] = "calculate" /\ made
  /\ LET s == rec[l].site
         v == IF Matching(patterns, s) = {} THEN level ELSE RuleLevel(patterns, s) IN
       /\ siteCache' = [siteCache EXCEPT ![s] = v]
       /\ Go(l, Verdict(l, v))
  /\ UNCHANGED <<level, override, patterns, made, traceVars, rec>>

(* The patterns are those in force now, not those at the time of Lookup.   *)
Calculate(l) ==
  /\ lpc[l] = "calculate" /\ made
  /\ LET s == rec[l].site
         v == RuleLevel(patterns, s) IN
       /\ siteCache' = [siteCache EXCEPT ![s] = v]
       /\ Go(l, Verdict(l, v))
  /\ UNCHANGED <<level, override, patterns, made, traceVars, rec>>

(* h.origin.Log, and Log returns.                                          *)
Emit(l) ==
  /\ lpc[l] = "emit"
  /\ Go(l, "idle")
  /\ UNCHANGED <<level, filterVars, traceVars, rec>>

-----------------------------------------------------------------------------
Configure ==
  \/ \E v \in Verbosities : Verbosity(v)
  \/ \E ruleset \in Rulesets : Vmodule(ruleset)
  \/ \E s \in Sites : BacktraceAt(s)

Log(l) ==
  \/ \E s \in Sites, v \in RecordLevels : LogCall(l, s, v)
  \/ LoadBacktrace(l)
  \/ MatchLocation(l)
  \/ LoadLevel(l)
  \/ LoadOverride(l)
  \/ Lookup(l)
  \/ Calculate(l)
  \/ Emit(l)

Next == Configure \/ (\E l \in Loggers : Log(l))

Spec == Init /\ [][Next]_vars

-----------------------------------------------------------------------------
(* Types; what is read without the lock agrees with what is under it.      *)
TypeOK ==
  /\ level \in Nat
  /\ patterns \in Seq(Rule)
  /\ override = Cardinality(Effective(patterns))
  /\ siteCache \in [Sites -> Nat \cup {Uncached}]
  /\ made \in BOOLEAN
  /\ location \in Sites \cup {NoSite}
  /\ backtrace = (location # NoSite)
  /\ lpc \in [Loggers -> LoggerStates]
  /\ rec \in [Loggers -> [site : Sites \cup {NoSite}, lvl : 0..5]]
  /\ own \in [Loggers -> 0..5]
  /\ sawLevel \in [Loggers -> SUBSET Nat]
  /\ sawRule \in [Loggers -> SUBSET Nat]
  /\ \A l \in Loggers : Active(l) => rec[l].site \in Sites

(* What is cached for a call site is what the patterns in force say of it, *)
(* whatever calls of Vmodule and Log overlap, and a logger that is about   *)
(* to write to the cache never finds the nil map of a new handler.         *)
CacheSound ==
  /\ \A s \in Sites : siteCache[s] # Uncached => siteCache[s] = RuleLevel(patterns, s)
  /\ \A l \in Loggers : lpc[l] \in {"lookup", "calculate"} => made

Dropped(l) == lpc[l] \in {"override", "lookup", "calculate"} /\ lpc'[l] = "idle"
Passed(l) == lpc[l] # "emit" /\ lpc'[l] = "emit"

(* Log reads the verbosity, the number of rules and the cache at different *)
(* moments.  A record it drops was, at some moment of the call, above the  *)
(* verbosity, and at some moment above the level of its rule; one it lets  *)
(* through was within one of them at some moment.  A setting that was      *)
(* replaced before the call began has no say.                              *)
VerdictJustified ==
  [][\A l \in Loggers :
       /\ Dropped(l) => /\ \E v \in sawLevel[l] : v < rec[l].lvl
                        /\ \E v \in sawRule[l] : v < rec[l].lvl
       /\ Passed(l) => \E v \in sawLevel[l] \cup sawRule[l] : v >= rec[l].lvl]_vars

(* handler_glog.go:147-148 and :192: at the backtrace location the level   *)
(* is raised to info and the trace written whenever execution hits it, so  *)
(* a record that every verbosity in force lets through is not lost there.  *)
TracedNotHidden ==
  [][\A l \in Loggers : Dropped(l) => \E v \in sawLevel[l] : v < own[l]]_vars

=============================================================================
