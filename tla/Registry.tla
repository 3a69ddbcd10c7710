------------------------------ MODULE Registry ------------------------------
(***************************************************************************)
(* serviceRegistry and callback (rpc/service.go): which methods of a       *)
(* receiver are exposed under which name, and what calling one does.  Go's *)
(* types are reduced to what the code asks of them, names to sequences of  *)
(* parts around the separator "_".                                         *)
(***************************************************************************)
EXTENDS Integers, Sequences, FiniteSets

CONSTANTS
  Names,     \* service names: sequences, "_" is the separator
  Receivers  \* what may be registered: functions from method names to signatures

VARIABLES
  services,  \* r.services: the callbacks and subscriptions of each name
  latest     \* history: the receivers registered under each name, in order

registryVars == <<services, latest>>

(* The types of parameters and results; "*" marks a pointer to one.        *)
Types == {"ctx", "*ctx", "sub", "*sub", "err", "*err", "other"}

isContextType(t) == t \in {"ctx", "*ctx"}
isSubscriptionType(t) == t \in {"sub", "*sub"}
isErrorType(t) == t \in {"err", "*err"}

(* A signature: whether the method is exported, its parameters without the *)
(* receiver, whether the last of them is variadic, and its results.        *)
isPubSub(m) ==
  /\ Len(m.in) >= 1 /\ Len(m.out) = 2
  /\ isContextType(m.in[1]) /\ isSubscriptionType(m.out[1]) /\ isErrorType(m.out[2])

(* The position of the error among the results, from 1; 0: there is none.  *)
errPos(m) ==
  IF Len(m.out) = 1 THEN (IF isErrorType(m.out[1]) THEN 1 ELSE 0)
  ELSE IF Len(m.out) = 2 THEN 2 ELSE 0

Suitable(m) ==
  /\ m.exported
  /\ Len(m.out) <= 2
  /\ Len(m.out) = 2 => ~isErrorType(m.out[1]) /\ isErrorType(m.out[2])

hasCtx(m) == Len(m.in) > 0 /\ m.in[1] = "ctx"

makeArgTypes(m) == IF hasCtx(m) THEN Tail(m.in) ELSE m.in

newCallback(m) ==
  [isSubscribe |-> isPubSub(m), hasCtx |-> hasCtx(m), argTypes |-> makeArgTypes(m),
   errPos |-> errPos(m), in |-> m.in, variadic |-> m.variadic]

(* Method names are kept apart by more than the case of their first letter.*)
suitableCallbacks(rcvr) ==
  [f \in {g \in DOMAIN rcvr : Suitable(rcvr[g])} |-> newCallback(rcvr[f])]

-----------------------------------------------------------------------------
Nothing == [f \in {} |-> 0]

Init ==
  /\ services = [n \in Names |-> [callbacks |-> Nothing, subscriptions |-> Nothing]]
  /\ latest = [n \in Names |-> <<>>]

Extended(table, cbs, which) ==
  [f \in DOMAIN table \cup which |-> IF f \in which THEN cbs[f] ELSE table[f]]

(* Mutant: a second registration of a name replaces the first.             *)
RegisterAfresh(n, rcvr) ==
  /\ n # <<>>
  /\ LET cbs == suitableCallbacks(rcvr)
         subs == {f \in DOMAIN cbs : cbs[f].isSubscribe} IN
       /\ DOMAIN cbs # {}
       /\ services' = [services EXCEPT ![n] =
            [callbacks |-> Extended(Nothing, cbs, DOMAIN cbs \ subs),
             subscriptions |-> Extended(Nothing, cbs, subs)]]
  /\ latest' = [latest EXCEPT ![n] = Append(@, rcvr)]

(* Without a name, or without a suitable method, registerName fails and    *)
(* changes nothing; a name registered before is added to.                  *)
registerName(n, rcvr) ==
  /\ n # <<>>
  /\ LET cbs == suitableCallbacks(rcvr)
         subs == {f \in DOMAIN cbs : cbs[f].isSubscribe} IN
       /\ DOMAIN cbs # {}
       /\ services' = [services EXCEPT
            ![n].callbacks = Extended(@, cbs, DOMAIN cbs \ subs),
            ![n].subscriptions = Extended(@, cbs, subs)]
  /\ latest' = [latest EXCEPT ![n] = Append(@, rcvr)]

(* strings.SplitN(method, "_", 2) and the lookup in both maps: the part    *)
(* before the first separator is the service.                              *)
Found(method) ==
  LET cut == {i \in DOMAIN method : method[i] = "_" /\ \A j \in 1..(i - 1) : method[j] # "_"} IN
    IF cut = {} THEN {}
    ELSE LET i == CHOOSE i \in cut : TRUE
             n == SubSeq(method, 1, i - 1)
             f == SubSeq(method, i + 1, Len(method))
         IN IF n \in Names /\ f \in DOMAIN services[n].callbacks
              THEN {services[n].callbacks[f]} ELSE {}

(* call: the receiver and the context are passed, and nothing else; a call *)
(* with too few arguments panics, which is answered with an error.  A      *)
(* variadic parameter may be left out.                                     *)
Required(cb) == Len(cb.in) - (IF cb.variadic THEN 1 ELSE 0)
Passed(cb) == IF cb.hasCtx THEN 1 ELSE 0
Outcome(cb) ==
  IF Passed(cb) = Required(cb) \/ (cb.variadic /\ Passed(cb) > Required(cb)) THEN "called" ELSE "crashed"

Next == \E n \in Names, rcvr \in Receivers : Len(latest[n]) < 2 /\ registerName(n, rcvr)

Spec == Init /\ [][Next]_registryVars

-----------------------------------------------------------------------------
(* What a client can call.  A method is found under service_method if it   *)
(* is suitable, the last receiver that has it decides, and a subscription  *)
(* is not callable as a method.  A name that contains the separator is not *)
(* found as that: its words are read with the service's name before the    *)
(* first separator, and may be a method of that service.  What is found    *)
(* ends in "method handler crashed" if it has a parameter besides the      *)
(* context and a variadic one.                                             *)
Methods == UNION {DOMAIN r : r \in Receivers}
Word(n, f) == n \o <<"_">> \o f
HasSeparator(n) == \E i \in DOMAIN n : n[i] = "_"

Owners(n, f) == {k \in DOMAIN latest[n] : f \in DOMAIN latest[n][k] /\ Suitable(latest[n][k][f])}
Callable(n, f) == {k \in Owners(n, f) : ~isPubSub(latest[n][k][f])}
Last(S) == CHOOSE k \in S : \A j \in S : j <= k
Exposed(n, f) ==
  IF Callable(n, f) = {} THEN {} ELSE {newCallback(latest[n][Last(Callable(n, f))][f])}

Fixed(cb) == IF cb.variadic THEN SubSeq(cb.in, 1, Len(cb.in) - 1) ELSE cb.in

MethodsFound ==
  \A n \in Names, f \in Methods :
    LET found == Found(Word(n, f))
        readings == {r \in Names \X Methods : ~HasSeparator(r[1]) /\ Word(r[1], r[2]) = Word(n, f)}
    IN /\ found # {} => readings # {}
       /\ \A r \in readings : found = Exposed(r[1], r[2])
       /\ \A cb \in found : Outcome(cb) = "called" <=> Fixed(cb) \in {<<>>, <<"ctx">>}

=============================================================================
