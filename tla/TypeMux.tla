------------------------------ MODULE TypeMux ------------------------------
(***************************************************************************)
(* event.TypeMux (event/event.go): a dispatcher that delivers an event to  *)
(* every receiver subscribed to the event's type.  Posting goroutines take *)
(* a snapshot of the receivers and hand the event to each of them over an  *)
(* unbuffered channel, while other goroutines subscribe, unsubscribe and   *)
(* stop the mux.  One action is one atomic stretch of a goroutine: what it *)
(* does between two points at which it may have to wait.                   *)
(*                                                                         *)
(* Locks are derived from the program counters: mux.mutex is held for      *)
(* writing by the closer inside Stop, s.closeMu by the closer inside       *)
(* s.closewait, s.postMu for reading by every poster inside s.deliver.     *)
(* Every other section of mux.mutex has no waiting point and is an action. *)
(***************************************************************************)
EXTENDS Integers, Sequences, FiniteSets, SequencesExt

CONSTANTS
  Types,      \* reflect.Type values of the events
  Subs,       \* TypeMuxSubscription objects
  Posters,    \* goroutines calling Post
  Stoppers,   \* goroutines calling Stop
  Leavers,    \* goroutines calling Unsubscribe
  ArgLists,   \* the argument lists Subscribe is called with
  MaxTime,    \* bound: last value of the clock
  MaxPosts    \* bound: calls of Post by one poster

Closers == Stoppers \cup Leavers

ASSUME ActorsAssumption == Stoppers \cap Leavers = {}
ASSUME TypesAssumption == Types # {} /\ ArgLists \subseteq Seq(Types) \ {<<>>}
ASSUME BoundsAssumption == MaxTime \in Nat /\ MaxPosts \in Nat

VARIABLES
  now,      \* the clock read by time.Now
  subm,     \* subm[t]: the receivers of type t, in subscription order
  stopped,  \* mux.stopped
  reg,      \* reg[s]: how far Subscribe got with s
  created,  \* created[s]: s.created
  chan,     \* chan[s]: s.closed, s.closing and s.postC, see ChanStates
  ppc,      \* ppc[p]: where poster p is
  pev,      \* pev[p]: the event p posts
  ptodo,    \* ptodo[p]: the receivers of p's snapshot still to be served
  cpc,      \* cpc[c]: where closer c is
  ctypes,   \* ctypes[c]: the keys of subm that Stop has not ranged over yet
  cqueue,   \* cqueue[c]: the receivers left of the slice c is closing
  got,      \* history: got[s], the events received from s.Chan()
  gone,     \* history: subscriptions of which an Unsubscribe has returned
  owed      \* history: owed[p], the receivers of the type when Post was called

muxVars == <<subm, stopped>>
subVars == <<reg, created>>
postVars == <<ppc, pev, ptodo, owed>>
closeVars == <<cpc, ctypes, cqueue>>
vars == <<now, muxVars, subVars, chan, postVars, closeVars, got, gone>>

(* "new": between newsub and mux.mutex.Lock; "ready": returned to the      *)
(* caller; "orphan": Subscribe panicked on a duplicate type and left s     *)
(* registered under the earlier ones, out of its caller's reach.           *)
RegStates == {"none", "new", "ready", "orphan"}

(*            s.closed   s.closing   s.postC                               *)
(* "open"     false      open        open                                  *)
(* "closing"  true       closed      open                                  *)
(* "closed"   true       closed      closed, then nil                      *)
(* "dead"     true       open        closed, not nil (Subscribe after Stop)*)
ChanStates == {"open", "closing", "closed", "dead"}
PosterStates == {"idle", "called", "deliver", "select", "selectnil"}
CloserStates == {"idle", "stopping", "closewait", "closing", "pending"}
Events == [poster : Posters, n : 0..MaxPosts, type : Types, time : 0..MaxTime]

-----------------------------------------------------------------------------
Find(slice, item) == \E i \in DOMAIN slice : slice[i] = item

PosDelete(slice, item) ==
  RemoveAt(slice, CHOOSE i \in DOMAIN slice : slice[i] = item)

HoldsCloseMu(c, s) == cpc[c] \in {"closing", "pending"} /\ Head(cqueue[c]) = s
Readers(s) ==
  {p \in Posters : ppc[p] \in {"select", "selectnil"} /\ Head(ptodo[p]) = s}
WriterPending(s) == \E c \in Closers : cpc[c] = "pending" /\ Head(cqueue[c]) = s
MutexFree == \A c \in Stoppers : cpc[c] = "idle"

Init ==
  /\ now = 0
  /\ subm = [t \in Types |-> <<>>]
  /\ stopped = FALSE
  /\ reg = [s \in Subs |-> "none"]
  /\ created = [s \in Subs |-> 0]
  /\ chan = [s \in Subs |-> "open"]
  /\ ppc = [p \in Posters |-> "idle"]
  /\ pev = [p \in Posters |->
              [poster |-> p, n |-> 0, type |-> CHOOSE t \in Types : TRUE, time |-> 0]]
  /\ ptodo = [p \in Posters |-> <<>>]
  /\ cpc = [c \in Closers |-> "idle"]
  /\ ctypes = [c \in Closers |-> {}]
  /\ cqueue = [c \in Closers |-> <<>>]
  /\ got = [s \in Subs |-> <<>>]
  /\ gone = {}
  /\ owed = [p \in Posters |-> {}]

-----------------------------------------------------------------------------
(* The clock and Subscribe.                                                *)

Tick ==
  /\ now < MaxTime
  /\ now' = now + 1
  /\ UNCHANGED <<muxVars, subVars, chan, postVars, closeVars, got, gone>>

(* newsub: the creation time is read before the mutex is taken.            *)
NewSub(s) ==
  /\ reg[s] = "none"
  /\ reg' = [reg EXCEPT ![s] = "new"]
  /\ created' = [created EXCEPT ![s] = now]
  /\ UNCHANGED <<now, muxVars, chan, postVars, closeVars, got, gone>>

Distinct(a) == \A i, j \in DOMAIN a : a[i] = a[j] => i = j

(* The arguments registered before the first one that repeats another.     *)
Registered(a) ==
  {a[i] : i \in {j \in DOMAIN a : \A k, l \in 1..j : a[k] = a[l] => k = l}}

(* The rest of Subscribe, under the mutex: on a stopped mux the receiver   *)
(* is closed at once, and a duplicate type panics half way.                *)
Subscribe(s, a) ==
  /\ reg[s] = "new" /\ MutexFree
  /\ IF stopped
       THEN /\ chan' = [chan EXCEPT ![s] = "dead"]
            /\ reg' = [reg EXCEPT ![s] = "ready"]
            /\ UNCHANGED subm
       ELSE /\ subm' = [t \in Types |-> IF t \in Registered(a)
                                          THEN Append(subm[t], s) ELSE subm[t]]
            /\ reg' = [reg EXCEPT ![s] = IF Distinct(a) THEN "ready" ELSE "orphan"]
            /\ UNCHANGED chan
  /\ UNCHANGED <<now, stopped, created, postVars, closeVars, got, gone>>

-----------------------------------------------------------------------------
(* Post and deliver.                                                       *)

(* The event is stamped before the mutex is taken.                         *)
PostCall(p, t) ==
  /\ ppc[p] = "idle" /\ pev[p].n < MaxPosts
  /\ ppc' = [ppc EXCEPT ![p] = "called"]
  /\ pev' = [pev EXCEPT ![p] = [poster |-> p, n |-> @.n + 1, type |-> t, time |-> now]]
  /\ owed' = [owed EXCEPT ![p] = ToSet(subm[t])]
  /\ UNCHANGED <<now, muxVars, subVars, chan, ptodo, closeVars, got, gone>>

PostSnapshot(p) ==
  /\ ppc[p] = "called" /\ MutexFree
  /\ IF stopped   \* ErrMuxClosed
       THEN /\ ppc' = [ppc EXCEPT ![p] = "idle"]
            /\ UNCHANGED ptodo
       ELSE /\ ppc' = [ppc EXCEPT ![p] = "deliver"]
            /\ ptodo' = [ptodo EXCEPT ![p] = subm[pev[p].type]]
  /\ UNCHANGED <<now, muxVars, subVars, chan, pev, owed, closeVars, got, gone>>

(* Mutant: a receiver as old as the event counts as newer than it.         *)
DeliverStaleEqual(p) ==
  /\ ppc[p] = "deliver" /\ ptodo[p] # <<>>
  /\ created[Head(ptodo[p])] >= pev[p].time
  /\ ptodo' = [ptodo EXCEPT ![p] = Tail(@)]
  /\ UNCHANGED <<now, muxVars, subVars, chan, ppc, pev, owed, closeVars, got, gone>>

(* The next receiver is older than the event: a receiver created after it  *)
(* is skipped (DeliverStale), the others take s.postMu.RLock, which a      *)
(* waiting writer holds up, and evaluate s.postC.                          *)
DeliverStale(p) ==
  /\ ppc[p] = "deliver" /\ ptodo[p] # <<>>
  /\ created[Head(ptodo[p])] > pev[p].time
  /\ ptodo' = [ptodo EXCEPT ![p] = Tail(@)]
  /\ UNCHANGED <<now, muxVars, subVars, chan, ppc, pev, owed, closeVars, got, gone>>

DeliverLock(p) ==
  /\ ppc[p] = "deliver" /\ ptodo[p] # <<>>
  /\ LET s == Head(ptodo[p]) IN
       /\ created[s] <= pev[p].time
       /\ ~WriterPending(s)
       /\ ppc' = [ppc EXCEPT ![p] = IF chan[s] = "closed" THEN "selectnil" ELSE "select"]
  /\ UNCHANGED <<now, muxVars, subVars, chan, pev, ptodo, owed, closeVars, got, gone>>

DoneDelivery(p) ==
  /\ ppc' = [ppc EXCEPT ![p] = "deliver"]
  /\ ptodo' = [ptodo EXCEPT ![p] = Tail(@)]
  /\ UNCHANGED <<now, muxVars, subVars, chan, pev, owed, closeVars, gone>>

(* s.postC <- event: the owner of s receives.  Nobody reads an orphan.     *)
Deliver(p) ==
  /\ ppc[p] = "select"
  /\ LET s == Head(ptodo[p]) IN
       /\ reg[s] = "ready"
       /\ got' = [got EXCEPT ![s] = Append(@, pev[p])]
  /\ DoneDelivery(p)

(* <-s.closing                                                             *)
DeliverAbort(p) ==
  /\ ppc[p] \in {"select", "selectnil"}
  /\ chan[Head(ptodo[p])] \in {"closing", "closed"}
  /\ DoneDelivery(p)
  /\ UNCHANGED got

PostReturn(p) ==
  /\ ppc[p] = "deliver" /\ ptodo[p] = <<>>
  /\ ppc' = [ppc EXCEPT ![p] = "idle"]
  /\ owed' = [owed EXCEPT ![p] = {}]
  /\ UNCHANGED <<now, muxVars, subVars, chan, pev, ptodo, closeVars, got, gone>>

-----------------------------------------------------------------------------
(* Unsubscribe, Stop and the closewait they share.                         *)

(* Unsubscribe begins with mux.del(s); closewait comes next.               *)
Unsubscribe(c, s) ==
  /\ cpc[c] = "idle" /\ reg[s] = "ready" /\ MutexFree
  /\ subm' = [t \in Types |-> IF Find(subm[t], s) THEN PosDelete(subm[t], s) ELSE subm[t]]
  /\ cpc' = [cpc EXCEPT ![c] = "closewait"]
  /\ cqueue' = [cqueue EXCEPT ![c] = <<s>>]
  /\ UNCHANGED <<now, stopped, subVars, chan, postVars, ctypes, got, gone>>

StopLock(c) ==
  /\ cpc[c] = "idle" /\ MutexFree
  /\ cpc' = [cpc EXCEPT ![c] = "stopping"]
  /\ ctypes' = [ctypes EXCEPT ![c] = {t \in Types : subm[t] # <<>>}]
  /\ UNCHANGED <<now, muxVars, subVars, chan, postVars, cqueue, got, gone>>

(* Stop ranges over the map in any order, over each slice in its order.    *)
StopSlice(c, t) ==
  /\ cpc[c] = "stopping" /\ t \in ctypes[c]
  /\ cpc' = [cpc EXCEPT ![c] = "closewait"]
  /\ ctypes' = [ctypes EXCEPT ![c] = @ \ {t}]
  /\ cqueue' = [cqueue EXCEPT ![c] = subm[t]]
  /\ UNCHANGED <<now, muxVars, subVars, chan, postVars, got, gone>>

StopReturn(c) ==
  /\ cpc[c] = "stopping" /\ ctypes[c] = {}
  /\ subm' = [t \in Types |-> <<>>]
  /\ stopped' = TRUE
  /\ cpc' = [cpc EXCEPT ![c] = "idle"]
  /\ UNCHANGED <<now, subVars, chan, postVars, ctypes, cqueue, got, gone>>

(* Mutant: Stop runs past the end of the slice.                            *)
CloseReturnPastEnd(c) ==
  /\ cqueue' = [cqueue EXCEPT ![c] = Tail(@)]
  /\ cpc' = [cpc EXCEPT ![c] = IF c \in Stoppers THEN "closewait" ELSE "idle"]
  /\ gone' = IF c \in Leavers THEN gone \cup {Head(cqueue[c])} ELSE gone
  /\ UNCHANGED <<now, muxVars, subVars, postVars, ctypes, got>>

(* closewait gives up s.closeMu: Unsubscribe returns, Stop goes on.        *)
CloseReturn(c) ==
  /\ cqueue' = [cqueue EXCEPT ![c] = Tail(@)]
  /\ cpc' = [cpc EXCEPT ![c] = IF Tail(cqueue[c]) # <<>> THEN "closewait"
                               ELSE IF c \in Stoppers THEN "stopping" ELSE "idle"]
  /\ gone' = IF c \in Leavers THEN gone \cup {Head(cqueue[c])} ELSE gone
  /\ UNCHANGED <<now, muxVars, subVars, postVars, ctypes, got>>

(* Mutant: s.closed is read without closeMu.                               *)
CloseSkipNoLock(c) ==
  /\ cpc[c] = "closewait" /\ chan[Head(cqueue[c])] # "open"
  /\ CloseReturn(c)
  /\ UNCHANGED chan

(* closeMu.Lock: return at once if closed, else close(s.closing).          *)
CloseSkip(c) ==
  /\ cpc[c] = "closewait"
  /\ LET s == Head(cqueue[c]) IN
       /\ \A d \in Closers : ~HoldsCloseMu(d, s)
       /\ chan[s] # "open"
  /\ CloseReturn(c)
  /\ UNCHANGED chan

(* Mutant: s.closing is not closed, so a blocked poster is not woken.      *)
CloseBeginSilent(c) ==
  /\ cpc[c] = "closewait" /\ chan[Head(cqueue[c])] = "open"
  /\ \A d \in Closers : ~HoldsCloseMu(d, Head(cqueue[c]))
  /\ cpc' = [cpc EXCEPT ![c] = "closing"]
  /\ UNCHANGED <<now, muxVars, subVars, chan, postVars, ctypes, cqueue, got, gone>>

CloseBegin(c) ==
  /\ cpc[c] = "closewait"
  /\ LET s == Head(cqueue[c]) IN
       /\ \A d \in Closers : ~HoldsCloseMu(d, s)
       /\ chan[s] = "open"
       /\ chan' = [chan EXCEPT ![s] = "closing"]
  /\ cpc' = [cpc EXCEPT ![c] = "closing"]
  /\ UNCHANGED <<now, muxVars, subVars, postVars, ctypes, cqueue, got, gone>>

(* postMu.Lock: from its call on no reader gets in; it returns once the    *)
(* readers that were in have left, and postC is closed and set to nil.     *)
CloseLockPost(c) ==
  /\ cpc[c] = "closing"
  /\ cpc' = [cpc EXCEPT ![c] = "pending"]
  /\ UNCHANGED <<now, muxVars, subVars, chan, postVars, ctypes, cqueue, got, gone>>

(* Mutant: postC is closed without waiting for postMu.                     *)
CloseFinishNoWait(c) ==
  /\ cpc[c] = "pending"
  /\ chan' = [chan EXCEPT ![Head(cqueue[c])] = "closed"]
  /\ CloseReturn(c)

CloseFinish(c) ==
  /\ cpc[c] = "pending"
  /\ Readers(Head(cqueue[c])) = {}
  /\ chan' = [chan EXCEPT ![Head(cqueue[c])] = "closed"]
  /\ CloseReturn(c)

-----------------------------------------------------------------------------
Post(p) ==
  \/ \E t \in Types : PostCall(p, t)
  \/ PostSnapshot(p)
  \/ DeliverStale(p)
  \/ DeliverLock(p)
  \/ Deliver(p)
  \/ DeliverAbort(p)
  \/ PostReturn(p)

Close(c) ==
  \/ CloseSkip(c)
  \/ CloseBegin(c)
  \/ CloseLockPost(c)
  \/ CloseFinish(c)

Stop(c) ==
  \/ StopLock(c)
  \/ \E t \in Types : StopSlice(c, t)
  \/ StopReturn(c)
  \/ Close(c)

Leave(c) ==
  \/ \E s \in Subs : Unsubscribe(c, s)
  \/ Close(c)

Next ==
  \/ Tick
  \/ \E s \in Subs : NewSub(s) \/ (\E a \in ArgLists : Subscribe(s, a))
  \/ \E p \in Posters : Post(p)
  \/ \E c \in Stoppers : Stop(c)
  \/ \E c \in Leavers : Leave(c)

Spec == Init /\ [][Next]_vars

(* A goroutine inside a call of the package runs on whenever it can; no    *)
(* call is ever made and no reader ever reads because it must.  Go's       *)
(* RWMutex lets the readers that waited for a writer in before the next    *)
(* writer, so a poster is not starved of the mutex.                        *)
PostProgress(p) == DeliverStale(p) \/ DeliverLock(p) \/ DeliverAbort(p) \/ PostReturn(p)
StopProgress(c) == (\E t \in Types : StopSlice(c, t)) \/ StopReturn(c)

Fairness ==
  /\ \A p \in Posters : SF_vars(PostSnapshot(p)) /\ WF_vars(PostProgress(p))
  /\ \A c \in Stoppers : WF_vars(StopProgress(c))
  /\ \A c \in Closers : WF_vars(Close(c))

FairSpec == Spec /\ Fairness

-----------------------------------------------------------------------------
(* Types, and what a program counter says of the goroutine's queue.        *)
TypeOK ==
  /\ now \in 0..MaxTime
  /\ subm \in [Types -> Seq(Subs)]
  /\ stopped \in BOOLEAN
  /\ reg \in [Subs -> RegStates]
  /\ created \in [Subs -> 0..MaxTime]
  /\ chan \in [Subs -> ChanStates]
  /\ ppc \in [Posters -> PosterStates]
  /\ pev \in [Posters -> Events]
  /\ ptodo \in [Posters -> Seq(Subs)]
  /\ cpc \in [Closers -> CloserStates]
  /\ ctypes \in [Closers -> SUBSET Types]
  /\ cqueue \in [Closers -> Seq(Subs)]
  /\ got \in [Subs -> Seq(Events)]
  /\ gone \subseteq Subs
  /\ owed \in [Posters -> SUBSET Subs]
  /\ \A p \in Posters : ppc[p] \in {"select", "selectnil"} => ptodo[p] # <<>>
  /\ \A c \in Closers : cpc[c] \in {"closewait", "closing", "pending"} => cqueue[c] # <<>>

(* A poster that sits in the select of deliver with the channel it read    *)
(* from s.postC never sees that channel closed under it: a send on a       *)
(* closed channel would panic in the poster.  It is what postMu is for.    *)
NoSendOnClosedChannel ==
  \A p \in Posters : ppc[p] = "select" => chan[Head(ptodo[p])] \in {"open", "closing"}

(* Once any Unsubscribe of a subscription has returned, its owner receives *)
(* nothing more, whatever posters had it in their snapshot, and whichever  *)
(* of several closers did the closing.                                     *)
UnsubscribeIsFinal == [][\A s \in gone : got'[s] = got[s]]_vars

(* While no Stop is running, every registered receiver is open: a receiver *)
(* that is being closed is never found by a new Post.  When Stop has       *)
(* returned, a receiver is closed or is in the hands of an Unsubscribe.    *)
RegisteredIsOpen ==
  MutexFree =>
    /\ \A t \in Types : \A s \in ToSet(subm[t]) : chan[s] = "open"
    /\ stopped => \A s \in Subs :
         reg[s] \in {"ready", "orphan"} /\ chan[s] \notin {"closed", "dead"} =>
           \E c \in Leavers : cpc[c] # "idle" /\ Head(cqueue[c]) = s

(* A receiver subscribed to the type when Post was called has the event    *)
(* when Post is done with it, unless it was unsubscribed or the mux was    *)
(* stopped meanwhile; the stale-event check costs no subscriber an event.  *)
PostReachesAll ==
  \A p \in Posters : ppc[p] \in {"deliver", "select", "selectnil"} =>
    \A s \in owed[p] : chan[s] = "open" =>
      \/ s \in ToSet(ptodo[p])
      \/ \E i \in DOMAIN got[s] : got[s][i] = pev[p]
      \/ s \notin ToSet(subm[pev[p].type])

(* A receiver sees the events of one poster in the order of the calls, and *)
(* each at most once, however many types it subscribed to.                 *)
InOrderAtMostOnce ==
  \A s \in Subs : \A i, j \in DOMAIN got[s] :
    i < j /\ got[s][i].poster = got[s][j].poster => got[s][i].n < got[s][j].n

(* A Post gets to every receiver that was registered for its type when it  *)
(* took its snapshot, to each once and in order, unless the receiver is    *)
(* closed meanwhile; a receiver in the map is open, and Stop leaves none   *)
(* open but those that an Unsubscribe is about to close.                   *)
EventsDelivered == RegisteredIsOpen /\ PostReachesAll /\ InOrderAtMostOnce

(* Stop and Unsubscribe return, even when nobody reads any channel and     *)
(* posters are blocked on the receivers being closed.                      *)
ClosersReturn == \A c \in Closers : cpc[c] # "idle" ~> cpc[c] = "idle"

(* After Stop no Post is stuck, not even on a receiver whose owner never   *)
(* reads, or on one that a panicking Subscribe left without an owner.      *)
PostsReturnAfterStop ==
  \A p \in Posters : stopped /\ ppc[p] # "idle" ~> ppc[p] = "idle"

(* What the comment of Stop says ("Stop blocks until all current           *)
(* deliveries have completed"): once it has returned, nothing is received. *)
StopIsFinal == [][stopped => got' = got]_vars

=============================================================================
