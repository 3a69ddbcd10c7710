--------------------------- MODULE TypeMuxProofs ---------------------------
(***************************************************************************)
(* Proofs about TypeMux, for every set of types, receivers, posters and    *)
(* closers: the type invariant, that no poster is ever inside a send on a  *)
(* channel that is being closed (what postMu is for), that nothing is      *)
(* received after an Unsubscribe has returned (what closeMu is for), and   *)
(* that a Post offers its event to every receiver of its snapshot, once    *)
(* and in order, and finds every receiver subscribed and not closed.       *)
(***************************************************************************)
EXTENDS TypeMux, SequenceTheorems, TLAPS

(* A receiver some slice or snapshot refers to is one Subscribe registered *)
(* on a mux that had not been stopped.                                     *)
Known(s) == reg[s] \in {"ready", "orphan"} /\ chan[s] # "dead"

RegisteredKnown == \A t \in Types : \A i \in DOMAIN subm[t] : Known(subm[t][i])
SnapshotKnown == \A p \in Posters : \A i \in DOMAIN ptodo[p] : Known(ptodo[p][i])
TargetRegistered ==
  \A c \in Closers : \A i \in DOMAIN cqueue[c] : reg[cqueue[c][i]] \in {"ready", "orphan"}
UnregisteredOpen == \A s \in Subs : reg[s] \in {"none", "new"} => chan[s] = "open"

(* mux.mutex: one Stop runs at a time, and the map it ranges over keeps    *)
(* its keys meanwhile.                                                     *)
MutexExclusive ==
  \A c, d \in Stoppers : cpc[c] # "idle" /\ cpc[d] # "idle" => c = d
RangeStable ==
  \A c \in Stoppers : cpc[c] # "idle" => \A t \in ctypes[c] : subm[t] # <<>>
MutexInv == MutexExclusive /\ RangeStable

(* closeMu: a receiver is "closing" exactly while one closer holds it.     *)
HolderClosing ==
  \A c \in Closers : cpc[c] \in {"closing", "pending"} => chan[Head(cqueue[c])] = "closing"
ClosingHeld ==
  \A s \in Subs : chan[s] = "closing" => \E c \in Closers : HoldsCloseMu(c, s)
CloseMuExclusive ==
  \A c, d \in Closers : \A s \in Subs : HoldsCloseMu(c, s) /\ HoldsCloseMu(d, s) => c = d

GoneClosed == \A s \in gone : chan[s] \in {"closed", "dead"}

(* The inductive invariant.                                                *)
IInv ==
  /\ TypeOK /\ MutexInv
  /\ RegisteredKnown /\ SnapshotKnown /\ TargetRegistered /\ UnregisteredOpen
  /\ HolderClosing /\ ClosingHeld /\ CloseMuExclusive
  /\ GoneClosed
  /\ NoSendOnClosedChannel

-----------------------------------------------------------------------------
(* cut is slice without its item at some place.                            *)
CutOut(cut, slice, item) ==
  /\ Len(cut) = Len(slice) - 1
  /\ \E k \in 1..Len(slice) :
       /\ slice[k] = item
       /\ \A i \in 1..Len(slice) - 1 : cut[i] = IF i <= k - 1 THEN slice[i] ELSE slice[i + 1]

(* posdelete closes the gap that the item leaves.                          *)
LEMMA PosDeletePlace ==
  ASSUME NEW S, NEW slice \in Seq(S), NEW item, Find(slice, item)
  PROVE  PosDelete(slice, item) \in Seq(S) /\ CutOut(PosDelete(slice, item), slice, item)
<1> DEFINE k == CHOOSE i \in DOMAIN slice : slice[i] = item
<1>1. k \in DOMAIN slice /\ slice[k] = item
  BY DEF Find
<1>2. k \in 1..Len(slice)
  BY <1>1
<1>3. PosDelete(slice, item) = SubSeq(slice, 1, k - 1) \o SubSeq(slice, k + 1, Len(slice))
  BY DEF PosDelete, RemoveAt
<1> HIDE DEF k
<1> DEFINE left == SubSeq(slice, 1, k - 1)
           right == SubSeq(slice, k + 1, Len(slice))
<1>4. /\ left \in Seq(S) /\ Len(left) = k - 1
      /\ \A i \in 1..k - 1 : left[i] = slice[i]
  BY <1>2, SubSeqProperties
<1>5. /\ right \in Seq(S) /\ Len(right) = Len(slice) - k
      /\ \A i \in 1..Len(slice) - k : right[i] = slice[k + i]
  BY <1>2, SubSeqProperties
<1> HIDE DEF left, right
<1>6. /\ left \o right \in Seq(S) /\ Len(left \o right) = Len(slice) - 1
      /\ \A i \in 1..Len(slice) - 1 :
           (left \o right)[i] = IF i <= k - 1 THEN slice[i] ELSE slice[i + 1]
  <2>1. /\ left \o right \in Seq(S) /\ Len(left \o right) = Len(left) + Len(right)
        /\ \A i \in 1..Len(left) + Len(right) :
             (left \o right)[i] = IF i <= Len(left) THEN left[i] ELSE right[i - Len(left)]
    BY <1>4, <1>5, ConcatProperties
  <2>2. Len(left) + Len(right) = Len(slice) - 1
    BY <1>2, <1>4, <1>5
  <2>3. ASSUME NEW i \in 1..Len(slice) - 1
        PROVE  (left \o right)[i] = IF i <= k - 1 THEN slice[i] ELSE slice[i + 1]
    <3>1. CASE i <= k - 1
      BY <2>1, <2>2, <1>2, <1>4, <3>1
    <3>2. CASE i > k - 1
      <4>1. (left \o right)[i] = right[i - (k - 1)]
        BY <2>1, <2>2, <1>2, <1>4, <3>2
      <4>2. i - (k - 1) \in 1..Len(slice) - k /\ k + (i - (k - 1)) = i + 1
        BY <1>2, <3>2
      <4> QED
        BY <4>1, <4>2, <1>2, <1>5, <3>2
    <3>3. k \in Int /\ i \in Int
      BY <1>2
    <3>4. i <= k - 1 \/ i > k - 1
      BY <3>3
    <3> QED
      BY <3>1, <3>2, <3>4
  <2> QED
    BY <2>1, <2>2, <2>3
<1>7. PosDelete(slice, item) = left \o right
  BY <1>3 DEF left, right
<1> DEFINE cut == left \o right
<1>8. cut \in Seq(S) /\ Len(cut) = Len(slice) - 1
      /\ \A i \in 1..Len(slice) - 1 : cut[i] = IF i <= k - 1 THEN slice[i] ELSE slice[i + 1]
  BY <1>6
<1> HIDE DEF cut
<1>9. CutOut(cut, slice, item)
  BY <1>1, <1>2, <1>8 DEF CutOut
<1> QED
  BY <1>7, <1>8, <1>9 DEF cut

(* What posdelete returns: a shorter slice of elements of the old one.     *)
LEMMA PosDeleteType ==
  ASSUME NEW S, NEW slice \in Seq(S), NEW item, Find(slice, item)
  PROVE  /\ PosDelete(slice, item) \in Seq(S)
         /\ \A i \in DOMAIN PosDelete(slice, item) :
              \E j \in DOMAIN slice : PosDelete(slice, item)[i] = slice[j]
<1> DEFINE cut == PosDelete(slice, item)
<1>0. cut \in Seq(S) /\ CutOut(cut, slice, item)
  BY PosDeletePlace
<1>1. /\ cut \in Seq(S) /\ Len(cut) = Len(slice) - 1
      /\ \E k \in 1..Len(slice) : \A i \in 1..Len(slice) - 1 :
           cut[i] = IF i <= k - 1 THEN slice[i] ELSE slice[i + 1]
  BY <1>0 DEF CutOut
<1> HIDE DEF cut
<1>2. ASSUME NEW i \in DOMAIN cut PROVE \E j \in DOMAIN slice : cut[i] = slice[j]
  <2>1. i \in 1..Len(slice) - 1 /\ i \in DOMAIN slice /\ i + 1 \in DOMAIN slice
    BY <1>1
  <2> QED
    BY <1>1, <2>1
<1> QED
  BY <1>1, <1>2 DEF cut

(* The type invariant.  One step per action.                               *)
LEMMA TypeInit == Init => TypeOK /\ MutexInv
<1> SUFFICES ASSUME Init PROVE TypeOK /\ MutexInv
  OBVIOUS
<1> USE TypesAssumption, BoundsAssumption DEF Init
<1>1. pev \in [Posters -> Events]
  BY DEF Events
<1>2. TypeOK
  <2>1. /\ <<>> \in Seq(Subs) /\ <<>> \in Seq(Events)
        /\ 0 \in 0..MaxTime
    OBVIOUS
  <2> QED
    BY <1>1, <2>1 DEF TypeOK, RegStates, ChanStates, PosterStates, CloserStates
<1>3. MutexInv
  BY DEF MutexInv, MutexExclusive, RangeStable, Closers
<1> QED
  BY <1>2, <1>3

LEMMA TypeStep == TypeOK /\ MutexInv /\ [Next]_vars => TypeOK'
<1> SUFFICES ASSUME TypeOK, MutexInv, [Next]_vars
             PROVE  TypeOK'
  OBVIOUS
<1> USE TypesAssumption, BoundsAssumption
<1> USE DEF RegStates, ChanStates, PosterStates, CloserStates
<1>1. CASE Tick
  BY <1>1 DEF TypeOK, Tick, muxVars, subVars, postVars, closeVars
<1>2. ASSUME NEW s \in Subs, NewSub(s) PROVE TypeOK'
  BY <1>2 DEF TypeOK, NewSub, muxVars, subVars, postVars, closeVars
<1>3. ASSUME NEW s \in Subs, NEW a \in ArgLists, Subscribe(s, a) PROVE TypeOK'
  <2>1. subm' \in [Types -> Seq(Subs)]
    <3>1. CASE stopped
      BY <1>3, <3>1 DEF TypeOK, Subscribe
    <3>2. CASE ~stopped
      <4>1. \A t \in Types : Append(subm[t], s) \in Seq(Subs)
        BY AppendProperties DEF TypeOK
      <4>2. subm' = [t \in Types |-> IF t \in Registered(a) THEN Append(subm[t], s)
                                                          ELSE subm[t]]
        BY <1>3, <3>2 DEF Subscribe
      <4> QED
        BY <4>1, <4>2 DEF TypeOK
    <3> QED
      BY <3>1, <3>2
  <2>2. reg' \in [Subs -> RegStates]
    BY <1>3 DEF TypeOK, Subscribe
  <2>3. chan' \in [Subs -> ChanStates]
    BY <1>3 DEF TypeOK, Subscribe
  <2> QED
    BY <1>3, <2>1, <2>2, <2>3 DEF TypeOK, Subscribe, postVars, closeVars
<1>4. ASSUME NEW p \in Posters, NEW t \in Types, PostCall(p, t) PROVE TypeOK'
  <2>1. [poster |-> p, n |-> pev[p].n + 1, type |-> t, time |-> now] \in Events
    BY <1>4 DEF TypeOK, PostCall, Events
  <2>2. pev' \in [Posters -> Events]
    BY <1>4, <2>1 DEF TypeOK, PostCall
  <2>3. owed' \in [Posters -> SUBSET Subs]
    BY <1>4 DEF TypeOK, PostCall, ToSet
  <2> QED
    BY <1>4, <2>2, <2>3 DEF TypeOK, PostCall, muxVars, subVars, closeVars
<1>5. ASSUME NEW p \in Posters, PostSnapshot(p) PROVE TypeOK'
  <2>1. pev[p].type \in Types
    BY DEF TypeOK, Events
  <2>2. ptodo' \in [Posters -> Seq(Subs)]
    <3>1. subm[pev[p].type] \in Seq(Subs)
      BY <2>1 DEF TypeOK
    <3> QED
      BY <1>5, <3>1 DEF TypeOK, PostSnapshot
  <2>3. ppc' \in [Posters -> PosterStates] /\ ppc'[p] \in {"idle", "deliver"}
    BY <1>5 DEF TypeOK, PostSnapshot
  <2>4. \A q \in Posters : q # p => ppc'[q] = ppc[q] /\ ptodo'[q] = ptodo[q]
    BY <1>5 DEF TypeOK, PostSnapshot
  <2>5. \A q \in Posters : ppc'[q] \in {"select", "selectnil"} => ptodo'[q] # <<>>
    BY <2>3, <2>4 DEF TypeOK
  <2> QED
    BY <1>5, <2>2, <2>3, <2>5 DEF TypeOK, PostSnapshot, muxVars, subVars, closeVars
<1>6. ASSUME NEW p \in Posters, DeliverStale(p) PROVE TypeOK'
  BY <1>6 DEF TypeOK, DeliverStale, muxVars, subVars, closeVars
<1>7. ASSUME NEW p \in Posters, DeliverLock(p) PROVE TypeOK'
  BY <1>7 DEF TypeOK, DeliverLock, muxVars, subVars, closeVars
<1>8. ASSUME NEW p \in Posters, Deliver(p) PROVE TypeOK'
  BY <1>8 DEF TypeOK, Deliver, DoneDelivery, muxVars, subVars, closeVars
<1>9. ASSUME NEW p \in Posters, DeliverAbort(p) PROVE TypeOK'
  <2>1. /\ ppc[p] \in {"select", "selectnil"} /\ ppc' = [ppc EXCEPT ![p] = "deliver"]
        /\ ptodo' = [ptodo EXCEPT ![p] = Tail(@)]
        /\ UNCHANGED <<now, muxVars, subVars, chan, pev, owed, closeVars, got, gone>>
    BY <1>9 DEF DeliverAbort, DoneDelivery
  <2>2. ppc' \in [Posters -> PosterStates] /\ ptodo' \in [Posters -> Seq(Subs)]
    BY <2>1 DEF TypeOK, PosterStates
  <2>3. \A q \in Posters : ppc'[q] \in {"select", "selectnil"} => ptodo'[q] # <<>>
    BY <2>1 DEF TypeOK
  <2> QED
    BY <2>1, <2>2, <2>3 DEF TypeOK, muxVars, subVars, closeVars
<1>10. ASSUME NEW p \in Posters, PostReturn(p) PROVE TypeOK'
  BY <1>10 DEF TypeOK, PostReturn, muxVars, subVars, closeVars
<1>11. ASSUME NEW c \in Closers, NEW s \in Subs, Unsubscribe(c, s) PROVE TypeOK'
  <2>1. subm' \in [Types -> Seq(Subs)]
    BY <1>11, PosDeleteType DEF TypeOK, Unsubscribe
  <2> QED
    BY <1>11, <2>1 DEF TypeOK, Unsubscribe, muxVars, subVars, postVars
<1>12. ASSUME NEW c \in Stoppers, StopLock(c) PROVE TypeOK'
  BY <1>12 DEF TypeOK, StopLock, muxVars, subVars, postVars
<1>13. ASSUME NEW c \in Stoppers, NEW t \in Types, StopSlice(c, t) PROVE TypeOK'
  BY <1>13 DEF TypeOK, MutexInv, RangeStable, StopSlice, Closers, muxVars, subVars, postVars
<1>14. ASSUME NEW c \in Stoppers, StopReturn(c) PROVE TypeOK'
  <2>1. subm' \in [Types -> Seq(Subs)]
    BY <1>14 DEF StopReturn
  <2> QED
    BY <1>14, <2>1 DEF TypeOK, StopReturn, muxVars, subVars, postVars
<1>15. ASSUME NEW c \in Closers, CloseSkip(c) PROVE TypeOK'
  BY <1>15 DEF TypeOK, CloseSkip, CloseReturn, muxVars, subVars, postVars
<1>16. ASSUME NEW c \in Closers, CloseBegin(c) PROVE TypeOK'
  BY <1>16 DEF TypeOK, CloseBegin, muxVars, subVars, postVars
<1>17. ASSUME NEW c \in Closers, CloseLockPost(c) PROVE TypeOK'
  BY <1>17 DEF TypeOK, CloseLockPost, muxVars, subVars, postVars
<1>18. ASSUME NEW c \in Closers, CloseFinish(c) PROVE TypeOK'
  <2> DEFINE s == Head(cqueue[c])
  <2>1. /\ cpc[c] = "pending" /\ chan' = [chan EXCEPT ![s] = "closed"]
        /\ cqueue' = [cqueue EXCEPT ![c] = Tail(@)]
        /\ cpc' = [cpc EXCEPT ![c] = IF Tail(cqueue[c]) # <<>> THEN "closewait"
                                     ELSE IF c \in Stoppers THEN "stopping" ELSE "idle"]
        /\ gone' = IF c \in Leavers THEN gone \cup {s} ELSE gone
        /\ UNCHANGED <<now, muxVars, subVars, postVars, ctypes, got>>
    BY <1>18 DEF CloseFinish, CloseReturn
  <2>2. cqueue[c] \in Seq(Subs) /\ cqueue[c] # <<>>
    BY <2>1 DEF TypeOK
  <2>3. s \in Subs /\ Tail(cqueue[c]) \in Seq(Subs)
    BY <2>2, HeadTailProperties
  <2> HIDE DEF s
  <2>4. chan' \in [Subs -> ChanStates] /\ gone' \subseteq Subs
    BY <2>1, <2>3 DEF TypeOK, ChanStates
  <2>5. cqueue' \in [Closers -> Seq(Subs)] /\ cpc' \in [Closers -> CloserStates]
    BY <2>1, <2>3 DEF TypeOK, CloserStates
  <2>6. \A d \in Closers : cpc'[d] \in {"closewait", "closing", "pending"} => cqueue'[d] # <<>>
    BY <2>1 DEF TypeOK
  <2> QED
    BY <2>1, <2>4, <2>5, <2>6 DEF TypeOK, muxVars, subVars, postVars
<1>19. CASE UNCHANGED vars
  BY <1>19 DEF TypeOK, vars, muxVars, subVars, postVars, closeVars
<1> QED
  BY <1>1, <1>2, <1>3, <1>4, <1>5, <1>6, <1>7, <1>8, <1>9, <1>10, <1>11, <1>12, <1>13,
     <1>14, <1>15, <1>16, <1>17, <1>18, <1>19
     DEF Next, Post, Stop, Leave, Close, Closers

(* The mutex: only Stop keeps it across a waiting point, and the map has   *)
(* its keys taken away by nobody else while it does.                       *)
LEMMA MutexStep == TypeOK /\ MutexInv /\ [Next]_vars => MutexInv'
<1> SUFFICES ASSUME TypeOK, MutexInv, [Next]_vars
             PROVE  MutexInv'
  OBVIOUS
<1> USE ActorsAssumption DEF MutexInv, MutexExclusive, RangeStable, Closers
<1>1. ASSUME NEW s \in Subs, NEW a \in ArgLists, Subscribe(s, a) PROVE MutexInv'
  BY <1>1 DEF Subscribe, MutexFree, closeVars
<1>2. ASSUME NEW c \in Closers, NEW s \in Subs, c \in Leavers, Unsubscribe(c, s) PROVE MutexInv'
  <2>1. /\ MutexFree /\ cpc' = [cpc EXCEPT ![c] = "closewait"] /\ ctypes' = ctypes
        /\ c \notin Stoppers
    BY <1>2 DEF Unsubscribe
  <2>2. \A d \in Stoppers : cpc[d] = "idle" /\ cpc'[d] = "idle"
    BY <2>1 DEF MutexFree, TypeOK
  <2> QED BY <2>2
<1>3. ASSUME NEW c \in Stoppers, StopLock(c) PROVE MutexInv'
  BY <1>3 DEF StopLock, MutexFree, muxVars, TypeOK
<1>4. ASSUME NEW c \in Stoppers, NEW t \in Types, StopSlice(c, t) PROVE MutexInv'
  <2>1. /\ cpc[c] = "stopping" /\ cpc' = [cpc EXCEPT ![c] = "closewait"]
        /\ ctypes' = [ctypes EXCEPT ![c] = @ \ {t}] /\ subm' = subm
    BY <1>4 DEF StopSlice, muxVars
  <2>2. \A d \in Stoppers : (cpc'[d] = "idle") <=> (cpc[d] = "idle")
    BY <2>1 DEF TypeOK
  <2>3. MutexExclusive'
    BY <2>2
  <2>4. \A d \in Closers : ctypes'[d] \subseteq ctypes[d]
    BY <2>1 DEF TypeOK
  <2> QED BY <2>1, <2>2, <2>3, <2>4
<1>5. ASSUME NEW c \in Stoppers, StopReturn(c) PROVE MutexInv'
  BY <1>5 DEF StopReturn, TypeOK
<1>6. ASSUME NEW c \in Closers, Close(c) PROVE MutexInv'
  <2>1. /\ cpc[c] # "idle"
        /\ cpc' = [cpc EXCEPT ![c] = cpc'[c]]
        /\ UNCHANGED <<subm, ctypes>>
    BY <1>6 DEF Close, CloseSkip, CloseBegin, CloseLockPost, CloseFinish, CloseReturn,
                muxVars, TypeOK
  <2> QED
    BY <2>1 DEF TypeOK
<1>7. CASE UNCHANGED <<subm, cpc, ctypes>>
  BY <1>7
<1>8. ASSUME NEW s \in Subs, NewSub(s) PROVE UNCHANGED <<subm, cpc, ctypes>>
  BY <1>8 DEF NewSub, muxVars, closeVars
<1>9. ASSUME NEW p \in Posters, Post(p) PROVE UNCHANGED <<subm, cpc, ctypes>>
  BY <1>9 DEF Post, PostCall, PostSnapshot, DeliverStale, DeliverLock, Deliver, DeliverAbort,
              DoneDelivery, PostReturn, muxVars, closeVars
<1>10. Tick \/ UNCHANGED vars => UNCHANGED <<subm, cpc, ctypes>>
  BY DEF Tick, vars, muxVars, closeVars
<1> QED
  BY <1>1, <1>2, <1>3, <1>4, <1>5, <1>6, <1>7, <1>8, <1>9, <1>10 DEF Next, Stop, Leave

(* The closing protocol: closeMu, postMu and the three closing states.     *)
LEMMA CloseStep == IInv /\ [Next]_vars => (HolderClosing /\ ClosingHeld /\ CloseMuExclusive)'
<1> SUFFICES ASSUME IInv, [Next]_vars
             PROVE  (HolderClosing /\ ClosingHeld /\ CloseMuExclusive)'
  OBVIOUS
<1> USE DEF HolderClosing, ClosingHeld, CloseMuExclusive, HoldsCloseMu
<1>1. ASSUME NEW s \in Subs, NEW a \in ArgLists, Subscribe(s, a)
      PROVE  (HolderClosing /\ ClosingHeld /\ CloseMuExclusive)'
  <2>1. chan[s] = "open" /\ UNCHANGED <<cpc, cqueue>>
    BY <1>1 DEF Subscribe, closeVars, IInv, UnregisteredOpen
  <2>2. chan' = [chan EXCEPT ![s] = chan'[s]] /\ chan'[s] \in {"open", "dead"}
    BY <1>1, <2>1 DEF Subscribe, IInv, TypeOK
  <2>3. \A r \in Subs : (chan'[r] = "closing") <=> (chan[r] = "closing")
    BY <2>1, <2>2 DEF IInv, TypeOK
  <2>4. \A c \in Closers : cpc[c] \in {"closing", "pending"} => Head(cqueue[c]) \in Subs
    BY HeadTailProperties DEF IInv, TypeOK
  <2> QED
    BY <2>1, <2>3, <2>4 DEF IInv
<1>2. ASSUME NEW c \in Closers, NEW s \in Subs, Unsubscribe(c, s)
      PROVE  (HolderClosing /\ ClosingHeld /\ CloseMuExclusive)'
  <2>1. /\ chan' = chan /\ cpc[c] = "idle" /\ cpc'[c] = "closewait"
        /\ \A d \in Closers : d # c => cpc'[d] = cpc[d] /\ cqueue'[d] = cqueue[d]
    BY <1>2 DEF Unsubscribe, IInv, TypeOK
  <2> QED BY <2>1 DEF IInv
<1>3. ASSUME NEW c \in Closers, StopLock(c)
      PROVE  (HolderClosing /\ ClosingHeld /\ CloseMuExclusive)'
  BY <1>3 DEF StopLock, IInv, TypeOK
<1>4. ASSUME NEW c \in Closers, NEW t \in Types, StopSlice(c, t)
      PROVE  (HolderClosing /\ ClosingHeld /\ CloseMuExclusive)'
  <2>1. /\ chan' = chan /\ cpc[c] = "stopping" /\ cpc'[c] = "closewait"
        /\ \A d \in Closers : d # c => cpc'[d] = cpc[d] /\ cqueue'[d] = cqueue[d]
    BY <1>4 DEF StopSlice, IInv, TypeOK
  <2> QED BY <2>1 DEF IInv
<1>5. ASSUME NEW c \in Closers, StopReturn(c)
      PROVE  (HolderClosing /\ ClosingHeld /\ CloseMuExclusive)'
  BY <1>5 DEF StopReturn, IInv, TypeOK
<1>6. ASSUME NEW c \in Closers, CloseSkip(c)
      PROVE  (HolderClosing /\ ClosingHeld /\ CloseMuExclusive)'
  <2>1. /\ cpc[c] = "closewait" /\ cpc'[c] \notin {"closing", "pending"}
        /\ \A d \in Closers : d # c => cpc'[d] = cpc[d] /\ cqueue'[d] = cqueue[d]
        /\ chan' = chan
    BY <1>6 DEF CloseSkip, CloseReturn, IInv, TypeOK
  <2> QED
    BY <2>1 DEF IInv
<1>7. ASSUME NEW c \in Closers, CloseBegin(c)
      PROVE  (HolderClosing /\ ClosingHeld /\ CloseMuExclusive)'
  <2> DEFINE s == Head(cqueue[c])
  <2>1. /\ cpc[c] = "closewait" /\ chan[s] = "open" /\ cqueue' = cqueue
        /\ chan' = [chan EXCEPT ![s] = "closing"] /\ cpc' = [cpc EXCEPT ![c] = "closing"]
        /\ \A d \in Closers : ~(cpc[d] \in {"closing", "pending"} /\ Head(cqueue[d]) = s)
    BY <1>7 DEF CloseBegin
  <2>2. s \in Subs
    BY <2>1, HeadTailProperties DEF IInv, TypeOK
  <2> HIDE DEF s
  <2>3. /\ cpc'[c] = "closing" /\ Head(cqueue'[c]) = s
        /\ \A d \in Closers : d # c => cpc'[d] = cpc[d] /\ cqueue'[d] = cqueue[d]
    BY <2>1 DEF IInv, TypeOK, s
  <2>4. chan'[s] = "closing" /\ \A r \in Subs : r # s => chan'[r] = chan[r]
    BY <2>1, <2>2 DEF IInv, TypeOK
  <2>5. HolderClosing'
    BY <2>1, <2>2, <2>3, <2>4 DEF IInv
  <2>6. ClosingHeld'
    BY <2>1, <2>2, <2>3, <2>4 DEF IInv
  <2>7. CloseMuExclusive'
    BY <2>1, <2>3 DEF IInv
  <2> QED BY <2>5, <2>6, <2>7
<1>8. ASSUME NEW c \in Closers, CloseLockPost(c)
      PROVE  (HolderClosing /\ ClosingHeld /\ CloseMuExclusive)'
  BY <1>8 DEF CloseLockPost, IInv, TypeOK
<1>9. ASSUME NEW c \in Closers, CloseFinish(c)
      PROVE  (HolderClosing /\ ClosingHeld /\ CloseMuExclusive)'
  <2> DEFINE s == Head(cqueue[c])
  <2>1. /\ cpc[c] = "pending" /\ cpc'[c] \notin {"closing", "pending"}
        /\ \A d \in Closers : d # c => cpc'[d] = cpc[d] /\ cqueue'[d] = cqueue[d]
        /\ chan' = [chan EXCEPT ![s] = "closed"]
    BY <1>9 DEF CloseFinish, CloseReturn, IInv, TypeOK
  <2>2. \A d \in Closers : cpc[d] \in {"closing", "pending"} => Head(cqueue[d]) \in Subs
    BY HeadTailProperties DEF IInv, TypeOK
  <2>3. s \in Subs /\ HoldsCloseMu(c, s)
    BY <2>1, <2>2
  <2>4. \A d \in Closers : d # c => ~HoldsCloseMu(d, s)
    BY <2>3 DEF IInv
  <2>5. \A r \in Subs : chan'[r] = IF r = s THEN "closed" ELSE chan[r]
    BY <2>1, <2>3 DEF IInv, TypeOK
  <2> HIDE DEF s
  <2> QED
    BY <2>1, <2>2, <2>3, <2>4, <2>5 DEF IInv
<1>10. CASE UNCHANGED <<chan, cpc, cqueue>>
  BY <1>10 DEF IInv
<1>11. ASSUME NEW s \in Subs, NewSub(s) PROVE UNCHANGED <<chan, cpc, cqueue>>
  BY <1>11 DEF NewSub, closeVars
<1>12. ASSUME NEW p \in Posters, Post(p) PROVE UNCHANGED <<chan, cpc, cqueue>>
  BY <1>12 DEF Post, PostCall, PostSnapshot, DeliverStale, DeliverLock, Deliver, DeliverAbort,
               DoneDelivery, PostReturn, closeVars
<1>13. Tick \/ UNCHANGED vars => UNCHANGED <<chan, cpc, cqueue>>
  BY DEF Tick, vars, closeVars
<1> QED
  BY <1>1, <1>2, <1>3, <1>4, <1>5, <1>6, <1>7, <1>8, <1>9, <1>10, <1>11, <1>12, <1>13
     DEF Next, Stop, Leave, Close, Closers

(* How a step changes one receiver: it is registered once, and after that  *)
(* it is never "dead"; only a registered receiver is closed.               *)
LEMMA SubStep ==
  ASSUME IInv, [Next]_vars, NEW s \in Subs
  PROVE  /\ Known(s) => Known(s)'
         /\ reg[s] \in {"ready", "orphan"} => reg'[s] = reg[s]
         /\ reg'[s] \in {"none", "new"} => reg[s] \in {"none", "new"} /\ chan'[s] = chan[s]
<1> DEFINE Goal == /\ Known(s) => Known(s)'
                   /\ reg[s] \in {"ready", "orphan"} => reg'[s] = reg[s]
                   /\ reg'[s] \in {"none", "new"} => reg[s] \in {"none", "new"} /\ chan'[s] = chan[s]
<1> USE DEF Known
<1>1. ASSUME NEW r \in Subs, NEW a \in ArgLists, Subscribe(r, a) PROVE Goal
  <2>1. r # s => reg'[s] = reg[s] /\ chan'[s] = chan[s]
    BY <1>1 DEF Subscribe, IInv, TypeOK
  <2>2. r = s => reg[s] = "new" /\ reg'[s] \in {"ready", "orphan"}
    BY <1>1 DEF Subscribe, IInv, TypeOK
  <2> QED
    BY <2>1, <2>2
<1>2. ASSUME NEW r \in Subs, NewSub(r) PROVE Goal
  BY <1>2 DEF NewSub, IInv, TypeOK
<1>3. ASSUME NEW c \in Closers, CloseBegin(c) \/ CloseFinish(c) PROVE Goal
  <2>1. cqueue[c] # <<>>
    BY <1>3 DEF CloseBegin, CloseFinish, IInv, TypeOK
  <2>2. reg[Head(cqueue[c])] \in {"ready", "orphan"}
    BY <2>1, HeadTailProperties DEF IInv, TypeOK, TargetRegistered
  <2>3. UNCHANGED reg
    BY <1>3 DEF CloseBegin, CloseFinish, CloseReturn, subVars
  <2>4. \E v \in {"closing", "closed"} : chan' = [chan EXCEPT ![Head(cqueue[c])] = v]
    BY <1>3 DEF CloseBegin, CloseFinish
  <2> QED
    BY <2>2, <2>3, <2>4 DEF IInv, TypeOK
<1>4. ASSUME UNCHANGED <<reg, chan>> PROVE Goal
  BY <1>4
<1>5. ASSUME NEW c \in Closers, CloseSkip(c) \/ CloseLockPost(c) PROVE UNCHANGED <<reg, chan>>
  BY <1>5 DEF CloseSkip, CloseLockPost, CloseReturn, subVars
<1>6. ASSUME NEW c \in Closers, NEW r \in Subs, Unsubscribe(c, r) PROVE UNCHANGED <<reg, chan>>
  BY <1>6 DEF Unsubscribe, subVars
<1>7. ASSUME NEW c \in Stoppers, StopLock(c) \/ StopReturn(c) \/ \E t \in Types : StopSlice(c, t)
      PROVE  UNCHANGED <<reg, chan>>
  BY <1>7 DEF StopLock, StopSlice, StopReturn, subVars
<1>8. ASSUME NEW p \in Posters, Post(p) PROVE UNCHANGED <<reg, chan>>
  BY <1>8 DEF Post, PostCall, PostSnapshot, DeliverStale, DeliverLock, Deliver, DeliverAbort,
              DoneDelivery, PostReturn, subVars
<1>9. Tick \/ UNCHANGED vars => UNCHANGED <<reg, chan>>
  BY DEF Tick, vars, subVars
<1> HIDE DEF Goal
<1>10. ASSUME NEW c \in Closers, Close(c) PROVE Goal
  BY <1>10, <1>3, <1>4, <1>5 DEF Close
<1>11. ASSUME NEW c \in Stoppers, Stop(c) PROVE Goal
  BY <1>11, <1>4, <1>7, <1>10 DEF Stop, Closers
<1>12. ASSUME NEW c \in Leavers, Leave(c) PROVE Goal
  BY <1>12, <1>4, <1>6, <1>10 DEF Leave, Closers
<1>13. Goal
  BY <1>1, <1>2, <1>4, <1>8, <1>9, <1>11, <1>12 DEF Next
<1> QED
  BY <1>13 DEF Goal

(* The receivers the map, the snapshots and the closers' queues refer to.  *)
LEMMA KnownStep ==
  IInv /\ [Next]_vars =>
    (RegisteredKnown /\ SnapshotKnown /\ TargetRegistered /\ UnregisteredOpen)'
<1> SUFFICES ASSUME IInv, [Next]_vars
             PROVE  (RegisteredKnown /\ SnapshotKnown /\ TargetRegistered /\ UnregisteredOpen)'
  OBVIOUS
<1>1. TypeOK /\ TypeOK'
  BY TypeStep DEF IInv
<1>2. \A s \in Subs : /\ Known(s) => Known(s)'
                      /\ reg[s] \in {"ready", "orphan"} => reg'[s] = reg[s]
  BY SubStep
<1>3. UnregisteredOpen'
  BY SubStep, <1>1 DEF UnregisteredOpen, IInv, TypeOK
<1>4. ASSUME NEW t \in Types, NEW i \in DOMAIN subm'[t]
      PROVE  Known(subm[t][i])'
  <2>1. ASSUME NEW s \in Subs, NEW a \in ArgLists, Subscribe(s, a), ~stopped
        PROVE  Known(subm[t][i])'
    <3>1. Known(s)'
      BY <2>1, <1>1 DEF Known, Subscribe, IInv, TypeOK, UnregisteredOpen
    <3>2. subm'[t] \in {subm[t], Append(subm[t], s)}
      BY <2>1, <1>1 DEF Subscribe, TypeOK
    <3>3. (i \in DOMAIN subm[t] /\ subm'[t][i] = subm[t][i]) \/ subm'[t][i] = s
      <4>1. subm[t] \in Seq(Subs)
        BY <1>1 DEF TypeOK
      <4>2. CASE subm'[t] = Append(subm[t], s)
        BY <4>1, <4>2
      <4> QED
        BY <3>2, <4>2
    <3>4. CASE subm'[t][i] = s
      BY <3>1, <3>4 DEF Known
    <3>5. CASE i \in DOMAIN subm[t] /\ subm'[t][i] = subm[t][i]
      BY <3>5, <1>1, <1>2 DEF IInv, RegisteredKnown, TypeOK, Known
    <3> QED
      BY <3>3, <3>4, <3>5
  <2>2. ASSUME NEW c \in Closers, NEW s \in Subs, Unsubscribe(c, s)
        PROVE  Known(subm[t][i])'
    <3>1. \E j \in DOMAIN subm[t] : subm'[t][i] = subm[t][j]
      <4>1. CASE Find(subm[t], s)
        BY <2>2, <4>1, <1>1, PosDeleteType DEF Unsubscribe, TypeOK
      <4>2. CASE ~Find(subm[t], s)
        BY <2>2, <4>2, <1>1 DEF Unsubscribe, TypeOK
      <4> QED
        BY <4>1, <4>2
    <3> QED
      BY <3>1, <1>1, <1>2 DEF IInv, RegisteredKnown, TypeOK
  <2>3. ASSUME NEW c \in Closers, StopReturn(c)
        PROVE  Known(subm[t][i])'
    BY <2>3 DEF StopReturn
  <2>4. CASE UNCHANGED subm
    BY <2>4, <1>1, <1>2 DEF IInv, RegisteredKnown, TypeOK
  <2>5. ASSUME NEW s \in Subs, NEW a \in ArgLists, Subscribe(s, a), stopped PROVE UNCHANGED subm
    BY <2>5 DEF Subscribe
  <2>6. ASSUME NEW p \in Posters, Post(p) PROVE UNCHANGED subm
    BY <2>6 DEF Post, PostCall, PostSnapshot, DeliverStale, DeliverLock, Deliver, DeliverAbort,
                DoneDelivery, PostReturn, muxVars
  <2>7. ASSUME NEW c \in Closers, Close(c) \/ StopLock(c) \/ \E u \in Types : StopSlice(c, u)
        PROVE  UNCHANGED subm
    BY <2>7 DEF Close, CloseSkip, CloseBegin, CloseLockPost, CloseFinish, CloseReturn, StopLock,
                StopSlice, muxVars
  <2>8. (\E s \in Subs : NewSub(s)) \/ Tick \/ UNCHANGED vars => UNCHANGED subm
    BY DEF NewSub, Tick, vars, muxVars
  <2> QED
    BY <2>1, <2>2, <2>3, <2>4, <2>5, <2>6, <2>7, <2>8 DEF Next, Stop, Leave, Closers
<1>5. ASSUME NEW p \in Posters, NEW i \in DOMAIN ptodo'[p]
      PROVE  Known(ptodo[p][i])'
  <2>1. \/ \E j \in DOMAIN ptodo[p] : ptodo'[p][i] = ptodo[p][j]
        \/ \E t \in Types : \E j \in DOMAIN subm[t] : ptodo'[p][i] = subm[t][j]
    <3>1. ASSUME NEW q \in Posters, PostSnapshot(q), ~stopped
          PROVE  q = p => \E t \in Types : ptodo'[p] = subm[t]
      <4>1. pev[q].type \in Types
        BY <1>1 DEF TypeOK, Events
      <4> QED
        BY <3>1, <4>1, <1>1 DEF PostSnapshot, TypeOK
    <3>2. ASSUME NEW q \in Posters, PostSnapshot(q) PROVE q # p => ptodo'[p] = ptodo[p]
      BY <3>2, <1>1 DEF PostSnapshot, TypeOK
    <3>3. ASSUME NEW q \in Posters, PostSnapshot(q), stopped PROVE UNCHANGED ptodo
      BY <3>3 DEF PostSnapshot
    <3>4. ASSUME NEW q \in Posters, DeliverStale(q) \/ Deliver(q) \/ DeliverAbort(q)
          PROVE  \E j \in DOMAIN ptodo[p] : ptodo'[p][i] = ptodo[p][j]
      <4>1. ptodo[q] # <<>> /\ ptodo' = [ptodo EXCEPT ![q] = Tail(@)]
        BY <3>4, <1>1 DEF DeliverStale, Deliver, DeliverAbort, DoneDelivery, TypeOK
      <4>2. q = p => i + 1 \in DOMAIN ptodo[p] /\ ptodo'[p][i] = ptodo[p][i + 1]
        BY <4>1, <1>1, HeadTailProperties DEF TypeOK
      <4>3. q # p => ptodo'[p] = ptodo[p]
        BY <4>1, <1>1 DEF TypeOK
      <4> QED
        BY <4>2, <4>3
    <3>5. ASSUME NEW q \in Posters, NEW t \in Types, PostCall(q, t) PROVE UNCHANGED ptodo
      BY <3>5 DEF PostCall
    <3>6. ASSUME NEW q \in Posters, DeliverLock(q) \/ PostReturn(q) PROVE UNCHANGED ptodo
      BY <3>6 DEF DeliverLock, PostReturn
    <3>7. ASSUME NEW c \in Closers, Stop(c) \/ Leave(c) PROVE UNCHANGED ptodo
      BY <3>7 DEF Stop, Leave, Unsubscribe, Close, CloseSkip, CloseBegin, CloseLockPost, CloseFinish,
                  CloseReturn, StopLock, StopSlice, StopReturn, postVars
    <3>8. ASSUME NEW s \in Subs, NewSub(s) \/ \E a \in ArgLists : Subscribe(s, a)
          PROVE  UNCHANGED ptodo
      BY <3>8 DEF NewSub, Subscribe, postVars
    <3>9. Tick \/ UNCHANGED vars => UNCHANGED ptodo
      BY DEF Tick, vars, postVars
    <3>10. CASE UNCHANGED ptodo
      BY <3>10
    <3>11. ASSUME NEW q \in Posters, PostSnapshot(q)
           PROVE  UNCHANGED ptodo \/ ptodo'[p] = ptodo[p] \/ \E t \in Types : ptodo'[p] = subm[t]
      BY <3>1, <3>2, <3>3, <3>11
    <3>12. CASE \E q \in Posters : Post(q)
      BY <3>4, <3>5, <3>6, <3>10, <3>11, <3>12 DEF Post
    <3> QED
      BY <3>7, <3>8, <3>9, <3>10, <3>12 DEF Next, Closers
  <2>2. \A q \in Posters : \A j \in DOMAIN ptodo[q] : Known(ptodo[q][j]) /\ ptodo[q][j] \in Subs
    BY <1>1 DEF IInv, SnapshotKnown, TypeOK
  <2>3. \A t \in Types : \A j \in DOMAIN subm[t] : Known(subm[t][j]) /\ subm[t][j] \in Subs
    BY <1>1 DEF IInv, RegisteredKnown, TypeOK
  <2>4. PICK r \in Subs : r = ptodo'[p][i] /\ Known(r)
    BY <2>1, <2>2, <2>3
  <2>5. Known(r)'
    BY <1>2, <2>4
  <2> QED BY <2>4, <2>5 DEF Known
<1>6. ASSUME NEW c \in Closers, NEW i \in DOMAIN cqueue'[c]
      PROVE  reg'[cqueue'[c][i]] \in {"ready", "orphan"}
  <2>1. \/ \E j \in DOMAIN cqueue[c] : cqueue'[c][i] = cqueue[c][j]
        \/ \E t \in Types : \E j \in DOMAIN subm[t] : cqueue'[c][i] = subm[t][j]
        \/ cqueue'[c][i] \in Subs /\ reg[cqueue'[c][i]] = "ready"
    <3>1. ASSUME NEW d \in Closers, NEW t \in Types, StopSlice(d, t)
          PROVE  cqueue'[c] \in {cqueue[c], subm[t]}
      BY <3>1, <1>1 DEF StopSlice, TypeOK
    <3>2. ASSUME NEW d \in Closers, NEW s \in Subs, Unsubscribe(d, s)
          PROVE  cqueue'[c] = cqueue[c] \/ (cqueue'[c] = <<s>> /\ reg[s] = "ready")
      BY <3>2, <1>1 DEF Unsubscribe, TypeOK
    <3>3. ASSUME NEW d \in Closers, CloseSkip(d) \/ CloseFinish(d)
          PROVE  \E j \in DOMAIN cqueue[c] : cqueue'[c][i] = cqueue[c][j]
      <4>1. cqueue[d] # <<>> /\ cqueue' = [cqueue EXCEPT ![d] = Tail(@)]
        BY <3>3, <1>1 DEF CloseSkip, CloseFinish, CloseReturn, TypeOK
      <4>2. d = c => i + 1 \in DOMAIN cqueue[c] /\ cqueue'[c][i] = cqueue[c][i + 1]
        BY <4>1, <1>1, HeadTailProperties DEF TypeOK
      <4>3. d # c => cqueue'[c] = cqueue[c]
        BY <4>1, <1>1 DEF TypeOK
      <4> QED
        BY <4>2, <4>3
    <3>4. ASSUME NEW d \in Closers, CloseBegin(d) \/ CloseLockPost(d) \/ StopLock(d) \/ StopReturn(d)
          PROVE  UNCHANGED cqueue
      BY <3>4 DEF CloseBegin, CloseLockPost, StopLock, StopReturn
    <3>5. ASSUME NEW q \in Posters, Post(q) PROVE UNCHANGED cqueue
      BY <3>5 DEF Post, PostCall, PostSnapshot, DeliverStale, DeliverLock, Deliver, DeliverAbort,
                  DoneDelivery, PostReturn, closeVars
    <3>6. ASSUME NEW s \in Subs, NewSub(s) \/ \E a \in ArgLists : Subscribe(s, a)
          PROVE  UNCHANGED cqueue
      BY <3>6 DEF NewSub, Subscribe, closeVars
    <3>7. Tick \/ UNCHANGED vars => UNCHANGED cqueue
      BY DEF Tick, vars, closeVars
    <3>8. CASE UNCHANGED cqueue
      BY <3>8
    <3>9. CASE \E d \in Closers : Close(d)
      BY <3>3, <3>4, <3>8, <3>9 DEF Close
    <3>10. CASE \E d \in Closers, t \in Types : StopSlice(d, t)
      BY <3>1, <3>10
    <3>11. CASE \E d \in Closers, s \in Subs : Unsubscribe(d, s)
      <4>1. PICK d \in Closers, s \in Subs : Unsubscribe(d, s)
        BY <3>11
      <4>2. CASE cqueue'[c] = <<s>> /\ reg[s] = "ready"
        BY <4>2
      <4> QED
        BY <4>1, <4>2, <3>2
    <3>12. CASE \E d \in Closers : Stop(d) \/ Leave(d)
      BY <3>4, <3>8, <3>9, <3>10, <3>11, <3>12 DEF Stop, Leave
    <3> QED
      BY <3>5, <3>6, <3>7, <3>8, <3>12 DEF Next, Closers
  <2> DEFINE r == cqueue'[c][i]
             Named(q) == reg[q] \in {"ready", "orphan"} /\ q \in Subs
  <2>2. \A d \in Closers : \A j \in DOMAIN cqueue[d] : Named(cqueue[d][j])
    BY <1>1 DEF IInv, TargetRegistered, TypeOK
  <2>3. \A t \in Types : \A j \in DOMAIN subm[t] : Named(subm[t][j])
    BY <1>1 DEF IInv, RegisteredKnown, TypeOK, Known
  <2>4. Named(r)
    BY <2>1, <2>2, <2>3
  <2> HIDE DEF r
  <2>5. reg'[r] \in {"ready", "orphan"}
    BY <1>2, <2>4
  <2> QED BY <2>5 DEF r
<1> QED
  BY <1>3, <1>4, <1>5, <1>6 DEF RegisteredKnown, SnapshotKnown, TargetRegistered

(* A poster inside the send and an owner that has unsubscribed.            *)
LEMMA SendStep == IInv /\ [Next]_vars => (NoSendOnClosedChannel /\ GoneClosed)'
<1> SUFFICES ASSUME IInv, [Next]_vars
             PROVE  (NoSendOnClosedChannel /\ GoneClosed)'
  OBVIOUS
<1> USE DEF NoSendOnClosedChannel, GoneClosed
<1>1. TypeOK /\ HolderClosing /\ ClosingHeld
      /\ NoSendOnClosedChannel /\ GoneClosed /\ SnapshotKnown
  BY DEF IInv
<1>2. \A p \in Posters : ppc[p] \in {"select", "selectnil"} => Head(ptodo[p]) \in Subs
  BY <1>1, HeadTailProperties DEF TypeOK
<1>3. ASSUME NEW s \in Subs, NEW a \in ArgLists, Subscribe(s, a)
      PROVE  (NoSendOnClosedChannel /\ GoneClosed)'
  <2>1. reg[s] = "new" /\ chan[s] = "open" /\ UNCHANGED <<ppc, ptodo, gone>>
    BY <1>3 DEF Subscribe, postVars, IInv, UnregisteredOpen
  <2>2. \A r \in Subs : r # s => chan'[r] = chan[r]
    BY <1>3, <1>1 DEF Subscribe, TypeOK
  <2>3. s \notin gone
    BY <1>1, <2>1
  <2>4. \A p \in Posters : ppc[p] = "select" => Head(ptodo[p]) # s
    <3> SUFFICES ASSUME NEW p \in Posters, ppc[p] = "select"
                 PROVE  Head(ptodo[p]) # s
      OBVIOUS
    <3>1. ptodo[p] \in Seq(Subs) /\ ptodo[p] # <<>>
      BY <1>1 DEF TypeOK
    <3>2. Head(ptodo[p]) = ptodo[p][1] /\ 1 \in DOMAIN ptodo[p]
      BY <3>1
    <3> QED
      BY <1>1, <2>1, <3>2 DEF SnapshotKnown, Known
  <2> QED
    BY <1>1, <1>2, <2>1, <2>2, <2>3, <2>4 DEF TypeOK
<1>4. ASSUME NEW c \in Closers, CloseSkip(c)
      PROVE  (NoSendOnClosedChannel /\ GoneClosed)'
  <2>1. Head(cqueue[c]) \in Subs
    BY <1>4, <1>1, HeadTailProperties DEF CloseSkip, TypeOK
  <2>2. chan[Head(cqueue[c])] \in {"closed", "dead"}
    BY <1>4, <1>1, <2>1 DEF CloseSkip, ClosingHeld, TypeOK, ChanStates
  <2> QED
    BY <1>4, <1>1, <2>2 DEF CloseSkip, CloseReturn, postVars
<1>5. ASSUME NEW c \in Closers, CloseBegin(c)
      PROVE  (NoSendOnClosedChannel /\ GoneClosed)'
  <2>1. /\ chan[Head(cqueue[c])] = "open" /\ UNCHANGED <<ppc, ptodo, gone>>
        /\ chan' = [chan EXCEPT ![Head(cqueue[c])] = "closing"]
    BY <1>5 DEF CloseBegin, postVars
  <2> QED
    BY <1>1, <1>2, <2>1 DEF TypeOK
<1>6. ASSUME NEW c \in Closers, CloseFinish(c)
      PROVE  (NoSendOnClosedChannel /\ GoneClosed)'
  <2> DEFINE s == Head(cqueue[c])
  <2>1. /\ s \in Subs /\ Readers(s) = {} /\ UNCHANGED <<ppc, ptodo>>
        /\ chan' = [chan EXCEPT ![s] = "closed"]
        /\ gone' \subseteq gone \cup {s}
    BY <1>6, <1>1, HeadTailProperties DEF CloseFinish, CloseReturn, postVars, TypeOK
  <2>2. \A p \in Posters : ppc[p] = "select" => Head(ptodo[p]) # s
    BY <2>1 DEF Readers
  <2> HIDE DEF s
  <2> QED
    BY <1>1, <1>2, <2>1, <2>2 DEF TypeOK
<1>7. ASSUME NEW p \in Posters, DeliverLock(p)
      PROVE  (NoSendOnClosedChannel /\ GoneClosed)'
  <2>1. Head(ptodo[p]) \in Subs /\ chan[Head(ptodo[p])] # "dead"
    BY <1>7, <1>1, HeadTailProperties DEF DeliverLock, TypeOK, SnapshotKnown, Known
  <2> QED
    BY <1>7, <1>1, <2>1 DEF DeliverLock, TypeOK, ChanStates
<1>8. ASSUME NEW p \in Posters, Post(p), ~DeliverLock(p)
      PROVE  /\ UNCHANGED <<chan, gone>>
             /\ \A q \in Posters : ppc'[q] = "select" => ppc[q] = "select" /\ ptodo'[q] = ptodo[q]
  BY <1>8, <1>1 DEF Post, PostCall, PostSnapshot, DeliverStale, Deliver, DeliverAbort, DoneDelivery,
                    PostReturn, TypeOK
<1>9. CASE UNCHANGED <<chan, gone, ppc, ptodo>>
  BY <1>1, <1>9
<1>10. ASSUME NEW c \in Closers, CloseLockPost(c) \/ \E s \in Subs : Unsubscribe(c, s)
       PROVE  UNCHANGED <<chan, gone, ppc, ptodo>>
  BY <1>10 DEF CloseLockPost, Unsubscribe, postVars
<1>11. ASSUME NEW c \in Closers, StopLock(c) \/ StopReturn(c) \/ \E t \in Types : StopSlice(c, t)
       PROVE  UNCHANGED <<chan, gone, ppc, ptodo>>
  BY <1>11 DEF StopLock, StopReturn, StopSlice, postVars
<1>12. Tick \/ UNCHANGED vars \/ (\E s \in Subs : NewSub(s)) => UNCHANGED <<chan, gone, ppc, ptodo>>
  BY DEF Tick, NewSub, vars, postVars
<1>13. CASE \E p \in Posters : Post(p)
  BY <1>1, <1>7, <1>8, <1>13
<1>14. CASE \E c \in Closers : Close(c)
  BY <1>4, <1>5, <1>6, <1>9, <1>10, <1>14 DEF Close
<1>15. CASE \E c \in Closers : Stop(c) \/ Leave(c)
  BY <1>9, <1>10, <1>11, <1>14, <1>15 DEF Stop, Leave
<1> QED
  BY <1>3, <1>9, <1>12, <1>13, <1>15 DEF Next, Closers

-----------------------------------------------------------------------------
LEMMA IInvInit == Init => IInv
<1> SUFFICES ASSUME Init PROVE IInv
  OBVIOUS
<1>1. TypeOK /\ MutexInv
  BY TypeInit
<1> QED
  BY <1>1 DEF Init, IInv, RegisteredKnown, SnapshotKnown, TargetRegistered, UnregisteredOpen,
              HolderClosing, ClosingHeld, CloseMuExclusive, HoldsCloseMu, GoneClosed,
              NoSendOnClosedChannel

LEMMA IInvStep == IInv /\ [Next]_vars => IInv'
BY TypeStep, MutexStep, CloseStep, KnownStep, SendStep DEF IInv

(* Every reachable state satisfies the inductive invariant.                *)
THEOREM Invariance == Spec => []IInv
BY IInvInit, IInvStep, PTL DEF Spec

(* The variables keep their types, and a goroutine that works through a    *)
(* list of receivers has one left to work on.                              *)
THEOREM TypeCorrect == Spec => []TypeOK
<1>1. IInv => TypeOK
  BY DEF IInv
<1> QED
  BY <1>1, Invariance, PTL

(* postMu does its job: no poster is ever in a send on a channel that      *)
(* closewait has closed.                                                   *)
THEOREM PostersNeverPanic == Spec => []NoSendOnClosedChannel
<1>1. IInv => NoSendOnClosedChannel
  BY DEF IInv
<1> QED
  BY <1>1, Invariance, PTL

(* Unsubscribe is final: no step gives a receiver an event once one of its *)
(* Unsubscribe calls has returned, whichever closer closed it.             *)
THEOREM UnsubscribeFinal == Spec => UnsubscribeIsFinal
<1>1. IInv /\ [Next]_vars => [\A s \in gone : got'[s] = got[s]]_vars
  <2> SUFFICES ASSUME IInv, Next, NEW s \in gone
               PROVE  got'[s] = got[s]
    BY DEF vars
  <2>1. s \in Subs /\ chan[s] \in {"closed", "dead"}
    BY DEF IInv, TypeOK, GoneClosed
  <2>2. ASSUME NEW p \in Posters, Deliver(p)
        PROVE  got'[s] = got[s]
    BY <2>1, <2>2 DEF Deliver, IInv, TypeOK, NoSendOnClosedChannel
  <2>3. ASSUME NEW p \in Posters, Post(p), ~Deliver(p)
        PROVE  UNCHANGED got
    BY <2>3 DEF Post, PostCall, PostSnapshot, DeliverStale, DeliverLock, DeliverAbort, DoneDelivery,
                PostReturn
  <2>4. ASSUME NEW c \in Closers, Stop(c) \/ Leave(c)
        PROVE  UNCHANGED got
    BY <2>4 DEF Stop, Leave, Unsubscribe, StopLock, StopSlice, StopReturn, Close, CloseSkip,
                CloseBegin, CloseLockPost, CloseFinish, CloseReturn
  <2>5. ASSUME Tick \/ \E r \in Subs : NewSub(r) \/ \E a \in ArgLists : Subscribe(r, a)
        PROVE  UNCHANGED got
    BY <2>5 DEF Tick, NewSub, Subscribe
  <2> QED
    BY <2>2, <2>3, <2>4, <2>5 DEF Next, Closers
<1> QED
  BY <1>1, Invariance, PTL DEF Spec, UnsubscribeIsFinal
-----------------------------------------------------------------------------
(* The delivery of events: the receivers of a slice or a snapshot are      *)
(* distinct, and a receiver that has an event of a poster already is not   *)
(* in the snapshot with which the poster goes on.                          *)
In(s, t) == s \in ToSet(subm[t])
Distinguished(q) == \A i, j \in DOMAIN q : q[i] = q[j] => i = j

SlicesDistinct == \A t \in Types : Distinguished(subm[t])
SnapshotsDistinct == \A p \in Posters : Distinguished(ptodo[p])
PosterIdle ==
  \A p \in Posters : pev[p].poster = p /\ (ppc[p] \in {"idle", "called"} => ptodo[p] = <<>>)

(* NotYet: s has earlier events of p only; NoLater: none after the current.*)
NotYet(p, s) == \A i \in DOMAIN got[s] : got[s][i].poster = p => got[s][i].n < pev[p].n
NoLater(p, s) == \A i \in DOMAIN got[s] : got[s][i].poster = p => got[s][i].n <= pev[p].n
EventsInOrder ==
  \A p \in Posters, s \in Subs :
    /\ NoLater(p, s)
    /\ ppc[p] = "called" \/ s \in ToSet(ptodo[p]) => NotYet(p, s)

(* A receiver is no younger than an event owed to it.                      *)
CreatedPast == \A s \in Subs : created[s] <= now
OwedSound ==
  \A p \in Posters : \A s \in owed[p] :
    reg[s] \in {"ready", "orphan"} /\ created[s] <= pev[p].time

PostInv ==
  /\ SnapshotsDistinct /\ PosterIdle /\ EventsInOrder /\ OwedSound /\ CreatedPast
  /\ InOrderAtMostOnce /\ PostReachesAll

(* The map: what an Unsubscribe is closing is in no slice any more; of the *)
(* slices a Stop has ranged over, all is closed but what it has queued;    *)
(* what is not closed is in the map or in the hands of an Unsubscribe.     *)
Done(s) == chan[s] \in {"closed", "dead"}
Leaving(s) == \E c \in Leavers : cpc[c] # "idle" /\ Head(cqueue[c]) = s

LeaversRemoved == \A c \in Leavers : \A s \in ToSet(cqueue[c]) : \A t \in Types : ~In(s, t)
StopQueues == \A c \in Stoppers : cpc[c] \in {"idle", "stopping"} => cqueue[c] = <<>>
StopRanges ==
  \A c \in Stoppers : cpc[c] # "idle" =>
    \A t \in Types : \A s \in ToSet(subm[t]) : t \in ctypes[c] \/ Done(s) \/ s \in ToSet(cqueue[c])
NoneLost ==
  \A s \in Subs : reg[s] \in {"ready", "orphan"} /\ ~Done(s) =>
    (\E t \in Types : In(s, t)) \/ Leaving(s)
StoppedEmpty == stopped => \A t \in Types : subm[t] = <<>>
SlicesOpen == MutexFree => \A t \in Types : \A s \in ToSet(subm[t]) : chan[s] = "open"

MapInv ==
  /\ SlicesDistinct /\ LeaversRemoved /\ StopQueues /\ StopRanges
  /\ NoneLost /\ StoppedEmpty /\ SlicesOpen

DInv == PostInv /\ MapInv

(* From a slice without repetition, posdelete takes the item and nothing   *)
(* else.                                                                   *)
LEMMA PosDeleteFacts ==
  ASSUME NEW S, NEW slice \in Seq(S), NEW item, Find(slice, item), Distinguished(slice)
  PROVE  /\ ToSet(PosDelete(slice, item)) = ToSet(slice) \ {item}
         /\ Distinguished(PosDelete(slice, item))
<1> DEFINE cut == PosDelete(slice, item)
<1>1. cut \in Seq(S) /\ CutOut(cut, slice, item)
  BY PosDeletePlace
<1> HIDE DEF cut
<1>2. PICK k \in 1..Len(slice) :
        /\ slice[k] = item
        /\ \A i \in 1..Len(slice) - 1 : cut[i] = IF i <= k - 1 THEN slice[i] ELSE slice[i + 1]
  BY <1>1 DEF CutOut
<1>0. /\ cut \in Seq(S) /\ Len(cut) = Len(slice) - 1
      /\ \A i \in 1..Len(slice) - 1 : cut[i] = IF i <= k - 1 THEN slice[i] ELSE slice[i + 1]
  BY <1>1, <1>2 DEF CutOut
<1>3. /\ Len(slice) \in Nat /\ k \in Nat /\ DOMAIN slice = 1..Len(slice)
      /\ DOMAIN cut = 1..Len(slice) - 1
  BY <1>0
<1>4. \A i, j \in 1..Len(slice) : slice[i] = slice[j] => i = j
  BY <1>3 DEF Distinguished
<1> DEFINE At(i) == IF i <= k - 1 THEN i ELSE i + 1
<1>5. \A i \in 1..Len(slice) - 1 : cut[i] = slice[At(i)] /\ At(i) \in 1..Len(slice) /\ At(i) # k
  BY <1>0, <1>3
<1>6. \A i, j \in 1..Len(slice) - 1 : At(i) = At(j) => i = j
  BY <1>3
<1>7. \A j \in 1..Len(slice) : j # k => \E i \in 1..Len(slice) - 1 : At(i) = j
  <2> TAKE j \in 1..Len(slice)
  <2> HAVE j # k
  <2>1. CASE j < k
    <3>1. j \in 1..Len(slice) - 1 /\ At(j) = j
      BY <1>3, <2>1
    <3> QED BY <3>1
  <2>2. CASE j > k
    <3>1. j - 1 \in 1..Len(slice) - 1 /\ At(j - 1) = j
      BY <1>3, <2>2
    <3> QED BY <3>1
  <2> QED BY <1>3, <2>1, <2>2
<1> HIDE DEF At
<1>8. Distinguished(cut)
  BY <1>3, <1>4, <1>5, <1>6 DEF Distinguished
<1>9. ToSet(cut) = ToSet(slice) \ {item}
  <2>1. ASSUME NEW i \in DOMAIN cut PROVE cut[i] \in ToSet(slice) \ {item}
    BY <1>2, <1>3, <1>4, <1>5 DEF ToSet
  <2>2. ASSUME NEW j \in DOMAIN slice, slice[j] # item PROVE slice[j] \in ToSet(cut)
    <3>1. PICK i \in 1..Len(slice) - 1 : At(i) = j
      BY <1>2, <1>3, <1>7, <2>2
    <3> QED BY <1>3, <1>5, <3>1 DEF ToSet
  <2> QED BY <2>1, <2>2 DEF ToSet
<1> QED BY <1>8, <1>9 DEF cut

(* The rest of a queue, and a queue with one more behind.                  *)
LEMMA TailFacts ==
  ASSUME NEW S, NEW q \in Seq(S), q # <<>>
  PROVE  /\ Head(q) \in ToSet(q)
         /\ ToSet(Tail(q)) \subseteq ToSet(q)
         /\ ToSet(q) \subseteq ToSet(Tail(q)) \cup {Head(q)}
         /\ Distinguished(q) => Distinguished(Tail(q)) /\ Head(q) \notin ToSet(Tail(q))
<1> DEFINE r == Tail(q)
<1>1. /\ r \in Seq(S) /\ Len(r) = Len(q) - 1 /\ \A i \in 1..Len(r) : r[i] = q[i + 1]
      /\ Head(q) = q[1] /\ Len(q) \in Nat /\ Len(q) >= 1
  BY HeadTailProperties
<1> HIDE DEF r
<1>2. DOMAIN r = 1..Len(q) - 1 /\ DOMAIN q = 1..Len(q)
  BY <1>1
<1>3. \A i \in 1..Len(q) - 1 : r[i] = q[i + 1] /\ i + 1 \in 1..Len(q)
  BY <1>1, <1>2
<1>4. \A j \in 1..Len(q) : j = 1 \/ (j - 1 \in 1..Len(q) - 1 /\ r[j - 1] = q[j])
  BY <1>1, <1>3
<1>5. Head(q) \in ToSet(q) /\ ToSet(r) \subseteq ToSet(q)
  BY <1>1, <1>2, <1>3 DEF ToSet
<1>6. ToSet(q) \subseteq ToSet(r) \cup {Head(q)}
  <2>1. ASSUME NEW j \in DOMAIN q, j # 1 PROVE \E i \in DOMAIN r : q[j] = r[i]
    BY <1>2, <1>4, <2>1
  <2> QED BY <1>1, <2>1 DEF ToSet
<1>7. ASSUME Distinguished(q) PROVE Distinguished(r) /\ Head(q) \notin ToSet(r)
  <2>1. \A i, j \in 1..Len(q) : q[i] = q[j] => i = j
    BY <1>2, <1>7 DEF Distinguished
  <2>2. Distinguished(r)
    BY <1>2, <1>3, <2>1 DEF Distinguished
  <2>3. Head(q) \notin ToSet(r)
    BY <1>1, <1>2, <1>3, <2>1 DEF ToSet
  <2> QED BY <2>2, <2>3
<1> QED BY <1>5, <1>6, <1>7 DEF r

LEMMA AppendedFacts ==
  ASSUME NEW S, NEW q \in Seq(S), NEW x \in S
  PROVE  /\ ToSet(Append(q, x)) = ToSet(q) \cup {x}
         /\ Distinguished(q) /\ x \notin ToSet(q) => Distinguished(Append(q, x))
<1> DEFINE r == Append(q, x)
<1>1. /\ r \in Seq(S) /\ Len(r) = Len(q) + 1 /\ r[Len(q) + 1] = x
      /\ \A i \in 1..Len(q) : r[i] = q[i]
  BY AppendProperties
<1> HIDE DEF r
<1>2. Len(q) \in Nat /\ DOMAIN q = 1..Len(q) /\ DOMAIN r = 1..Len(q) + 1
  BY <1>1
<1>3. \A i \in 1..Len(q) + 1 : i \in 1..Len(q) \/ i = Len(q) + 1
  BY <1>2
<1>4. ToSet(r) = ToSet(q) \cup {x}
  BY <1>1, <1>2, <1>3 DEF ToSet
<1>5. ASSUME Distinguished(q), x \notin ToSet(q) PROVE Distinguished(r)
  BY <1>1, <1>2, <1>3, <1>5 DEF Distinguished, ToSet
<1> QED BY <1>4, <1>5 DEF r

(* A step outside Post: nobody gets an event, and no receiver that is      *)
(* registered changes its age, opens again or returns to a slice.          *)
LEMMA PostFrame ==
  ASSUME IInv, PostInv, UNCHANGED <<ppc, pev, ptodo, got, owed>>,
         \A s \in Subs : created'[s] <= now',
         \A s \in Subs : reg[s] \in {"ready", "orphan"} =>
                           reg'[s] = reg[s] /\ created'[s] = created[s],
         \A s \in Subs : chan'[s] = "open" => chan[s] = "open",
         \A s \in Subs, t \in Types : reg[s] \in {"ready", "orphan"} /\ In(s, t)' => In(s, t)
  PROVE  PostInv'
<1>1. (SnapshotsDistinct /\ PosterIdle /\ InOrderAtMostOnce)'
  BY DEF PostInv, SnapshotsDistinct, PosterIdle, InOrderAtMostOnce, Distinguished
<1>2. EventsInOrder'
  BY DEF PostInv, EventsInOrder, NoLater, NotYet
<1>3. OwedSound' /\ CreatedPast'
  BY DEF PostInv, OwedSound, CreatedPast, IInv, TypeOK
<1>4. PostReachesAll'
  <2> SUFFICES ASSUME NEW p \in Posters, ppc[p] \in {"deliver", "select", "selectnil"},
                      NEW s \in owed[p], chan'[s] = "open", s \notin ToSet(ptodo[p]),
                      ~\E i \in DOMAIN got[s] : got[s][i] = pev[p]
               PROVE  s \notin ToSet(subm'[pev[p].type])
    BY DEF PostReachesAll
  <2>1. s \in Subs /\ reg[s] \in {"ready", "orphan"} /\ pev[p].type \in Types
    BY DEF PostInv, OwedSound, IInv, TypeOK, Events
  <2>2. s \notin ToSet(subm[pev[p].type])
    BY <2>1 DEF PostInv, PostReachesAll
  <2>3. PICK t \in Types : t = pev[p].type
    BY <2>1
  <2>4. ~In(s, t)'
    BY <2>1, <2>2, <2>3 DEF In
  <2> QED BY <2>3, <2>4 DEF In
<1> QED BY <1>1, <1>2, <1>3, <1>4 DEF PostInv

LEMMA EventTypes ==
  ASSUME IInv
  PROVE  /\ \A p \in Posters : pev[p].n \in Nat /\ pev[p].time \in Nat /\ pev[p].type \in Types
         /\ \A s \in Subs : \A i \in DOMAIN got[s] : got[s][i].n \in Nat /\ got[s][i] \in Events
<1>1. MaxPosts \in Nat /\ MaxTime \in Nat
  BY BoundsAssumption
<1>2. pev \in [Posters -> Events] /\ got \in [Subs -> Seq(Events)]
  BY DEF IInv, TypeOK
<1>3. \A e \in Events : e.n \in Nat /\ e.time \in Nat /\ e.type \in Types
  BY <1>1 DEF Events
<1>4. ASSUME NEW s \in Subs, NEW i \in DOMAIN got[s] PROVE got[s][i] \in Events
  <2>1. got[s] \in Seq(Events)
    BY <1>2
  <2> QED BY <2>1, ElementOfSeq
<1> QED BY <1>2, <1>3, <1>4

LEMMA PostCallStep ==
  ASSUME IInv, PostInv, NEW p \in Posters, NEW t \in Types, PostCall(p, t) PROVE PostInv'
<1>1. /\ ppc[p] = "idle" /\ ppc' = [ppc EXCEPT ![p] = "called"]
      /\ pev' = [pev EXCEPT ![p] = [poster |-> p, n |-> pev[p].n + 1, type |-> t, time |-> now]]
      /\ owed' = [owed EXCEPT ![p] = ToSet(subm[t])]
      /\ UNCHANGED <<now, subm, reg, created, chan, ptodo, got>>
  BY DEF PostCall, muxVars, subVars
<1>2. TypeOK /\ now \in Nat
  BY BoundsAssumption DEF IInv, TypeOK
<1>3. /\ ppc'[p] = "called" /\ pev'[p].n = pev[p].n + 1 /\ pev'[p].time = now /\ pev'[p].poster = p
      /\ \A q \in Posters : q # p => ppc'[q] = ppc[q] /\ pev'[q] = pev[q] /\ owed'[q] = owed[q]
      /\ owed'[p] = ToSet(subm[t])
  BY <1>1, <1>2 DEF TypeOK
<1>4. (SnapshotsDistinct /\ PosterIdle /\ InOrderAtMostOnce /\ CreatedPast)'
  BY <1>1, <1>3 DEF PostInv, SnapshotsDistinct, PosterIdle, InOrderAtMostOnce, Distinguished, CreatedPast
<1>5. EventsInOrder'
  <2> SUFFICES ASSUME NEW q \in Posters, NEW s \in Subs
               PROVE  (NoLater(q, s) /\ (ppc[q] = "called" \/ s \in ToSet(ptodo[q]) => NotYet(q, s)))'
    BY DEF EventsInOrder
  <2>1. NoLater(q, s) /\ (ppc[q] = "called" \/ s \in ToSet(ptodo[q]) => NotYet(q, s))
    BY DEF PostInv, EventsInOrder
  <2>2. CASE q = p
    <3>1. NotYet(p, s)'
      BY <1>1, <1>3, <2>1, <2>2, EventTypes DEF NotYet, NoLater
    <3>2. NoLater(p, s)'
      BY <1>1, <1>3, <2>1, <2>2, EventTypes DEF NoLater
    <3> QED BY <2>2, <3>1, <3>2
  <2>3. CASE q # p
    BY <1>1, <1>3, <2>1, <2>3 DEF NotYet, NoLater
  <2> QED BY <2>2, <2>3
<1>6. OwedSound'
  <2>1. \A s \in ToSet(subm[t]) : s \in Subs /\ reg[s] \in {"ready", "orphan"}
    <3>1. subm[t] \in Seq(Subs)
      BY <1>2 DEF TypeOK
    <3> QED BY <3>1 DEF IInv, RegisteredKnown, Known, ToSet
  <2> QED BY <1>1, <1>3, <2>1 DEF PostInv, OwedSound, CreatedPast
<1>7. PostReachesAll'
  BY <1>1, <1>3 DEF PostInv, PostReachesAll
<1> QED BY <1>4, <1>5, <1>6, <1>7 DEF PostInv

LEMMA PostSnapshotStep ==
  ASSUME IInv, PostInv, SlicesDistinct, NEW p \in Posters, PostSnapshot(p) PROVE PostInv'
<1>1. ppc[p] = "called" /\ UNCHANGED <<now, subm, reg, created, chan, pev, owed, got>>
  BY DEF PostSnapshot, muxVars, subVars
<1>2. TypeOK /\ ptodo[p] = <<>>
  BY <1>1 DEF IInv, PostInv, PosterIdle
<1>3. (OwedSound /\ CreatedPast /\ InOrderAtMostOnce)'
  BY <1>1 DEF PostInv, OwedSound, CreatedPast, InOrderAtMostOnce
<1>4. CASE stopped
  <2>1. ppc' = [ppc EXCEPT ![p] = "idle"] /\ ptodo' = ptodo
    BY <1>4 DEF PostSnapshot
  <2>2. (SnapshotsDistinct /\ PosterIdle)'
    BY <1>1, <1>2, <2>1 DEF PostInv, SnapshotsDistinct, PosterIdle, Distinguished, TypeOK
  <2>3. EventsInOrder'
    BY <1>1, <1>2, <2>1 DEF PostInv, EventsInOrder, NotYet, NoLater, TypeOK
  <2>4. PostReachesAll'
    BY <1>1, <1>2, <2>1 DEF PostInv, PostReachesAll, TypeOK
  <2> QED BY <1>3, <2>2, <2>3, <2>4 DEF PostInv
<1>5. CASE ~stopped
  <2> DEFINE t == pev[p].type
  <2>1. ppc' = [ppc EXCEPT ![p] = "deliver"] /\ ptodo' = [ptodo EXCEPT ![p] = subm[t]] /\ t \in Types
    BY <1>5, EventTypes DEF PostSnapshot
  <2>2. /\ ppc'[p] = "deliver" /\ ptodo'[p] = subm[t]
        /\ \A q \in Posters : q # p => ppc'[q] = ppc[q] /\ ptodo'[q] = ptodo[q]
    BY <1>2, <2>1 DEF TypeOK
  <2>3. (SnapshotsDistinct /\ PosterIdle)'
    BY <1>1, <2>1, <2>2 DEF PostInv, SnapshotsDistinct, SlicesDistinct, PosterIdle, Distinguished
  <2>4. EventsInOrder'
    BY <1>1, <2>1, <2>2 DEF PostInv, EventsInOrder, NotYet, NoLater
  <2>5. PostReachesAll'
    BY <1>1, <2>1, <2>2 DEF PostInv, PostReachesAll
  <2> QED BY <1>3, <2>3, <2>4, <2>5 DEF PostInv
<1> QED BY <1>4, <1>5

(* A step of deliver that goes on to the next receiver without an event.   *)
LEMMA SkipStep ==
  ASSUME IInv, PostInv, NEW p \in Posters, ppc[p] \in {"deliver", "select", "selectnil"}, ptodo[p] # <<>>,
         chan[Head(ptodo[p])] # "open" \/ created[Head(ptodo[p])] > pev[p].time,
         ppc' \in {ppc, [ppc EXCEPT ![p] = "deliver"]}, ptodo' = [ptodo EXCEPT ![p] = Tail(@)],
         UNCHANGED <<now, subm, reg, created, chan, pev, owed, got>>
  PROVE  PostInv'
<1>1. TypeOK /\ ptodo[p] \in Seq(Subs)
  BY DEF IInv, TypeOK
<1>2. /\ ppc'[p] \in {"deliver", "select", "selectnil"} /\ ptodo'[p] = Tail(ptodo[p])
      /\ \A q \in Posters : q # p => ppc'[q] = ppc[q] /\ ptodo'[q] = ptodo[q]
  BY <1>1 DEF TypeOK
<1>3. /\ ToSet(Tail(ptodo[p])) \subseteq ToSet(ptodo[p])
      /\ ToSet(ptodo[p]) \subseteq ToSet(Tail(ptodo[p])) \cup {Head(ptodo[p])}
      /\ Distinguished(ptodo[p]) => Distinguished(Tail(ptodo[p]))
  BY <1>1, TailFacts
<1>4. (OwedSound /\ CreatedPast /\ InOrderAtMostOnce)'
  BY DEF PostInv, OwedSound, CreatedPast, InOrderAtMostOnce
<1>5. SnapshotsDistinct'
  <2> SUFFICES ASSUME NEW q \in Posters PROVE Distinguished(ptodo'[q])
    BY DEF SnapshotsDistinct, Distinguished
  <2>1. Distinguished(ptodo[q])
    BY DEF PostInv, SnapshotsDistinct
  <2>2. CASE q = p
    BY <1>2, <1>3, <2>1, <2>2
  <2>3. CASE q # p
    <3>1. ptodo'[q] = ptodo[q]
      BY <1>2, <2>3
    <3> QED BY <2>1, <3>1
  <2> QED BY <2>2, <2>3
<1>6. PosterIdle'
  BY <1>2 DEF PostInv, PosterIdle
<1>7. EventsInOrder'
  BY <1>2, <1>3 DEF PostInv, EventsInOrder, NotYet, NoLater
<1>8. PostReachesAll'
  <2> SUFFICES ASSUME NEW q \in Posters, ppc'[q] \in {"deliver", "select", "selectnil"},
                      NEW s \in owed[q], chan[s] = "open", s \notin ToSet(ptodo'[q]),
                      ~\E i \in DOMAIN got[s] : got[s][i] = pev[q]
               PROVE  s \notin ToSet(subm[pev[q].type])
    BY DEF PostReachesAll
  <2>1. CASE q # p
    BY <1>2, <2>1 DEF PostInv, PostReachesAll
  <2>2. CASE q = p
    <3>1. s # Head(ptodo[p])
      <4>1. created[s] <= pev[p].time /\ created[s] \in Int /\ pev[p].time \in Int
        BY <1>1, <2>2, EventTypes DEF PostInv, OwedSound, TypeOK
      <4> QED BY <4>1
    <3>2. s \notin ToSet(ptodo[p])
      BY <1>2, <1>3, <2>2, <3>1
    <3> QED BY <2>2, <3>2 DEF PostInv, PostReachesAll
  <2> QED BY <2>1, <2>2
<1> QED BY <1>4, <1>5, <1>6, <1>7, <1>8 DEF PostInv

LEMMA DeliverStep ==
  ASSUME IInv, PostInv, NEW p \in Posters, Deliver(p) PROVE PostInv'
<1>0. ppc[p] = "select" /\ TypeOK /\ ptodo[p] \in Seq(Subs) /\ ptodo[p] # <<>>
  BY DEF Deliver, IInv, TypeOK
<1>h. PICK h \in Subs : h = Head(ptodo[p])
  BY <1>0, HeadTailProperties
<1>e. PICK e \in Events : e = pev[p]
  BY <1>0 DEF TypeOK
<1>1. /\ ppc[p] = "select" /\ got' = [got EXCEPT ![h] = Append(@, e)]
      /\ ppc' = [ppc EXCEPT ![p] = "deliver"] /\ ptodo' = [ptodo EXCEPT ![p] = Tail(@)]
      /\ UNCHANGED <<now, subm, reg, created, chan, pev, owed>>
  BY <1>h, <1>e DEF Deliver, DoneDelivery, muxVars, subVars
<1>3. /\ h \in Subs /\ h \in ToSet(ptodo[p])
      /\ ToSet(Tail(ptodo[p])) \subseteq ToSet(ptodo[p])
      /\ ToSet(ptodo[p]) \subseteq ToSet(Tail(ptodo[p])) \cup {h}
      /\ Distinguished(Tail(ptodo[p])) /\ h \notin ToSet(Tail(ptodo[p]))
  BY <1>0, <1>h, TailFacts DEF PostInv, SnapshotsDistinct
<1>4. /\ ppc'[p] = "deliver" /\ ptodo'[p] = Tail(ptodo[p])
      /\ \A q \in Posters : q # p => ppc'[q] = ppc[q] /\ ptodo'[q] = ptodo[q]
  BY <1>0, <1>1 DEF TypeOK
<1>5. /\ \A s \in Subs : s # h => got'[s] = got[s]
      /\ got[h] \in Seq(Events) /\ e \in Events /\ got'[h] = Append(got[h], e)
  BY <1>1, <1>0, <1>3 DEF TypeOK
<1>6. /\ Len(got[h]) \in Nat /\ Len(got'[h]) = Len(got[h]) + 1 /\ got'[h][Len(got[h]) + 1] = e
      /\ \A i \in 1..Len(got[h]) : got'[h][i] = got[h][i]
      /\ DOMAIN got[h] = 1..Len(got[h]) /\ DOMAIN got'[h] = 1..Len(got[h]) + 1
  <2> DEFINE q == got[h]
             r == Append(q, e)
  <2>1. q \in Seq(Events) /\ e \in Events
    BY <1>5
  <2> HIDE DEF q
  <2>2. /\ r \in Seq(Events) /\ Len(r) = Len(q) + 1 /\ r[Len(q) + 1] = e
        /\ \A i \in 1..Len(q) : r[i] = q[i]
    BY <2>1, AppendProperties
  <2>3. got'[h] = r
    BY <1>5 DEF q
  <2> HIDE DEF r
  <2>4. Len(q) \in Nat /\ DOMAIN q = 1..Len(q) /\ DOMAIN r = 1..Len(q) + 1
    BY <2>1, <2>2
  <2> QED BY <2>2, <2>3, <2>4 DEF q
<1>7. \A i \in DOMAIN got'[h] :
        (i \in DOMAIN got[h] /\ got'[h][i] = got[h][i]) \/ (i = Len(got[h]) + 1 /\ got'[h][i] = e)
  BY <1>6
<1>8. \A s \in Subs : \A i \in DOMAIN got[s] : i \in DOMAIN got'[s] /\ got'[s][i] = got[s][i]
  <2> TAKE s \in Subs
  <2>1. CASE s = h
    BY <1>6, <2>1
  <2>2. CASE s # h
    <3>1. got'[s] = got[s]
      BY <1>5, <2>2
    <3> QED BY <3>1
  <2> QED BY <2>1, <2>2
<1>9. /\ e.poster = p /\ NotYet(p, h) /\ \A s \in Subs : NoLater(p, s)
      /\ e.n \in Nat /\ pev'[p] = e
  BY <1>1, <1>3, <1>e, EventTypes DEF PostInv, PosterIdle, EventsInOrder
<1>10. (OwedSound /\ CreatedPast)'
  BY <1>1 DEF PostInv, OwedSound, CreatedPast
<1>11. SnapshotsDistinct' /\ PosterIdle'
  BY <1>1, <1>3, <1>4 DEF PostInv, SnapshotsDistinct, PosterIdle, Distinguished
<1>12. InOrderAtMostOnce'
  <2> SUFFICES ASSUME NEW s \in Subs, NEW i \in DOMAIN got'[s], NEW j \in DOMAIN got'[s],
                      i < j, got'[s][i].poster = got'[s][j].poster
               PROVE  got'[s][i].n < got'[s][j].n
    BY DEF InOrderAtMostOnce
  <2>1. CASE s # h
    <3>1. got'[s] = got[s]
      BY <1>5, <2>1
    <3> QED BY <3>1 DEF PostInv, InOrderAtMostOnce
  <2>2. CASE s = h
    <3>1. i \in DOMAIN got[h] /\ got'[h][i] = got[h][i]
      BY <1>6, <1>7, <2>2
    <3>2. CASE j \in DOMAIN got[h] /\ got'[h][j] = got[h][j]
      BY <1>3, <2>2, <3>1, <3>2 DEF PostInv, InOrderAtMostOnce
    <3>3. CASE got'[h][j] = e
      BY <1>9, <1>e, <2>2, <3>1, <3>3 DEF NotYet
    <3> QED BY <1>7, <2>2, <3>2, <3>3
  <2> QED BY <2>1, <2>2
<1>13. EventsInOrder'
  <2> SUFFICES ASSUME NEW q \in Posters, NEW s \in Subs
               PROVE  (NoLater(q, s) /\ (ppc[q] = "called" \/ s \in ToSet(ptodo[q]) => NotYet(q, s)))'
    BY DEF EventsInOrder
  <2>1. NoLater(q, s) /\ (ppc[q] = "called" \/ s \in ToSet(ptodo[q]) => NotYet(q, s))
    BY DEF PostInv, EventsInOrder
  <2>2. ppc'[q] = "called" \/ s \in ToSet(ptodo'[q]) => ppc[q] = "called" \/ s \in ToSet(ptodo[q])
    BY <1>3, <1>4
  <2>3. CASE s # h
    <3>1. got'[s] = got[s] /\ pev' = pev
      BY <1>1, <1>5, <2>3
    <3> QED BY <2>1, <2>2, <3>1 DEF NoLater, NotYet
  <2>4. CASE s = h /\ q # p
    <3>1. NoLater(q, h)'
      BY <1>1, <1>7, <1>9, <2>1, <2>4 DEF NoLater
    <3>2. NotYet(q, h) => NotYet(q, h)'
      BY <1>1, <1>7, <1>9, <2>4 DEF NotYet
    <3> QED BY <2>1, <2>2, <2>4, <3>1, <3>2
  <2>5. CASE s = h /\ q = p
    <3>1. NoLater(p, h)'
      BY <1>1, <1>7, <1>9, <2>1, <2>5 DEF NoLater
    <3>2. ppc'[p] # "called" /\ h \notin ToSet(ptodo'[p])
      BY <1>3, <1>4
    <3> QED BY <2>5, <3>1, <3>2
  <2> QED BY <2>3, <2>4, <2>5
<1>14. PostReachesAll'
  <2> SUFFICES ASSUME NEW q \in Posters, ppc'[q] \in {"deliver", "select", "selectnil"},
                      NEW s \in owed[q], chan[s] = "open", s \notin ToSet(ptodo'[q]),
                      ~\E i \in DOMAIN got'[s] : got'[s][i] = pev[q]
               PROVE  s \notin ToSet(subm[pev[q].type])
    BY <1>1 DEF PostReachesAll
  <2>1. s \in Subs /\ ~\E i \in DOMAIN got[s] : got[s][i] = pev[q]
    BY <1>0, <1>8 DEF TypeOK
  <2>2. s = h => pev[q] # e
    BY <1>6
  <2>3. ppc[q] \in {"deliver", "select", "selectnil"} /\ s \notin ToSet(ptodo[q])
    <3>1. CASE q # p
      BY <1>4, <3>1
    <3>2. CASE q = p
      <4>1. s # h
        BY <1>e, <2>2, <3>2
      <4> QED BY <1>1, <1>3, <1>4, <3>2, <4>1
    <3> QED BY <3>1, <3>2
  <2> QED BY <2>1, <2>3 DEF PostInv, PostReachesAll
<1> QED BY <1>10, <1>11, <1>12, <1>13, <1>14 DEF PostInv

LEMMA PosterStep ==
  ASSUME IInv, PostInv, SlicesDistinct, NEW p \in Posters, Post(p) PROVE PostInv'
<1> USE DEF muxVars, subVars
<1>1. CASE DeliverStale(p)
  BY <1>1, SkipStep DEF DeliverStale
<1>2. CASE DeliverAbort(p)
  <2>1. ppc[p] \in {"deliver", "select", "selectnil"} /\ ptodo[p] # <<>>
    BY <1>2 DEF DeliverAbort, IInv, TypeOK
  <2>2. chan[Head(ptodo[p])] # "open"
    BY <1>2 DEF DeliverAbort
  <2> QED BY <1>2, <2>1, <2>2, SkipStep DEF DeliverAbort, DoneDelivery
<1>3. CASE DeliverLock(p)
  <2>1. /\ ppc[p] = "deliver" /\ \A q \in Posters : q # p => ppc'[q] = ppc[q]
        /\ ppc'[p] \in {"select", "selectnil"}
        /\ UNCHANGED <<now, subm, reg, created, chan, pev, ptodo, owed, got>>
    BY <1>3 DEF DeliverLock, IInv, TypeOK
  <2>2. (SnapshotsDistinct /\ PosterIdle /\ OwedSound /\ CreatedPast /\ InOrderAtMostOnce)'
    BY <2>1 DEF PostInv, SnapshotsDistinct, Distinguished, PosterIdle, OwedSound, CreatedPast, InOrderAtMostOnce
  <2>3. EventsInOrder'
    BY <2>1 DEF PostInv, EventsInOrder, NotYet, NoLater
  <2>4. PostReachesAll'
    BY <2>1 DEF PostInv, PostReachesAll
  <2> QED BY <2>2, <2>3, <2>4 DEF PostInv
<1>4. CASE PostReturn(p)
  <2>1. /\ \A q \in Posters : q # p => ppc'[q] = ppc[q] /\ owed'[q] = owed[q]
        /\ ppc'[p] = "idle" /\ owed'[p] = {} /\ ptodo[p] = <<>>
        /\ UNCHANGED <<now, subm, reg, created, chan, pev, ptodo, got>>
    BY <1>4 DEF PostReturn, IInv, TypeOK
  <2>2. (SnapshotsDistinct /\ PosterIdle /\ OwedSound /\ CreatedPast /\ InOrderAtMostOnce)'
    BY <2>1 DEF PostInv, SnapshotsDistinct, Distinguished, PosterIdle, OwedSound, CreatedPast, InOrderAtMostOnce
  <2>3. EventsInOrder'
    BY <2>1 DEF PostInv, EventsInOrder, NotYet, NoLater
  <2>4. PostReachesAll'
    BY <2>1 DEF PostInv, PostReachesAll
  <2> QED BY <2>2, <2>3, <2>4 DEF PostInv
<1> QED BY <1>1, <1>2, <1>3, <1>4, PostCallStep, PostSnapshotStep, DeliverStep DEF Post

(* Only NewSub gives a receiver its age; no step opens a receiver again    *)
(* or registers one twice.                                                 *)
LEMMA NoneReopened ==
  ASSUME IInv, [Next]_vars, SlicesDistinct, NEW s \in Subs
  PROVE  /\ chan'[s] = "open" => chan[s] = "open"
         /\ created'[s] = created[s] \/ (reg[s] = "none" /\ created'[s] = now)
         /\ now' \in {now, now + 1}
         /\ \A t \in Types : reg[s] \in {"ready", "orphan"} /\ In(s, t)' => In(s, t)
<1> DEFINE Goal == /\ chan'[s] = "open" => chan[s] = "open"
                   /\ created'[s] = created[s] \/ (reg[s] = "none" /\ created'[s] = now)
                   /\ now' \in {now, now + 1}
                   /\ \A t \in Types : reg[s] \in {"ready", "orphan"} /\ In(s, t)' => In(s, t)
<1> USE DEF muxVars, subVars
<1>0. TypeOK /\ \A t \in Types : subm[t] \in Seq(Subs)
  BY DEF IInv, TypeOK
<1>1. ASSUME NEW r \in Subs, NEW a \in ArgLists, Subscribe(r, a) PROVE Goal
  <2>1. reg[r] = "new" /\ UNCHANGED <<now, created>>
    BY <1>1 DEF Subscribe
  <2>2. chan'[s] = "open" => chan[s] = "open"
    BY <1>0, <1>1 DEF Subscribe, TypeOK
  <2>3. ASSUME NEW t \in Types, reg[s] \in {"ready", "orphan"}, In(s, t)' PROVE In(s, t)
    <3>1. subm'[t] = subm[t] \/ subm'[t] = Append(subm[t], r)
      BY <1>1 DEF Subscribe
    <3>2. ToSet(Append(subm[t], r)) = ToSet(subm[t]) \cup {r}
      BY <1>0, AppendedFacts
    <3> QED BY <2>1, <2>3, <3>1, <3>2 DEF In
  <2> QED BY <2>1, <2>2, <2>3
<1>2. ASSUME NEW r \in Subs, NewSub(r) PROVE Goal
  BY <1>0, <1>2 DEF NewSub, TypeOK, In
<1>3. ASSUME UNCHANGED <<now, subm, created, chan>> PROVE Goal
  BY <1>3 DEF In
<1>4. CASE Tick
  BY <1>4 DEF Tick, In
<1>5. CASE UNCHANGED vars
  BY <1>3, <1>5 DEF vars
<1>6. ASSUME NEW p \in Posters, Post(p) PROVE Goal
  BY <1>3, <1>6 DEF Post, PostCall, PostSnapshot, DeliverStale, DeliverLock, Deliver, DeliverAbort,
                    DoneDelivery, PostReturn
<1>7. ASSUME NEW c \in Closers, Close(c) PROVE Goal
  <2>1. UNCHANGED <<now, subm, created>>
    BY <1>7 DEF Close, CloseSkip, CloseBegin, CloseLockPost, CloseFinish, CloseReturn
  <2>2. chan' = chan \/ \E v \in {"closing", "closed"} : chan' = [chan EXCEPT ![Head(cqueue[c])] = v]
    BY <1>7 DEF Close, CloseSkip, CloseBegin, CloseLockPost, CloseFinish
  <2>3. chan'[s] = "open" => chan[s] = "open"
    BY <1>0, <2>2 DEF TypeOK
  <2> QED BY <2>1, <2>3 DEF In
<1>8. ASSUME NEW c \in Stoppers, StopReturn(c) PROVE Goal
  BY <1>8 DEF StopReturn, In, ToSet
<1>9. ASSUME NEW c \in Stoppers, StopLock(c) \/ \E t \in Types : StopSlice(c, t) PROVE Goal
  BY <1>3, <1>9 DEF StopLock, StopSlice
<1>10. ASSUME NEW c \in Leavers, NEW r \in Subs, Unsubscribe(c, r) PROVE Goal
  <2>1. UNCHANGED <<now, created, chan>>
    BY <1>10 DEF Unsubscribe
  <2>2. ASSUME NEW t \in Types, In(s, t)' PROVE In(s, t)
    <3>1. subm'[t] = IF Find(subm[t], r) THEN PosDelete(subm[t], r) ELSE subm[t]
      BY <1>10 DEF Unsubscribe
    <3>2. Find(subm[t], r) => ToSet(PosDelete(subm[t], r)) = ToSet(subm[t]) \ {r}
      BY <1>0, PosDeleteFacts DEF SlicesDistinct
    <3> QED BY <2>2, <3>1, <3>2 DEF In
  <2> QED BY <2>1, <2>2
<1>11. ASSUME NEW c \in Stoppers, Stop(c) PROVE Goal
  BY <1>7, <1>8, <1>9, <1>11 DEF Stop, Closers
<1>12. ASSUME NEW c \in Leavers, Leave(c) PROVE Goal
  BY <1>7, <1>10, <1>12 DEF Leave, Closers
<1>13. CASE \E r \in Subs : NewSub(r) \/ \E a \in ArgLists : Subscribe(r, a)
  BY <1>1, <1>2, <1>13
<1>14. CASE \E p \in Posters : Post(p)
  BY <1>6, <1>14
<1>15. CASE \E c \in Stoppers : Stop(c)
  BY <1>11, <1>15
<1>16. CASE \E c \in Leavers : Leave(c)
  BY <1>12, <1>16
<1>17. Goal
  BY <1>4, <1>5, <1>13, <1>14, <1>15, <1>16 DEF Next
<1> QED BY <1>17 DEF Goal

LEMMA PostInvStep == IInv /\ PostInv /\ SlicesDistinct /\ [Next]_vars => PostInv'
<1> SUFFICES ASSUME IInv, PostInv, SlicesDistinct, [Next]_vars PROVE PostInv'
  OBVIOUS
<1>1. CASE \E p \in Posters : Post(p)
  BY <1>1, PosterStep
<1>2. CASE UNCHANGED <<ppc, pev, ptodo, got, owed>>
  <2>1. now \in Nat /\ created \in [Subs -> Nat]
    BY BoundsAssumption DEF IInv, TypeOK
  <2>2. \A s \in Subs : created'[s] <= now'
    <3> TAKE s \in Subs
    <3>1. /\ created'[s] = created[s] \/ created'[s] = now
          /\ now' \in {now, now + 1} /\ created[s] <= now /\ created[s] \in Nat
      BY <2>1, NoneReopened DEF PostInv, CreatedPast
    <3> QED BY <2>1, <3>1
  <2>3. \A s \in Subs : reg[s] \in {"ready", "orphan"} => reg'[s] = reg[s] /\ created'[s] = created[s]
    BY SubStep, NoneReopened
  <2>4. \A s \in Subs : chan'[s] = "open" => chan[s] = "open"
    BY NoneReopened
  <2>5. \A s \in Subs, t \in Types : reg[s] \in {"ready", "orphan"} /\ In(s, t)' => In(s, t)
    BY NoneReopened
  <2> QED BY <1>2, <2>2, <2>3, <2>4, <2>5, PostFrame
<1>3. ASSUME NEW c \in Closers, Close(c) PROVE UNCHANGED <<ppc, pev, ptodo, got, owed>>
  BY <1>3 DEF Close, CloseSkip, CloseBegin, CloseLockPost, CloseFinish, CloseReturn, postVars
<1>4. ASSUME NEW c \in Closers, Stop(c) \/ Leave(c) PROVE UNCHANGED <<ppc, pev, ptodo, got, owed>>
  BY <1>3, <1>4 DEF Stop, Leave, Unsubscribe, StopLock, StopSlice, StopReturn, postVars
<1>5. ASSUME NEW s \in Subs, NewSub(s) \/ \E a \in ArgLists : Subscribe(s, a)
      PROVE  UNCHANGED <<ppc, pev, ptodo, got, owed>>
  BY <1>5 DEF NewSub, Subscribe, postVars
<1>6. Tick \/ UNCHANGED vars => UNCHANGED <<ppc, pev, ptodo, got, owed>>
  BY DEF Tick, vars, postVars
<1> QED BY <1>1, <1>2, <1>4, <1>5, <1>6 DEF Next, Closers

-----------------------------------------------------------------------------
(* The map.                                                                *)

MapVars == <<subm, stopped, reg, chan, closeVars>>

LEMMA MapFrame == ASSUME MapInv, UNCHANGED MapVars PROVE MapInv'
<1> USE DEF MapVars, closeVars
<1>1. (SlicesDistinct /\ LeaversRemoved /\ StopQueues /\ StopRanges)'
  BY DEF MapInv, SlicesDistinct, Distinguished, LeaversRemoved, In, StopQueues, StopRanges, Done
<1>2. (NoneLost /\ StoppedEmpty /\ SlicesOpen)'
  BY DEF MapInv, NoneLost, In, Done, Leaving, StoppedEmpty, SlicesOpen, MutexFree
<1> QED BY <1>1, <1>2 DEF MapInv

LEMMA MapNewSub == ASSUME IInv, MapInv, NEW s \in Subs, NewSub(s) PROVE MapInv'
<1>1. /\ UNCHANGED <<subm, stopped, chan, cpc, ctypes, cqueue>>
      /\ \A r \in Subs : reg'[r] \in {"ready", "orphan"} => reg[r] = reg'[r]
  BY DEF NewSub, muxVars, closeVars, IInv, TypeOK
<1>2. (SlicesDistinct /\ LeaversRemoved /\ StopQueues /\ StopRanges)'
  BY <1>1 DEF MapInv, SlicesDistinct, Distinguished, LeaversRemoved, In, StopQueues, StopRanges, Done
<1>3. (NoneLost /\ StoppedEmpty /\ SlicesOpen)'
  BY <1>1 DEF MapInv, NoneLost, In, Done, Leaving, StoppedEmpty, SlicesOpen, MutexFree
<1> QED BY <1>2, <1>3 DEF MapInv

(* A receiver the map or a queue refers to has been registered.            *)
LEMMA ReferredKnown ==
  ASSUME IInv
  PROVE  /\ \A s \in Subs, t \in Types : In(s, t) => reg[s] \in {"ready", "orphan"}
         /\ \A t \in Types : ToSet(subm[t]) \subseteq Subs
         /\ \A s \in Subs, c \in Closers : s \in ToSet(cqueue[c]) => reg[s] \in {"ready", "orphan"}
         /\ \A c \in Closers : ToSet(cqueue[c]) \subseteq Subs
<1>1. \A t \in Types : subm[t] \in Seq(Subs)
  BY DEF IInv, TypeOK
<1>2. \A c \in Closers : cqueue[c] \in Seq(Subs)
  BY DEF IInv, TypeOK
<1>3. \A t \in Types : ToSet(subm[t]) \subseteq Subs
  BY <1>1, ElementOfSeq DEF ToSet
<1>4. \A c \in Closers : ToSet(cqueue[c]) \subseteq Subs
  BY <1>2, ElementOfSeq DEF ToSet
<1> QED BY <1>3, <1>4 DEF IInv, RegisteredKnown, TargetRegistered, Known, In, ToSet

LEMMA MapSubscribe ==
  ASSUME IInv, MapInv, NEW s \in Subs, NEW a \in ArgLists, Subscribe(s, a) PROVE MapInv'
<1>1. /\ reg[s] = "new" /\ chan[s] = "open" /\ MutexFree
      /\ reg'[s] \in {"ready", "orphan"} /\ \A r \in Subs : r # s => reg'[r] = reg[r] /\ chan'[r] = chan[r]
      /\ UNCHANGED <<stopped, cpc, ctypes, cqueue>>
  BY DEF Subscribe, closeVars, IInv, TypeOK, UnregisteredOpen
<1>2. /\ \A t \in Types : ~In(s, t)
      /\ \A c \in Closers : s \notin ToSet(cqueue[c])
      /\ \A t \in Types : ToSet(subm[t]) \subseteq Subs
  BY <1>1, ReferredKnown
<1>3. MutexFree' /\ \A c \in Stoppers : cpc'[c] = "idle"
  BY <1>1 DEF MutexFree
<1>4. StopQueues' /\ StopRanges'
  BY <1>1, <1>3 DEF MapInv, StopQueues, StopRanges
<1>5. \A r \in Subs : Leaving(r) => Leaving(r)'
  BY <1>1 DEF Leaving
<1>6. \A r \in Subs : r # s => (Done(r) <=> Done(r)')
  BY <1>1 DEF Done
<1>7. CASE stopped
  <2>1. subm' = subm /\ chan'[s] = "dead"
    BY <1>7 DEF Subscribe, IInv, TypeOK
  <2>2. (SlicesDistinct /\ LeaversRemoved /\ StoppedEmpty)'
    BY <1>1, <2>1 DEF MapInv, SlicesDistinct, Distinguished, LeaversRemoved, In, StoppedEmpty
  <2>3. NoneLost'
    <3>1. Done(s)'
      BY <2>1 DEF Done
    <3>2. \A r \in Subs, t \in Types : In(r, t) => In(r, t)'
      BY <2>1 DEF In
    <3> QED BY <1>1, <1>5, <1>6, <3>1, <3>2 DEF MapInv, NoneLost
  <2>4. SlicesOpen'
    BY <1>1, <1>2, <2>1 DEF MapInv, SlicesOpen, In
  <2> QED BY <1>4, <2>2, <2>3, <2>4 DEF MapInv
<1>8. CASE ~stopped
  <2>1. /\ chan' = chan
        /\ \A t \in Types : subm'[t] = IF t \in Registered(a) THEN Append(subm[t], s) ELSE subm[t]
    BY <1>8 DEF Subscribe
  <2>2. \A t \in Types : ToSet(Append(subm[t], s)) = ToSet(subm[t]) \cup {s}
                         /\ Distinguished(Append(subm[t], s))
    <3> TAKE t \in Types
    <3>1. subm[t] \in Seq(Subs) /\ s \notin ToSet(subm[t]) /\ Distinguished(subm[t])
      BY <1>2 DEF MapInv, SlicesDistinct, IInv, TypeOK, In
    <3> QED BY <3>1, AppendedFacts
  <2>3. \A t \in Types : ToSet(subm'[t]) \subseteq ToSet(subm[t]) \cup {s} /\ ToSet(subm[t]) \subseteq ToSet(subm'[t])
    BY <2>1, <2>2
  <2>4. SlicesDistinct'
    <3> SUFFICES ASSUME NEW t \in Types PROVE Distinguished(subm'[t])
      BY DEF SlicesDistinct, Distinguished
    <3> QED BY <2>1, <2>2 DEF MapInv, SlicesDistinct
  <2>5. LeaversRemoved'
    <3> SUFFICES ASSUME NEW c \in Leavers, NEW r \in ToSet(cqueue[c]), NEW t \in Types, r \in ToSet(subm'[t])
                 PROVE  FALSE
      BY <1>1 DEF LeaversRemoved, In
    <3>1. r # s
      BY <1>2 DEF Closers
    <3> QED BY <2>3, <3>1 DEF MapInv, LeaversRemoved, In
  <2>6. StoppedEmpty'
    BY <1>1, <1>8 DEF StoppedEmpty
  <2>7. SlicesOpen'
    BY <1>1, <2>1, <2>3 DEF MapInv, SlicesOpen
  <2>8. NoneLost'
    <3>1. \A r \in Subs, t \in Types : In(r, t) => In(r, t)'
      BY <2>3 DEF In
    <3>2. \E t \in Types : In(s, t)'
      <4>1. a \in Seq(Types) /\ a # <<>>
        BY TypesAssumption
      <4>2. 1 \in DOMAIN a /\ a[1] \in Types
        BY <4>1
      <4>3. a[1] \in Registered(a)
        <5>1. \A k, l \in 1..1 : a[k] = a[l] => k = l
          OBVIOUS
        <5> QED BY <4>2, <5>1 DEF Registered
      <4>4. s \in ToSet(subm'[a[1]])
        BY <2>1, <2>2, <4>2, <4>3
      <4> QED BY <4>2, <4>4 DEF In
    <3> QED BY <1>1, <1>5, <1>6, <3>1, <3>2 DEF MapInv, NoneLost
  <2> QED BY <1>4, <2>4, <2>5, <2>6, <2>7, <2>8 DEF MapInv
<1> QED BY <1>7, <1>8

LEMMA MapUnsubscribe ==
  ASSUME IInv, MapInv, NEW c \in Leavers, NEW s \in Subs, Unsubscribe(c, s) PROVE MapInv'
<1>1. /\ cpc[c] = "idle" /\ MutexFree /\ cpc'[c] = "closewait" /\ cqueue'[c] = <<s>>
      /\ \A d \in Closers : d # c => cpc'[d] = cpc[d] /\ cqueue'[d] = cqueue[d]
      /\ \A t \in Types : subm'[t] = IF Find(subm[t], s) THEN PosDelete(subm[t], s) ELSE subm[t]
      /\ UNCHANGED <<stopped, reg, chan, ctypes>>
  BY DEF Unsubscribe, subVars, IInv, TypeOK, Closers
<1>2. \A t \in Types : ToSet(subm'[t]) = ToSet(subm[t]) \ {s} /\ Distinguished(subm'[t])
  <2> TAKE t \in Types
  <2>1. subm[t] \in Seq(Subs) /\ Distinguished(subm[t])
    BY DEF MapInv, SlicesDistinct, IInv, TypeOK
  <2>2. CASE Find(subm[t], s)
    BY <1>1, <2>1, <2>2, PosDeleteFacts
  <2>3. CASE ~Find(subm[t], s)
    <3>1. s \notin ToSet(subm[t])
      BY <2>3 DEF Find, ToSet
    <3> QED BY <1>1, <2>1, <2>3, <3>1
  <2> QED BY <2>2, <2>3
<1>3. c \notin Stoppers /\ c \in Closers /\ Stoppers \subseteq Closers
  BY ActorsAssumption DEF Closers
<1>4. \A d \in Stoppers : cpc'[d] = "idle" /\ cpc[d] = "idle" /\ cqueue'[d] = cqueue[d]
  BY <1>1, <1>3 DEF MutexFree
<1>5. StopQueues' /\ StopRanges'
  BY <1>4 DEF MapInv, StopQueues, StopRanges
<1>6. SlicesDistinct'
  BY <1>2 DEF SlicesDistinct, Distinguished
<1>7. LeaversRemoved'
  <2> SUFFICES ASSUME NEW d \in Leavers, NEW r \in ToSet(cqueue'[d]), NEW t \in Types, r \in ToSet(subm'[t])
               PROVE  FALSE
    BY DEF LeaversRemoved, In
  <2>1. CASE d = c
    <3>1. r = s
      BY <1>1, <2>1 DEF ToSet
    <3> QED BY <1>2, <3>1
  <2>2. CASE d # c
    BY <1>1, <1>2, <2>2 DEF MapInv, LeaversRemoved, In, Closers
  <2> QED BY <2>1, <2>2
<1>8. NoneLost'
  <2> SUFFICES ASSUME NEW r \in Subs, reg[r] \in {"ready", "orphan"}, ~Done(r)
               PROVE  (\E t \in Types : In(r, t)') \/ Leaving(r)'
    BY <1>1 DEF NoneLost, Done
  <2>1. CASE r = s
    <3>1. Head(cqueue'[c]) = s
      BY <1>1
    <3> QED BY <1>1, <2>1, <3>1 DEF Leaving
  <2>2. CASE r # s /\ Leaving(r)
    <3>1. PICK d \in Leavers : cpc[d] # "idle" /\ Head(cqueue[d]) = r
      BY <2>2 DEF Leaving
    <3>2. d # c
      BY <1>1, <3>1
    <3> QED BY <1>1, <3>1, <3>2 DEF Leaving, Closers
  <2>3. CASE r # s /\ \E t \in Types : In(r, t)
    BY <1>2, <2>3 DEF In
  <2> QED BY <2>1, <2>2, <2>3 DEF MapInv, NoneLost
<1>9. StoppedEmpty'
  <2> SUFFICES ASSUME stopped, NEW t \in Types PROVE subm'[t] = <<>>
    BY <1>1 DEF StoppedEmpty
  <2>1. subm[t] = <<>>
    BY DEF MapInv, StoppedEmpty
  <2> QED BY <1>1, <2>1 DEF Find
<1>10. SlicesOpen'
  BY <1>1, <1>2 DEF MapInv, SlicesOpen
<1> QED BY <1>5, <1>6, <1>7, <1>8, <1>9, <1>10 DEF MapInv

LEMMA MapStopLock == ASSUME IInv, MapInv, NEW c \in Stoppers, StopLock(c) PROVE MapInv'
<1>1. /\ MutexFree /\ cpc[c] = "idle" /\ cpc'[c] = "stopping" /\ ctypes'[c] = {t \in Types : subm[t] # <<>>}
      /\ \A d \in Closers : d # c => cpc'[d] = cpc[d] /\ ctypes'[d] = ctypes[d]
      /\ UNCHANGED <<subm, stopped, reg, chan, cqueue>>
  BY DEF StopLock, muxVars, subVars, IInv, TypeOK, Closers
<1>2. c \notin Leavers /\ Leavers \subseteq Closers /\ Stoppers \subseteq Closers
  BY ActorsAssumption DEF Closers
<1>3. (SlicesDistinct /\ LeaversRemoved /\ StoppedEmpty)'
  BY <1>1 DEF MapInv, SlicesDistinct, Distinguished, LeaversRemoved, In, StoppedEmpty
<1>4. \A r \in Subs : Leaving(r) => Leaving(r)'
  BY <1>1, <1>2 DEF Leaving
<1>5. NoneLost'
  BY <1>1, <1>4 DEF MapInv, NoneLost, In, Done
<1>6. SlicesOpen'
  BY <1>1 DEF SlicesOpen, MutexFree
<1>7. StopQueues'
  BY <1>1, <1>2 DEF MapInv, StopQueues
<1>8. StopRanges'
  <2> SUFFICES ASSUME NEW d \in Stoppers, cpc'[d] # "idle", NEW t \in Types, NEW s \in ToSet(subm[t])
               PROVE  t \in ctypes'[d] \/ Done(s)' \/ s \in ToSet(cqueue'[d])
    BY <1>1 DEF StopRanges
  <2>1. d = c
    BY <1>1, <1>2 DEF MutexFree
  <2>2. subm[t] # <<>>
    BY DEF ToSet
  <2> QED BY <1>1, <2>1, <2>2
<1> QED BY <1>3, <1>5, <1>6, <1>7, <1>8 DEF MapInv

LEMMA MapStopSlice ==
  ASSUME IInv, MapInv, NEW c \in Stoppers, NEW t \in Types, StopSlice(c, t) PROVE MapInv'
<1>1. /\ cpc[c] = "stopping" /\ cpc'[c] = "closewait" /\ ctypes'[c] = ctypes[c] \ {t} /\ cqueue'[c] = subm[t]
      /\ \A d \in Closers : d # c => cpc'[d] = cpc[d] /\ ctypes'[d] = ctypes[d] /\ cqueue'[d] = cqueue[d]
      /\ UNCHANGED <<subm, stopped, reg, chan>>
  BY DEF StopSlice, muxVars, subVars, IInv, TypeOK, Closers
<1>2. c \notin Leavers /\ Leavers \subseteq Closers /\ Stoppers \subseteq Closers
  BY ActorsAssumption DEF Closers
<1>3. (SlicesDistinct /\ LeaversRemoved /\ StoppedEmpty)'
  BY <1>1, <1>2 DEF MapInv, SlicesDistinct, Distinguished, LeaversRemoved, In, StoppedEmpty
<1>4. \A r \in Subs : Leaving(r) => Leaving(r)'
  BY <1>1, <1>2 DEF Leaving
<1>5. NoneLost'
  BY <1>1, <1>4 DEF MapInv, NoneLost, In, Done
<1>6. SlicesOpen'
  BY <1>1 DEF SlicesOpen, MutexFree
<1>7. StopQueues'
  BY <1>1, <1>2 DEF MapInv, StopQueues
<1>8. StopRanges'
  <2> SUFFICES ASSUME NEW d \in Stoppers, cpc'[d] # "idle", NEW u \in Types, NEW s \in ToSet(subm[u])
               PROVE  u \in ctypes'[d] \/ Done(s) \/ s \in ToSet(cqueue'[d])
    BY <1>1 DEF StopRanges, Done
  <2>1. CASE d # c
    BY <1>1, <1>2, <2>1 DEF MapInv, StopRanges
  <2>2. CASE d = c /\ u = t
    BY <1>1, <2>2
  <2>3. CASE d = c /\ u # t
    <3>1. cqueue[c] = <<>>
      BY <1>1 DEF MapInv, StopQueues
    <3>2. u \in ctypes[c] \/ Done(s) \/ s \in ToSet(cqueue[c])
      BY <1>1 DEF MapInv, StopRanges
    <3> QED BY <1>1, <2>3, <3>1, <3>2 DEF ToSet
  <2> QED BY <2>1, <2>2, <2>3
<1> QED BY <1>3, <1>5, <1>6, <1>7, <1>8 DEF MapInv

(* When Stop returns, its work is done: every receiver is closed.       *)
LEMMA MapStopReturn == ASSUME IInv, MapInv, NEW c \in Stoppers, StopReturn(c) PROVE MapInv'
<1>1. /\ cpc[c] = "stopping" /\ ctypes[c] = {} /\ cpc'[c] = "idle"
      /\ \A d \in Closers : d # c => cpc'[d] = cpc[d]
      /\ \A t \in Types : subm'[t] = <<>>
      /\ stopped' = TRUE /\ UNCHANGED <<reg, chan, ctypes, cqueue>>
  BY DEF StopReturn, subVars, IInv, TypeOK, Closers
<1>2. c \notin Leavers /\ Leavers \subseteq Closers /\ Stoppers \subseteq Closers
  BY ActorsAssumption DEF Closers
<1>3. \A t \in Types : ToSet(subm'[t]) = {}
  BY <1>1 DEF ToSet
<1>4. (SlicesDistinct /\ LeaversRemoved /\ StoppedEmpty /\ SlicesOpen /\ StopRanges)'
  <2>1. SlicesDistinct'
    BY <1>1 DEF SlicesDistinct, Distinguished
  <2>2. LeaversRemoved'
    BY <1>3 DEF LeaversRemoved, In
  <2>3. StoppedEmpty'
    BY <1>1 DEF StoppedEmpty
  <2>4. SlicesOpen' /\ StopRanges'
    BY <1>3 DEF SlicesOpen, StopRanges
  <2> QED BY <2>1, <2>2, <2>3, <2>4
<1>5. StopQueues'
  BY <1>1, <1>2 DEF MapInv, StopQueues
<1>6. \A r \in Subs : Leaving(r) => Leaving(r)'
  BY <1>1, <1>2 DEF Leaving
<1>7. \A r \in Subs, t \in Types : In(r, t) => Done(r)
  <2> TAKE r \in Subs, t \in Types
  <2> HAVE In(r, t)
  <2>1. cqueue[c] = <<>>
    BY <1>1 DEF MapInv, StopQueues
  <2>2. t \in ctypes[c] \/ Done(r) \/ r \in ToSet(cqueue[c])
    BY <1>1 DEF MapInv, StopRanges, In
  <2> QED BY <1>1, <2>1, <2>2 DEF ToSet
<1>8. NoneLost'
  BY <1>1, <1>6, <1>7 DEF MapInv, NoneLost, Done
<1> QED BY <1>4, <1>5, <1>8 DEF MapInv

(* closewait on the first receiver of a queue: it is closed in the end.    *)
LEMMA CloseHead ==
  ASSUME IInv, NEW c \in Closers, CloseSkip(c) \/ CloseFinish(c)
  PROVE  /\ cpc[c] # "idle" /\ cqueue[c] # <<>> /\ Head(cqueue[c]) \in Subs
         /\ chan'[Head(cqueue[c])] \in {"closed", "dead"}
         /\ \A s \in Subs : s # Head(cqueue[c]) => chan'[s] = chan[s]
         /\ CloseReturn(c)
<1>1. cpc[c] # "idle" /\ cqueue[c] # <<>> /\ cqueue[c] \in Seq(Subs)
  BY DEF CloseSkip, CloseFinish, IInv, TypeOK
<1>2. Head(cqueue[c]) \in Subs
  BY <1>1, HeadTailProperties
<1>3. chan'[Head(cqueue[c])] \in {"closed", "dead"}
  <2>1. CASE CloseSkip(c)
    <3>1. chan[Head(cqueue[c])] \in ChanStates \ {"open", "closing"} /\ chan' = chan
      BY <1>2, <2>1 DEF CloseSkip, IInv, TypeOK, ClosingHeld
    <3> QED BY <3>1 DEF ChanStates
  <2>2. CASE CloseFinish(c)
    BY <1>2, <2>2 DEF CloseFinish, IInv, TypeOK
  <2> QED BY <2>1, <2>2
<1>4. \A s \in Subs : s # Head(cqueue[c]) => chan'[s] = chan[s]
  BY DEF CloseSkip, CloseFinish, IInv, TypeOK
<1> QED BY <1>1, <1>2, <1>3, <1>4 DEF CloseSkip, CloseFinish, Done

LEMMA MapCloseReturn ==
  ASSUME IInv, MapInv, NEW c \in Closers, CloseSkip(c) \/ CloseFinish(c) PROVE MapInv'
<1>1. cpc[c] # "idle" /\ cqueue[c] # <<>> /\ cqueue[c] \in Seq(Subs) /\ CloseReturn(c)
  BY CloseHead DEF IInv, TypeOK
<1>2. PICK h \in Subs : h = Head(cqueue[c])
  BY CloseHead
<1>3. chan'[h] \in {"closed", "dead"} /\ \A s \in Subs : s # h => chan'[s] = chan[s]
  BY <1>2, CloseHead
<1>4. /\ cqueue'[c] = Tail(cqueue[c])
      /\ cpc'[c] = IF Tail(cqueue[c]) # <<>> THEN "closewait" ELSE IF c \in Stoppers THEN "stopping" ELSE "idle"
      /\ \A d \in Closers : d # c => cpc'[d] = cpc[d] /\ cqueue'[d] = cqueue[d]
      /\ UNCHANGED <<subm, stopped, reg, ctypes>>
  BY <1>1 DEF CloseReturn, muxVars, subVars, IInv, TypeOK
<1>5. /\ ToSet(Tail(cqueue[c])) \subseteq ToSet(cqueue[c]) /\ h \in ToSet(cqueue[c])
      /\ ToSet(cqueue[c]) \subseteq ToSet(Tail(cqueue[c])) \cup {h}
  BY <1>1, <1>2, TailFacts
<1>6. Leavers \subseteq Closers /\ Stoppers \subseteq Closers
  BY DEF Closers
<1>7. Done(h)' /\ \A s \in Subs : s # h => (Done(s)' <=> Done(s))
  BY <1>3 DEF Done
<1>8. (SlicesDistinct /\ StoppedEmpty)'
  BY <1>4 DEF MapInv, SlicesDistinct, Distinguished, StoppedEmpty
<1>9. LeaversRemoved'
  BY <1>4, <1>5, <1>6 DEF MapInv, LeaversRemoved, In
<1>10. StopQueues'
  BY <1>4, <1>6 DEF MapInv, StopQueues
<1>11. StopRanges'
  <2> SUFFICES ASSUME NEW d \in Stoppers, cpc'[d] # "idle", NEW t \in Types, NEW s \in ToSet(subm[t])
               PROVE  t \in ctypes[d] \/ Done(s)' \/ s \in ToSet(cqueue'[d])
    BY <1>4 DEF StopRanges
  <2>1. s \in Subs
    BY ReferredKnown
  <2>2. cpc[d] # "idle"
    BY <1>1, <1>4, <1>6
  <2>3. t \in ctypes[d] \/ Done(s) \/ s \in ToSet(cqueue[d])
    BY <2>2 DEF MapInv, StopRanges
  <2>4. s \in ToSet(cqueue[d]) => s \in ToSet(cqueue'[d]) \/ s = h
    BY <1>4, <1>5, <1>6
  <2> QED BY <1>7, <2>1, <2>3, <2>4
<1>12. NoneLost'
  <2> SUFFICES ASSUME NEW r \in Subs, reg[r] \in {"ready", "orphan"}, ~Done(r)'
               PROVE  (\E t \in Types : In(r, t)') \/ Leaving(r)'
    BY <1>4 DEF NoneLost
  <2>1. r # h /\ ~Done(r)
    BY <1>7
  <2>2. CASE \E t \in Types : In(r, t)
    BY <1>4, <2>2 DEF In
  <2>3. CASE Leaving(r)
    <3>1. PICK d \in Leavers : cpc[d] # "idle" /\ Head(cqueue[d]) = r
      BY <2>3 DEF Leaving
    <3>2. d # c
      BY <1>2, <2>1, <3>1
    <3> QED BY <1>4, <1>6, <3>1, <3>2 DEF Leaving
  <2> QED BY <2>1, <2>2, <2>3 DEF MapInv, NoneLost
<1>13. SlicesOpen'
  <2> SUFFICES ASSUME MutexFree', NEW t \in Types, NEW s \in ToSet(subm[t]) PROVE chan'[s] = "open"
    BY <1>4 DEF SlicesOpen
  <2>1. c \in Leavers
    BY <1>4 DEF MutexFree, Closers
  <2>2. c \notin Stoppers
    BY <2>1, ActorsAssumption
  <2>3. MutexFree
    BY <1>4, <1>6, <2>2 DEF MutexFree
  <2>4. s # h /\ s \in Subs
    BY <1>5, <2>1, ReferredKnown DEF MapInv, LeaversRemoved, In
  <2> QED BY <1>3, <2>3, <2>4 DEF MapInv, SlicesOpen
<1> QED BY <1>8, <1>9, <1>10, <1>11, <1>12, <1>13 DEF MapInv

LEMMA MapCloseOn ==
  ASSUME IInv, MapInv, NEW c \in Closers, CloseBegin(c) \/ CloseLockPost(c) PROVE MapInv'
<1>1. /\ cpc[c] \in {"closewait", "closing"} /\ cpc'[c] \in {"closing", "pending"}
      /\ \A d \in Closers : d # c => cpc'[d] = cpc[d]
      /\ UNCHANGED <<subm, stopped, reg, ctypes, cqueue>>
      /\ cqueue[c] \in Seq(Subs) /\ cqueue[c] # <<>>
  BY DEF CloseBegin, CloseLockPost, muxVars, subVars, IInv, TypeOK
<1>2. PICK h \in Subs : h = Head(cqueue[c])
  BY <1>1, HeadTailProperties
<1>3. /\ \A s \in Subs : s # h => chan'[s] = chan[s]
      /\ chan' = chan \/ (chan[h] = "open" /\ chan'[h] = "closing")
  BY <1>2 DEF CloseBegin, CloseLockPost, IInv, TypeOK
<1>4. \A s \in Subs : Done(s)' <=> Done(s)
  BY <1>3 DEF Done
<1>5. Leavers \subseteq Closers /\ Stoppers \subseteq Closers
  BY DEF Closers
<1>6. h \in ToSet(cqueue[c])
  BY <1>1, <1>2, TailFacts
<1>7. (SlicesDistinct /\ StoppedEmpty /\ LeaversRemoved /\ StopQueues)'
  <2>1. (SlicesDistinct /\ StoppedEmpty)'
    BY <1>1 DEF MapInv, SlicesDistinct, Distinguished, StoppedEmpty
  <2>2. LeaversRemoved'
    BY <1>1 DEF MapInv, LeaversRemoved, In
  <2>3. StopQueues'
    BY <1>1, <1>5 DEF MapInv, StopQueues
  <2> QED BY <2>1, <2>2, <2>3
<1>8. StopRanges'
  <2> SUFFICES ASSUME NEW d \in Stoppers, cpc'[d] # "idle", NEW t \in Types, NEW s \in ToSet(subm[t])
               PROVE  t \in ctypes[d] \/ Done(s)' \/ s \in ToSet(cqueue[d])
    BY <1>1 DEF StopRanges
  <2>1. s \in Subs /\ cpc[d] # "idle"
    BY <1>1, <1>5, ReferredKnown
  <2> QED BY <1>4, <2>1 DEF MapInv, StopRanges
<1>9. NoneLost'
  <2>1. \A r \in Subs : Leaving(r) => Leaving(r)'
    BY <1>1, <1>5 DEF Leaving
  <2> QED BY <1>1, <1>4, <2>1 DEF MapInv, NoneLost, In
<1>10. SlicesOpen'
  <2> SUFFICES ASSUME MutexFree', NEW t \in Types, NEW s \in ToSet(subm[t]) PROVE chan'[s] = "open"
    BY <1>1 DEF SlicesOpen
  <2>1. c \in Leavers
    BY <1>1 DEF MutexFree, Closers
  <2>2. c \notin Stoppers
    BY <2>1, ActorsAssumption
  <2>3. MutexFree
    BY <1>1, <1>5, <2>2 DEF MutexFree
  <2>4. s # h /\ s \in Subs
    BY <1>6, <2>1, ReferredKnown DEF MapInv, LeaversRemoved, In
  <2> QED BY <1>3, <2>3, <2>4 DEF MapInv, SlicesOpen
<1> QED BY <1>7, <1>8, <1>9, <1>10 DEF MapInv

LEMMA MapInvStep == IInv /\ MapInv /\ [Next]_vars => MapInv'
<1> SUFFICES ASSUME IInv, MapInv, [Next]_vars PROVE MapInv'
  OBVIOUS
<1> USE DEF MapVars, muxVars, subVars
<1>1. CASE \E p \in Posters : Post(p)
  BY <1>1, MapFrame DEF Post, PostCall, PostSnapshot, DeliverStale, DeliverLock, Deliver, DeliverAbort,
                        DoneDelivery, PostReturn
<1>2. CASE Tick \/ UNCHANGED vars
  BY <1>2, MapFrame DEF Tick, vars
<1>3. CASE \E s \in Subs : NewSub(s) \/ \E a \in ArgLists : Subscribe(s, a)
  BY <1>3, MapNewSub, MapSubscribe
<1>4. ASSUME NEW c \in Closers, Close(c) PROVE MapInv'
  BY <1>4, MapCloseReturn, MapCloseOn DEF Close
<1>5. CASE \E c \in Stoppers : Stop(c)
  BY <1>4, <1>5, MapStopLock, MapStopSlice, MapStopReturn DEF Stop, Closers
<1>6. CASE \E c \in Leavers : Leave(c)
  BY <1>4, <1>6, MapUnsubscribe DEF Leave, Closers
<1> QED BY <1>1, <1>2, <1>3, <1>5, <1>6 DEF Next

LEMMA DInvInit == Init => DInv
<1> SUFFICES ASSUME Init PROVE DInv
  OBVIOUS
<1>1. PostInv
  BY BoundsAssumption DEF Init, PostInv, SnapshotsDistinct, Distinguished, PosterIdle, EventsInOrder, NoLater,
     NotYet, OwedSound, CreatedPast, InOrderAtMostOnce, PostReachesAll, ToSet
<1>2. MapInv
  BY DEF Init, MapInv, SlicesDistinct, Distinguished, LeaversRemoved, In, StopQueues, StopRanges, NoneLost,
     StoppedEmpty, SlicesOpen, ToSet, Closers
<1> QED BY <1>1, <1>2 DEF DInv

LEMMA DInvStep == IInv /\ DInv /\ [Next]_vars => DInv'
BY PostInvStep, MapInvStep DEF DInv, MapInv

(* A Post reaches the receivers it owes its event to, each once and in the *)
(* order of the posts; no registered receiver is closed, and what Stop has *)
(* not closed an Unsubscribe is about to close.                            *)
THEOREM DeliveryIsSound == Spec => []EventsDelivered
<1>1. Spec => [](IInv /\ DInv)
  BY IInvInit, IInvStep, DInvInit, DInvStep, PTL DEF Spec
<1>2. DInv => EventsDelivered
  <2> SUFFICES ASSUME DInv PROVE EventsDelivered
    OBVIOUS
  <2>1. ASSUME MutexFree, stopped, NEW s \in Subs, reg[s] \in {"ready", "orphan"}, ~Done(s) PROVE Leaving(s)
    <3>1. \A t \in Types : ~In(s, t)
      BY <2>1 DEF DInv, MapInv, StoppedEmpty, In, ToSet
    <3> QED BY <2>1, <3>1 DEF DInv, MapInv, NoneLost
  <2>2. RegisteredIsOpen
    BY <2>1 DEF RegisteredIsOpen, DInv, MapInv, SlicesOpen, Done, Leaving
  <2> QED BY <2>2 DEF DInv, PostInv, EventsDelivered
<1> QED BY <1>1, <1>2, PTL

=============================================================================
