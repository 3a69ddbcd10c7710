----------------------------- MODULE FeedProofs -----------------------------
(***************************************************************************)
(* Proofs about Feed, for every set of subscriptions and senders, every    *)
(* element type and capacity of the channels: its types, and, while no     *)
(* channel has been removed, that the case lists hold each subscribed      *)
(* channel once, that Send counts its receivers, and that a feed is the    *)
(* totally ordered broadcast of Broadcast.                                 *)
(***************************************************************************)
EXTENDS Feed, FiniteSetTheorems, SequenceTheorems, WellFoundedInduction, TLAPS

(* sendLock is held by the sender that is past TakeSendLock, and by nobody *)
(* else's calls there is a Send with cases.                                *)
Holding == {"try", "select", "finish", "panicked"}
LockHeld == \A p \in Senders : spc[p] \in Holding <=> lock = p
NoSend == lock \notin Senders => m = 1 /\ old = <<>>
DoneServed == \A p \in Senders : spc[p] = "finish" => m = 1

(* The receive case stays in front, the index of the fast path is behind   *)
(* it, and the array a Send has kept is no longer than the new one.        *)
ListsTyped ==
  /\ arr[1] = Recv /\ idx >= 1
  /\ old # <<>> => Len(old) <= Len(arr)

(* The Sends that wait for sendLock are within the bound, too.             *)
Waiting == {p \in Senders : spc[p] = "lock"}
TurnsLeft ==
  /\ IsFiniteSet(Waiting) /\ turn + Cardinality(Waiting) <= MaxSends
  /\ lock \in Senders => turn >= 1

TypeInv == TypeOK /\ LockHeld /\ NoSend /\ DoneServed /\ ListsTyped /\ TurnsLeft

(* While intact: the cells of sendCases after the first and the inbox are  *)
(* the subscribed channels, each once.                                     *)
Subscribed == {s \in Subs : sub[s] \notin {"none", "refused"}}
InCases(s) == \E i \in 2..n : arr[i] = s
InInbox(s) == \E j \in 1..Len(inbox) : inbox[j] = s

CasesOnce ==
  /\ \A i \in 2..n : arr[i] \in Subscribed
  /\ \A i, j \in 2..n : arr[i] = arr[j] => i = j
InboxOnce ==
  /\ \A j \in 1..Len(inbox) : inbox[j] \in Subscribed
  /\ \A i, j \in 1..Len(inbox) : inbox[i] = inbox[j] => i = j
ListsApart == \A i \in 2..n, j \in 1..Len(inbox) : arr[i] # inbox[j]
ListsComplete == \A s \in Subscribed : InCases(s) \/ InInbox(s)

ListsInv ==
  intact => CasesOnce /\ InboxOnce /\ ListsApart /\ ListsComplete /\ old = <<>> /\ m <= n

(* While intact: what deactivate has put behind the cases of a Send has    *)
(* been served, and counted.                                               *)
Served == {arr[i] : i \in m + 1..n}
CountInv ==
  intact /\ lock \in Senders =>
    /\ roster = {arr[i] : i \in 2..n}
    /\ \A s \in Served : sent[s] # <<>> /\ Last(sent[s]) = turn
    /\ IsFiniteSet(Served) /\ nsent = Cardinality(Served)

IInv == TypeInv /\ ListsInv /\ CountInv

-----------------------------------------------------------------------------
(* The operators of the case lists.                                        *)

(* A set of indices has a least one.                                       *)
LEMMA LeastNat ==
  ASSUME NEW S \in SUBSET Nat, S # {}
  PROVE  \E x \in S : \A y \in S : x <= y
<1>1. \E x \in S : \A y \in S : ~(<<y, x>> \in OpToRel(<, Nat))
  BY NatLessThanWellFounded, WFMin
<1>2. PICK x \in S : \A y \in S : ~(<<y, x>> \in OpToRel(<, Nat))
  BY <1>1
<1>3. \A y \in S : ~(y < x)
  BY <1>2 DEF OpToRel
<1> QED BY <1>3

(* caseList.find returns the place of a case that is there, and -1 of one  *)
(* that is not.                                                            *)
LEMMA FindFacts ==
  ASSUME NEW S, NEW cs \in Seq(S), NEW s
  PROVE  \/ Find(cs, s) = -1 /\ \A i \in 1..Len(cs) : cs[i] # s
         \/ Find(cs, s) \in 0..Len(cs) - 1 /\ cs[Find(cs, s) + 1] = s
<1>1. CASE ~Contains(cs, s)
  BY <1>1 DEF Find, Contains
<1>2. CASE Contains(cs, s)
  <2>1. PICK k \in 1..Len(cs) : cs[k] = s
    BY <1>2 DEF Contains
  <2> DEFINE P(k1) == k1 \in 1..Len(cs) /\ cs[k1] = s
             Places == {k1 \in 1..Len(cs) : cs[k1] = s}
  <2>2. PICK i \in Places : \A j \in Places : i <= j
    <3>1. Places \subseteq Nat /\ Places # {}
      BY <2>1
    <3> QED BY <3>1, LeastNat
  <2>3. \A j \in 1..i - 1 : cs[j] # s
    BY <2>2
  <2> DEFINE c == CHOOSE k1 \in DOMAIN cs : cs[k1] = s /\ \A j \in 1..k1 - 1 : cs[j] # s
  <2>4. c \in DOMAIN cs /\ cs[c] = s
    BY <2>2, <2>3
  <2>5. c \in 1..Len(cs)
    BY <2>4
  <2>6. Find(cs, s) = c - 1
    BY <1>2 DEF Find
  <2> HIDE DEF c
  <2> QED BY <2>4, <2>5, <2>6
<1> QED BY <1>1, <1>2

(* t has two elements of q exchanged.                                     *)
IsSwap(t, q, i, j) ==
  \A k \in 1..Len(q) : t[k] = IF k = j THEN q[i] ELSE IF k = i THEN q[j] ELSE q[k]

LEMMA SwappedFacts ==
  ASSUME NEW S, NEW q \in Seq(S), NEW i \in 1..Len(q), NEW j \in 1..Len(q)
  PROVE  /\ Swapped(q, i, j) \in Seq(S) /\ Len(Swapped(q, i, j)) = Len(q)
         /\ IsSwap(Swapped(q, i, j), q, i, j)
<1> DEFINE r == [q EXCEPT ![i] = q[j]]
<1>1. r \in Seq(S) /\ Len(r) = Len(q) /\ \A k \in 1..Len(q) : r[k] = IF k = i THEN q[j] ELSE q[k]
  BY ExceptSeq, ElementOfSeq
<1>2. Swapped(q, i, j) = [r EXCEPT ![j] = q[i]]
  BY DEF Swapped
<1> HIDE DEF r
<1>3. q[i] \in S
  BY ElementOfSeq
<1>4. /\ [r EXCEPT ![j] = q[i]] \in Seq(S) /\ Len([r EXCEPT ![j] = q[i]]) = Len(r)
      /\ \A k \in 1..Len(r) : [r EXCEPT ![j] = q[i]][k] = IF k = j THEN q[i] ELSE r[k]
  BY <1>1, <1>3, ExceptSeq
<1> QED BY <1>1, <1>2, <1>4 DEF IsSwap

(* append keeps the first len cells, writes the new ones behind them, and  *)
(* grows the array only if it has to.                                      *)
LEMMA AppendedFacts ==
  ASSUME NEW array \in Seq(Cells), NEW len \in 0..Len(array), NEW more \in Seq(Cells)
  PROVE  /\ Appended(array, len, more) \in Seq(Cells)
         /\ Len(Appended(array, len, more)) >= len + Len(more)
         /\ Len(Appended(array, len, more)) >= Len(array)
         /\ ~Grows(array, len, more) => Len(Appended(array, len, more)) = Len(array)
         /\ \A i \in 1..len : Appended(array, len, more)[i] = array[i]
         /\ \A i \in len + 1..len + Len(more) : Appended(array, len, more)[i] = more[i - len]
<1> DEFINE need == len + Len(more)
           cap == IF need <= Len(array) THEN Len(array)
                  ELSE IF need > 2 * Len(array) THEN need ELSE 2 * Len(array)
           new == [i \in 1..cap |-> IF i \in len + 1..need THEN more[i - len]
                                    ELSE IF i <= Len(array) THEN array[i] ELSE Empty]
<1>1. Len(array) \in Nat /\ Len(more) \in Nat /\ len \in Nat
  OBVIOUS
<1>2. cap \in Nat /\ cap >= need /\ cap >= Len(array) /\ (need <= Len(array) => cap = Len(array))
  BY <1>1
<1>3. ASSUME NEW i \in 1..cap PROVE new[i] \in Cells
  <2>1. CASE i \in len + 1..need
    <3>1. i - len \in 1..Len(more)
      BY <1>1, <2>1
    <3> QED BY <2>1, <3>1, ElementOfSeq
  <2>2. CASE i \notin len + 1..need /\ i <= Len(array)
    <3>1. i \in 1..Len(array)
      BY <1>1, <1>2, <2>2
    <3> QED BY <2>2, <3>1, ElementOfSeq
  <2>3. CASE i \notin len + 1..need /\ ~(i <= Len(array))
    BY <2>3 DEF Cells
  <2> QED BY <2>1, <2>2, <2>3
<1>4. new \in [1..cap -> Cells]
  BY <1>3
<1>5. new \in Seq(Cells) /\ Len(new) = cap
  <2> HIDE DEF new, cap
  <2> QED BY <1>2, <1>4
<1>6. Appended(array, len, more) = new
  BY DEF Appended
<1>7. \A i \in 1..len : new[i] = array[i]
  BY <1>1, <1>2
<1>8. \A i \in len + 1..len + Len(more) : new[i] = more[i - len]
  BY <1>1, <1>2
<1> HIDE DEF new, cap
<1> QED BY <1>1, <1>2, <1>5, <1>6, <1>7, <1>8 DEF Grows

-----------------------------------------------------------------------------
(* The type invariant.                                                     *)

LEMMA SendCasesFacts ==
  ASSUME TypeOK
  PROVE  /\ SendCases \in Seq(Cells) /\ Len(SendCases) = n
         /\ \A i \in 1..n : SendCases[i] = arr[i]
<1>1. /\ arr \in Seq(Cells) /\ n \in 1..Len(arr)
  BY DEF TypeOK
<1>2. \A i \in 1..n : arr[i] \in Cells
  BY <1>1, ElementOfSeq
<1> QED BY <1>1, <1>2, SubSeqProperties DEF SendCases

(* find gives delete a place behind the receive case, and what delete      *)
(* leaves fits into the array.                                             *)
LEMMA DeleteCaseFacts ==
  ASSUME TypeOK, ListsTyped, NEW s \in Subs, NEW index, index = Find(SendCases, s), index # -1,
         DeleteCase(index)
  PROVE  /\ index \in 1..n - 1
         /\ arr' \in Seq(Cells) /\ n' \in 1..Len(arr') /\ arr'[1] = Recv
         /\ Len(arr) <= Len(arr')
         /\ ~Grows(arr, index, SubSeq(arr, 1, index + 1)) => Len(arr') = Len(arr)
         /\ intact' = FALSE
<1>1. arr \in Seq(Cells) /\ n \in 1..Len(arr) /\ arr[1] = Recv
  BY DEF TypeOK, ListsTyped
<1>2. index \in 0..n - 1 /\ arr[index + 1] = s
  BY <1>1, SendCasesFacts, FindFacts
<1>3. index \in 1..n - 1
  BY <1>1, <1>2, CellsAssumption
<1> DEFINE more == SubSeq(arr, 1, index + 1)
<1>4. more \in Seq(Cells) /\ Len(more) = index + 1
  <2>1. \A i \in 1..index + 1 : arr[i] \in Cells
    BY <1>1, <1>3, ElementOfSeq
  <2> QED BY <1>3, <2>1, SubSeqProperties
<1>5. arr' = Appended(arr, index, more) /\ n' = 2 * index + 1 /\ intact' = FALSE
  BY DEF DeleteCase
<1> HIDE DEF more
<1>6. index \in 0..Len(arr)
  BY <1>1, <1>3
<1>7. /\ arr' \in Seq(Cells) /\ Len(arr') >= index + Len(more) /\ Len(arr') >= Len(arr)
      /\ ~Grows(arr, index, more) => Len(arr') = Len(arr)
      /\ \A i \in 1..index : arr'[i] = arr[i]
  BY <1>1, <1>4, <1>5, <1>6, AppendedFacts
<1>8. Len(arr') \in Nat /\ Len(arr) \in Nat
  BY <1>1, <1>7
<1>9. n' \in 1..Len(arr')
  BY <1>3, <1>4, <1>5, <1>7, <1>8
<1>10. arr'[1] = Recv
  BY <1>1, <1>3, <1>7
<1>11. Len(arr) <= Len(arr')
  BY <1>7, <1>8
<1> QED BY <1>3, <1>5, <1>7, <1>9, <1>10, <1>11 DEF more

(* deactivate exchanges two cells behind the receive case.                 *)
LEMMA DeactivateFacts ==
  ASSUME TypeOK, ListsTyped, NEW i \in 1..m - 1, Deactivate(i)
  PROVE  /\ m' = m - 1 /\ m' \in 1..Len(CasesArray')
         /\ arr' \in Seq(Cells) /\ Len(arr') = Len(arr) /\ arr'[1] = Recv
         /\ old' \in Seq(Cells) /\ Len(old') = Len(old) /\ (old' = <<>> <=> old = <<>>)
         /\ old = <<>> => \A k \in 1..Len(arr) :
              arr'[k] = IF k = m THEN arr[i + 1] ELSE IF k = i + 1 THEN arr[m] ELSE arr[k]
<1>1. arr \in Seq(Cells) /\ old \in Seq(Cells) /\ m \in 1..Len(CasesArray) /\ arr[1] = Recv
  BY DEF TypeOK, ListsTyped
<1>2. CASE old = <<>>
  <2>1. m \in 1..Len(arr) /\ i + 1 \in 1..Len(arr) /\ i + 1 # 1 /\ m # 1
    BY <1>1, <1>2 DEF CasesArray
  <2>2. arr' = Swapped(arr, i + 1, m) /\ m' = m - 1 /\ old' = old
    BY <1>2 DEF Deactivate
  <2>3. /\ arr' \in Seq(Cells) /\ Len(arr') = Len(arr)
        /\ \A k \in 1..Len(arr) :
             arr'[k] = IF k = m THEN arr[i + 1] ELSE IF k = i + 1 THEN arr[m] ELSE arr[k]
    <3> DEFINE j == i + 1
    <3>1. arr \in Seq(Cells) /\ j \in 1..Len(arr) /\ m \in 1..Len(arr)
      BY <1>1, <2>1
    <3> HIDE DEF j
    <3>2. /\ Swapped(arr, j, m) \in Seq(Cells) /\ Len(Swapped(arr, j, m)) = Len(arr)
          /\ IsSwap(Swapped(arr, j, m), arr, j, m)
      BY <3>1, SwappedFacts, Zenon
    <3> QED BY <2>2, <3>2 DEF j, IsSwap
  <2>4. arr'[1] = Recv
    BY <1>1, <2>1, <2>3
  <2>5. m' \in 1..Len(CasesArray')
    BY <1>2, <2>1, <2>2, <2>3 DEF CasesArray
  <2> QED BY <1>1, <2>2, <2>3, <2>4, <2>5
<1>3. CASE old # <<>>
  <2>1. m \in 1..Len(old) /\ i + 1 \in 1..Len(old)
    BY <1>1, <1>3 DEF CasesArray
  <2>2. old' = Swapped(old, i + 1, m) /\ m' = m - 1 /\ arr' = arr
    BY <1>3 DEF Deactivate
  <2>3. old' \in Seq(Cells) /\ Len(old') = Len(old)
    <3>1. /\ Swapped(old, i + 1, m) \in Seq(Cells)
          /\ Len(Swapped(old, i + 1, m)) = Len(old)
      BY <1>1, <2>1, SwappedFacts
    <3> QED BY <2>2, <3>1
  <2>4. old' # <<>>
    BY <2>1, <2>3
  <2>5. m' \in 1..Len(CasesArray')
    BY <2>1, <2>2, <2>3, <2>4 DEF CasesArray
  <2> QED BY <1>1, <1>3, <2>2, <2>3, <2>4, <2>5
<1> QED BY <1>2, <1>3

(* A delivery puts the turn into a channel that has room or a receiver.    *)
LEMMA PutIntoFacts ==
  ASSUME TypeOK, turn \in 1..MaxSends, NEW s \in Subs, Ready(s), PutInto(s)
  PROVE  /\ buf' \in [Subs -> Seq(1..MaxSends)] /\ \A x \in Subs : Len(buf'[x]) <= Cap[x]
         /\ hungry' \in [Subs -> BOOLEAN]
         /\ sent' = [sent EXCEPT ![s] = Append(@, turn)]
         /\ sent' \in [Subs -> Seq(1..MaxSends)]
         /\ sent'[s] # <<>> /\ Last(sent'[s]) = turn
<1>1. /\ buf \in [Subs -> Seq(1..MaxSends)] /\ \A x \in Subs : Len(buf[x]) <= Cap[x]
      /\ hungry \in [Subs -> BOOLEAN] /\ sent \in [Subs -> Seq(1..MaxSends)]
      /\ Cap \in [Subs -> Nat]
  BY ChannelAssumption DEF TypeOK
<1>0. Append(buf[s], turn) \in Seq(1..MaxSends) /\ Len(Append(buf[s], turn)) = Len(buf[s]) + 1
  <2>1. buf[s] \in Seq(1..MaxSends)
    BY <1>1
  <2> QED BY <2>1, AppendProperties
<1>2. /\ Append(sent[s], turn) \in Seq(1..MaxSends) /\ Append(sent[s], turn) # <<>>
      /\ Len(Append(sent[s], turn)) = Len(sent[s]) + 1
      /\ Append(sent[s], turn)[Len(sent[s]) + 1] = turn
  <2>1. sent[s] \in Seq(1..MaxSends)
    BY <1>1
  <2> QED BY <2>1, AppendProperties
<1>3. sent' = [sent EXCEPT ![s] = Append(sent[s], turn)]
  BY DEF PutInto
<1>4. buf' = IF hungry[s] THEN buf ELSE [buf EXCEPT ![s] = Append(buf[s], turn)]
  BY DEF PutInto
<1>5. \A x \in Subs : Len(buf'[x]) <= Cap[x]
  <2>1. CASE hungry[s]
    BY <1>1, <1>4, <2>1
  <2>2. CASE ~hungry[s]
    <3>1. Len(buf[s]) < Cap[s] /\ Len(buf[s]) \in Nat /\ Cap[s] \in Nat
      BY <1>1, <2>2 DEF Ready
    <3> QED BY <1>0, <1>1, <1>4, <2>2, <3>1
  <2> QED BY <2>1, <2>2
<1>6. buf' \in [Subs -> Seq(1..MaxSends)] /\ hungry' \in [Subs -> BOOLEAN]
  BY <1>0, <1>1, <1>4 DEF PutInto
<1>7. sent'[s] = Append(sent[s], turn) /\ sent' \in [Subs -> Seq(1..MaxSends)]
  BY <1>1, <1>2, <1>3
<1>8. Last(sent'[s]) = turn
  BY <1>2, <1>7 DEF Last
<1> QED BY <1>2, <1>3, <1>5, <1>6, <1>7, <1>8

LEMMA TypeInit == Init => TypeInv
<1> SUFFICES ASSUME Init PROVE TypeInv
  OBVIOUS
<1> USE DEF Init
<1>1. TypeOK
  <2>1. <<>> \in Seq(Subs) /\ <<>> \in Seq(1..MaxSends) /\ <<>> \in Seq(Cells) /\ <<Recv>> \in Seq(Cells)
        /\ Len(<<Recv>>) = 1 /\ Len(<<>>) = 0
    BY DEF Cells
  <2>2. \A s \in Subs : Cap[s] \in Nat
    BY ChannelAssumption
  <2> QED BY <2>1, <2>2, MaxSendsAssumption DEF TypeOK, SubStates, SenderStates, CasesArray
<1>2. LockHeld /\ NoSend /\ DoneServed /\ ListsTyped
  BY NobodyAssumption DEF LockHeld, NoSend, DoneServed, ListsTyped, Holding
<1>3. TurnsLeft
  <2>1. Waiting = {}
    BY DEF Waiting
  <2> QED BY <2>1, FS_EmptySet, MaxSendsAssumption, NobodyAssumption DEF TurnsLeft
<1> QED BY <1>1, <1>2, <1>3 DEF TypeInv

(* A step that moves nobody to or from the queue for sendLock.             *)
LEMMA WaitingSame ==
  ASSUME TypeOK, NEW p \in Senders, spc[p] # "lock", NEW x, x # "lock",
         spc' = [spc EXCEPT ![p] = x]
  PROVE  Waiting' = Waiting
  BY DEF TypeOK, Waiting

LEMMA SubscribeType == ASSUME TypeInv, NEW s \in Subs, Subscribe(s) PROVE TypeInv'
<1> USE DEF TypeInv
<1>1. TypeOK'
  <2> SUFFICES /\ etype' \in Types \cup {NoType} /\ inbox' \in Seq(Subs)
               /\ sub' \in [Subs -> SubStates]
               /\ \A x \in Subs : sub'[x] \notin {"none", "refused"} => ElemType[x] = etype'
    BY DEF TypeOK, Subscribe, callVars, chanVars, CasesArray
  <2>1. CASE TypeChecks(ElemType[s])
    <3>1. /\ etype' = ElemType[s] /\ inbox' = Append(inbox, s)
          /\ sub' = [sub EXCEPT ![s] = "live"]
      BY <2>1 DEF Subscribe
    <3>2. Append(inbox, s) \in Seq(Subs)
      <4>1. inbox \in Seq(Subs)
        BY DEF TypeOK
      <4> QED BY <4>1, AppendProperties
    <3>3. ElemType[s] \in Types
      BY ChannelAssumption
    <3>4. ASSUME NEW x \in Subs, sub'[x] \notin {"none", "refused"} PROVE ElemType[x] = etype'
      <4>1. ElemType[x] \in Types /\ ElemType[x] # NoType
        BY ChannelAssumption, NobodyAssumption
      <4> QED BY <2>1, <3>1, <3>4, <4>1 DEF TypeOK, TypeChecks
    <3> QED BY <3>1, <3>2, <3>3, <3>4 DEF TypeOK, SubStates
  <2>2. CASE ~TypeChecks(ElemType[s])
    BY <2>2 DEF TypeOK, Subscribe, SubStates
  <2> QED BY <2>1, <2>2
<1>2. (LockHeld /\ NoSend /\ DoneServed /\ ListsTyped)'
  BY DEF LockHeld, NoSend, DoneServed, ListsTyped, Subscribe, callVars
<1>3. TurnsLeft'
  BY DEF TurnsLeft, Waiting, Subscribe
<1> QED BY <1>1, <1>2, <1>3

LEMMA ReceiveType == ASSUME TypeInv, NEW s \in Subs, Receive(s) PROVE TypeInv'
<1> USE DEF TypeInv
<1>1. TypeOK'
  <2>1. buf' \in [Subs -> Seq(1..MaxSends)] /\ \A x \in Subs : Len(buf'[x]) <= Cap[x]
    <3>1. CASE buf[s] # <<>>
      <4>1. buf[s] \in Seq(1..MaxSends)
        BY DEF TypeOK
      <4>2. Tail(buf[s]) \in Seq(1..MaxSends) /\ Len(Tail(buf[s])) = Len(buf[s]) - 1
        BY <3>1, <4>1, HeadTailProperties
      <4>3. buf' = [buf EXCEPT ![s] = Tail(buf[s])]
        BY <3>1 DEF Receive
      <4>4. \A x \in Subs : Cap[x] \in Nat
        BY ChannelAssumption
      <4> QED BY <4>1, <4>2, <4>3, <4>4 DEF TypeOK
    <3>2. CASE buf[s] = <<>>
      BY <3>2 DEF Receive, TypeOK
    <3> QED BY <3>1, <3>2
  <2>2. hungry' \in [Subs -> BOOLEAN]
    BY DEF Receive, TypeOK
  <2> QED BY <2>1, <2>2 DEF TypeOK, Receive, callVars, listVars, CasesArray
<1>2. (LockHeld /\ NoSend /\ DoneServed /\ ListsTyped)'
  BY DEF LockHeld, NoSend, DoneServed, ListsTyped, Receive, callVars, listVars
<1>3. TurnsLeft'
  BY DEF TurnsLeft, Waiting, Receive
<1> QED BY <1>1, <1>2, <1>3

LEMMA UnsubscribeType == ASSUME TypeInv, NEW s \in Subs, Unsubscribe(s) PROVE TypeInv'
<1> USE DEF TypeInv, Unsubscribe, callVars, listVars, chanVars
<1>1. TypeOK'
  BY DEF TypeOK, SubStates, CasesArray
<1>2. (LockHeld /\ NoSend /\ DoneServed /\ ListsTyped)'
  BY DEF LockHeld, NoSend, DoneServed, ListsTyped
<1>3. TurnsLeft'
  BY DEF TurnsLeft, Waiting
<1> QED BY <1>1, <1>2, <1>3

LEMMA RemoveFromInboxType == ASSUME TypeInv, NEW s \in Subs, RemoveFromInbox(s) PROVE TypeInv'
<1> USE DEF TypeInv, callVars, listVars, chanVars
<1>1. inbox' \in Seq(Subs)
  <2>1. CASE Contains(inbox, s)
    <3> DEFINE k == Find(inbox, s)
    <3>1. inbox \in Seq(Subs) /\ k \in 0..Len(inbox) - 1
      <4>1. inbox \in Seq(Subs) /\ \E i \in 1..Len(inbox) : inbox[i] = s
        BY <2>1 DEF TypeOK, Contains
      <4> QED BY <4>1, FindFacts
    <3>2. inbox' = SubSeq(inbox, 1, k) \o SubSeq(inbox, 1, k + 1)
      BY <2>1 DEF RemoveFromInbox, Deleted
    <3> HIDE DEF k
    <3>3. \A i \in 1..k + 1 : inbox[i] \in Subs
      BY <3>1, ElementOfSeq
    <3>4. SubSeq(inbox, 1, k) \in Seq(Subs) /\ SubSeq(inbox, 1, k + 1) \in Seq(Subs)
      BY <3>1, <3>3, SubSeqProperties
    <3> QED BY <3>2, <3>4, ConcatProperties
  <2>2. CASE ~Contains(inbox, s)
    BY <2>2 DEF RemoveFromInbox, TypeOK
  <2> QED BY <2>1, <2>2
<1>2. TypeOK'
  BY <1>1 DEF TypeOK, RemoveFromInbox, SubStates, CasesArray
<1>3. (LockHeld /\ NoSend /\ DoneServed /\ ListsTyped)'
  BY DEF RemoveFromInbox, LockHeld, NoSend, DoneServed, ListsTyped
<1>4. TurnsLeft'
  BY DEF RemoveFromInbox, TurnsLeft, Waiting
<1> QED BY <1>2, <1>3, <1>4

LEMMA RemoveLockedType == ASSUME TypeInv, NEW s \in Subs, RemoveLocked(s) PROVE TypeInv'
<1> USE DEF TypeInv, callVars, chanVars
<1> DEFINE index == Find(SendCases, s)
<1>1. m = 1 /\ old = <<>> /\ lock \notin Senders
  BY NobodyAssumption DEF RemoveLocked, NoSend
<1>2. lock' \notin Senders /\ lock' \in Subs \cup {Nobody}
  BY NobodyAssumption, ActorsAssumption DEF RemoveLocked
<1>3. /\ arr' \in Seq(Cells) /\ n' \in 1..Len(arr') /\ arr'[1] = Recv
      /\ intact' \in BOOLEAN
  <2>1. CASE index = -1
    BY <2>1 DEF RemoveLocked, TypeOK, ListsTyped
  <2>2. CASE index # -1
    <3>1. DeleteCase(index)
      BY <2>2 DEF RemoveLocked
    <3> HIDE DEF index
    <3> QED BY <2>2, <3>1, DeleteCaseFacts DEF index
  <2> QED BY <2>1, <2>2
<1>4. sub' \in [Subs -> SubStates] /\ \A x \in Subs : sub'[x] \notin {"none", "refused"} => ElemType[x] = etype'
  BY DEF RemoveLocked, TypeOK, SubStates
<1>5. TypeOK'
  <2>1. m' \in 1..Len(CasesArray')
    BY <1>1, <1>3 DEF RemoveLocked, CasesArray
  <2> QED BY <1>2, <1>3, <1>4, <2>1 DEF TypeOK, RemoveLocked
<1>6. (LockHeld /\ NoSend /\ DoneServed /\ ListsTyped)'
  BY <1>1, <1>2, <1>3 DEF RemoveLocked, LockHeld, NoSend, DoneServed, ListsTyped
<1>7. TurnsLeft'
  BY <1>2 DEF RemoveLocked, TurnsLeft, Waiting
<1> QED BY <1>5, <1>6, <1>7


LEMMA SendCallType == ASSUME TypeInv, NEW p \in Senders, SendCall(p) PROVE TypeInv'
<1> USE DEF TypeInv, SendCall, callVars, listVars, chanVars
<1>1. TypeOK'
  BY DEF TypeOK, SenderStates, CasesArray
<1>2. (LockHeld /\ NoSend /\ DoneServed /\ ListsTyped)'
  BY DEF TypeOK, LockHeld, NoSend, DoneServed, ListsTyped, Holding
<1>3. TurnsLeft'
  <2>1. Waiting' = Waiting \cup {p} /\ p \notin Waiting
    BY DEF Waiting, TypeOK
  <2>2. IsFiniteSet(Waiting) /\ turn + Cardinality(Waiting) < MaxSends
    BY DEF TurnsLeft, Waiting
  <2>3. IsFiniteSet(Waiting') /\ Cardinality(Waiting') = Cardinality(Waiting) + 1
    BY <2>1, <2>2, FS_AddElement
  <2>4. Cardinality(Waiting) \in Nat /\ turn \in Nat
    BY <2>2, FS_CardinalityType DEF TypeOK
  <2> QED BY <2>2, <2>3, <2>4, MaxSendsAssumption DEF TurnsLeft, TypeOK
<1> QED BY <1>1, <1>2, <1>3

(* The merge of the inbox, with the Send values set or not.                *)
LEMMA MergeFacts ==
  ASSUME TypeOK, ListsTyped, NEW new, new = Appended(arr, n, inbox)
  PROVE  /\ new \in Seq(Cells) /\ n + Len(inbox) \in 1..Len(new) /\ new[1] = Recv
         /\ Armed(new) \in Seq(Cells) /\ Len(Armed(new)) = Len(new) /\ Armed(new)[1] = Recv
         /\ \A i \in 1..n : new[i] = arr[i]
         /\ \A i \in n + 1..n + Len(inbox) : new[i] = inbox[i - n]
         /\ \A i \in 1..Len(new) : new[i] # Recv => Armed(new)[i] = new[i]
<1>1. arr \in Seq(Cells) /\ n \in 1..Len(arr) /\ arr[1] = Recv /\ inbox \in Seq(Subs)
  BY DEF TypeOK, ListsTyped
<1>2. inbox \in Seq(Cells)
  BY <1>1, SeqMonotonic DEF Cells
<1>3. /\ new \in Seq(Cells) /\ Len(new) >= n + Len(inbox)
      /\ \A i \in 1..n : new[i] = arr[i]
      /\ \A i \in n + 1..n + Len(inbox) : new[i] = inbox[i - n]
  BY <1>1, <1>2, AppendedFacts
<1>4. Len(new) \in Nat /\ Len(inbox) \in Nat /\ n \in Nat \ {0} /\ 1 \in 1..Len(new) /\ DOMAIN new = 1..Len(new)
  BY <1>1, <1>3
<1>5. Armed(new) \in [1..Len(new) -> Cells]
  BY <1>3, <1>4, ElementOfSeq DEF Armed, Cells
<1>6. Armed(new) \in Seq(Cells) /\ Len(Armed(new)) = Len(new)
  BY <1>4, <1>5
<1>7. Armed(new)[1] = new[1] /\ \A i \in 1..Len(new) : new[i] # Recv => Armed(new)[i] = new[i]
  BY <1>4 DEF Armed
<1>8. n + Len(inbox) \in 1..Len(new) /\ new[1] = Recv
  BY <1>1, <1>3, <1>4
<1> QED BY <1>3, <1>6, <1>7, <1>8

LEMMA TakeSendLockType ==
  ASSUME TypeInv, NEW p \in Senders, NEW t \in Types, TakeSendLock(p, t) PROVE TypeInv'
<1> USE DEF TypeInv
<1> DEFINE new == Appended(arr, n, inbox)
<1>1. /\ new \in Seq(Cells) /\ n + Len(inbox) \in 1..Len(new) /\ new[1] = Recv
      /\ Armed(new) \in Seq(Cells) /\ Len(Armed(new)) = Len(new) /\ Armed(new)[1] = Recv
  BY MergeFacts
<1>2. m = 1 /\ old = <<>> /\ lock = Nobody /\ spc[p] = "lock" /\ n' = n + Len(inbox) /\ inbox' = <<>>
  BY NobodyAssumption DEF NoSend, TakeSendLock
<1>3. Waiting' = Waiting \ {p} /\ p \in Waiting
  BY DEF Waiting, TypeOK, TakeSendLock
<1>4. /\ IsFiniteSet(Waiting') /\ Cardinality(Waiting') = Cardinality(Waiting) - 1
      /\ Cardinality(Waiting) \in Nat /\ Cardinality(Waiting') \in Nat
      /\ turn + Cardinality(Waiting) <= MaxSends
  BY <1>3, FS_RemoveElement, FS_CardinalityType DEF TurnsLeft
<1>5. turn \in Nat /\ turn <= MaxSends /\ turn + 1 <= MaxSends /\ Len(arr) \in Nat \ {0} /\ Len(<<>>) = 0
  BY <1>4, MaxSendsAssumption DEF TypeOK
<1>6. \A x \in Subs : sub[x] \notin {"none", "refused"} => ElemType[x] = etype /\ ElemType[x] # NoType
  BY ChannelAssumption, NobodyAssumption DEF TypeOK
<1>7. CASE TypeChecks(t)
  <2>1. /\ etype' = t /\ lock' = p /\ spc' = [spc EXCEPT ![p] = "try"]
        /\ arr' = Armed(new) /\ m' = n' /\ old' = <<>> /\ idx' = 1 /\ nsent' = 0 /\ turn' = turn + 1
        /\ roster' \subseteq Subs
        /\ UNCHANGED <<sub, chanVars, intact>>
    BY <1>7 DEF TakeSendLock
  <2> HIDE DEF new
  <2>2. TypeOK'
    <3>1. \A x \in Subs : sub'[x] \notin {"none", "refused"} => ElemType[x] = etype'
      BY <1>6, <1>7, <2>1 DEF TypeChecks
    <3>2. m' \in 1..Len(CasesArray') /\ n' \in 1..Len(arr')
      BY <1>1, <1>2, <2>1 DEF CasesArray
    <3>3. turn' \in 0..MaxSends
      BY <1>5, <2>1, MaxSendsAssumption
    <3> QED BY <1>1, <1>2, <2>1, <3>1, <3>2, <3>3 DEF TypeOK, chanVars, SenderStates
  <2>3. (LockHeld /\ NoSend /\ DoneServed)'
    BY <1>2, <2>1, NobodyAssumption DEF LockHeld, NoSend, DoneServed, Holding, TypeOK
  <2>4. ListsTyped'
    BY <1>1, <2>1 DEF ListsTyped
  <2>5. TurnsLeft'
    BY <1>4, <1>5, <2>1, MaxSendsAssumption DEF TurnsLeft
  <2> QED BY <2>2, <2>3, <2>4, <2>5
<1>8. CASE ~TypeChecks(t)
  <2>1. /\ arr' = new /\ spc' = [spc EXCEPT ![p] = "idle"]
        /\ UNCHANGED <<etype, lock, callVars, turn, roster, sub, chanVars, intact>>
    BY <1>8 DEF TakeSendLock
  <2> HIDE DEF new
  <2> USE DEF callVars, chanVars
  <2>2. TypeOK'
    <3>1. m' \in 1..Len(CasesArray') /\ n' \in 1..Len(arr')
      BY <1>1, <1>2, <2>1 DEF CasesArray
    <3> QED BY <1>1, <1>2, <2>1, <3>1 DEF TypeOK, SenderStates
  <2>3. (LockHeld /\ NoSend /\ DoneServed)'
    BY <1>2, <2>1, NobodyAssumption DEF LockHeld, NoSend, DoneServed, Holding, TypeOK
  <2>4. ListsTyped'
    BY <1>1, <1>2, <2>1 DEF ListsTyped
  <2>5. TurnsLeft'
    BY <1>4, <1>5, <2>1, <1>2, MaxSendsAssumption DEF TurnsLeft
  <2> QED BY <2>2, <2>3, <2>4, <2>5
<1> QED BY <1>7, <1>8

(* A step of the Send that holds sendLock and serves one of its cases.     *)
LEMMA ServeType ==
  ASSUME TypeInv, NEW p \in Senders, spc[p] \in {"try", "select"}, NEW i \in 1..m - 1, Deactivate(i),
         idx' \in Nat, idx' >= 1, nsent' = nsent + 1, spc' \in {spc, [spc EXCEPT ![p] = "try"]},
         buf' \in [Subs -> Seq(1..MaxSends)], \A x \in Subs : Len(buf'[x]) <= Cap[x],
         hungry' \in [Subs -> BOOLEAN], sent' \in [Subs -> Seq(1..MaxSends)],
         sub' \in [Subs -> SubStates],
         \A x \in Subs : sub'[x] \notin {"none", "refused"} => ElemType[x] = etype,
         UNCHANGED <<etype, inbox, n, lock, turn, roster, intact>>
  PROVE  TypeInv'
<1> USE DEF TypeInv
<1>1. lock = p
  BY DEF LockHeld, Holding
<1>2. /\ m' = m - 1 /\ m' \in 1..Len(CasesArray')
      /\ arr' \in Seq(Cells) /\ Len(arr') = Len(arr) /\ arr'[1] = Recv
      /\ old' \in Seq(Cells) /\ Len(old') = Len(old) /\ (old' = <<>> <=> old = <<>>)
  BY DeactivateFacts
<1>3. TypeOK'
  BY <1>2 DEF TypeOK, SenderStates
<1>4. LockHeld' /\ DoneServed'
  BY <1>1 DEF TypeOK, LockHeld, DoneServed, Holding
<1>5. NoSend' /\ ListsTyped'
  BY <1>1, <1>2 DEF NoSend, ListsTyped
<1>6. TurnsLeft'
  <2>1. Waiting' = Waiting
    BY DEF TypeOK, Waiting
  <2> QED BY <2>1 DEF TurnsLeft
<1> QED BY <1>3, <1>4, <1>5, <1>6

(* The Send that holds sendLock has a turn.                                *)
LEMMA TurnTaken ==
  ASSUME TypeInv, NEW p \in Senders, spc[p] \in Holding PROVE lock = p /\ turn \in 1..MaxSends
  BY MaxSendsAssumption DEF TypeInv, TypeOK, LockHeld, TurnsLeft

(* The cases of a Send after the first.                                    *)
LEMMA CasesFacts ==
  ASSUME TypeInv PROVE \A i \in 1..m - 1 : Case(i) \in Cells
<1>1. CasesArray \in Seq(Cells) /\ m \in 1..Len(CasesArray)
  BY DEF TypeInv, TypeOK, CasesArray
<1> QED BY <1>1, ElementOfSeq DEF Case

LEMMA TrySendType == ASSUME TypeInv, NEW p \in Senders, TrySend(p) PROVE TypeInv'
<1> USE DEF TypeInv
<1>1. spc[p] = "try" /\ idx < m /\ idx \in Nat /\ idx >= 1 /\ m \in Nat
  BY DEF TrySend, TypeOK, ListsTyped
<1>2. lock = p /\ turn \in 1..MaxSends
  BY <1>1, TurnTaken DEF Holding
<1>3. CASE Delivers(idx)
  <2>1. /\ Case(idx) \in Subs /\ Ready(Case(idx)) /\ PutInto(Case(idx)) /\ Deactivate(idx)
        /\ nsent' = nsent + 1 /\ idx' = idx
        /\ UNCHANGED <<etype, inbox, n, lock, sub, spc, turn, roster, intact>>
    BY <1>3 DEF TrySend, Delivers
  <2>2. idx \in 1..m - 1
    BY <1>1
  <2> DEFINE s == Case(idx)
  <2>3. s \in Subs /\ Ready(s) /\ PutInto(s)
    BY <2>1
  <2> HIDE DEF s
  <2>4. /\ buf' \in [Subs -> Seq(1..MaxSends)] /\ \A x \in Subs : Len(buf'[x]) <= Cap[x]
        /\ hungry' \in [Subs -> BOOLEAN] /\ sent' \in [Subs -> Seq(1..MaxSends)]
    BY <1>2, <2>3, PutIntoFacts
  <2>5. sub' \in [Subs -> SubStates] /\ \A x \in Subs : sub'[x] \notin {"none", "refused"} => ElemType[x] = etype
    BY <2>1 DEF TypeOK
  <2> QED BY <1>1, <2>1, <2>2, <2>4, <2>5, ServeType
<1>4. CASE ~Delivers(idx)
  <2>1. idx' = idx + 1
        /\ UNCHANGED <<chanVars, arr, m, old, nsent, etype, inbox, n, lock, sub, spc, turn, roster, intact>>
    BY <1>4 DEF TrySend
  <2>2. TypeOK'
    BY <1>1, <2>1 DEF TypeOK, chanVars, CasesArray
  <2>3. (LockHeld /\ NoSend /\ DoneServed /\ ListsTyped)'
    BY <1>1, <2>1 DEF LockHeld, NoSend, DoneServed, ListsTyped
  <2>4. TurnsLeft'
    BY <2>1 DEF TurnsLeft, Waiting
  <2> QED BY <2>2, <2>3, <2>4
<1> QED BY <1>3, <1>4

LEMMA TriedAllType == ASSUME TypeInv, NEW p \in Senders, TriedAll(p) PROVE TypeInv'
<1> USE DEF TypeInv, TriedAll, listVars, callVars, chanVars
<1>1. TypeOK'
  BY DEF TypeOK, SenderStates, CasesArray
<1>2. (LockHeld /\ NoSend /\ DoneServed /\ ListsTyped)'
  BY DEF TypeOK, LockHeld, NoSend, DoneServed, ListsTyped, Holding
<1>3. TurnsLeft'
  BY WaitingSame DEF TurnsLeft
<1> QED BY <1>1, <1>2, <1>3

LEMMA SelectPanicsType == ASSUME TypeInv, NEW p \in Senders, SelectPanics(p) PROVE TypeInv'
<1> USE DEF TypeInv, SelectPanics, listVars, callVars, chanVars
<1>1. TypeOK'
  BY DEF TypeOK, SenderStates, CasesArray
<1>2. (LockHeld /\ NoSend /\ DoneServed /\ ListsTyped)'
  BY DEF TypeOK, LockHeld, NoSend, DoneServed, ListsTyped, Holding
<1>3. TurnsLeft'
  BY WaitingSame DEF TurnsLeft
<1> QED BY <1>1, <1>2, <1>3

LEMMA SelectSendType ==
  ASSUME TypeInv, NEW p \in Senders, NEW i \in 1..m - 1, SelectSend(p, i) PROVE TypeInv'
<1> USE DEF TypeInv
<1>1. lock = p /\ turn \in 1..MaxSends
  BY TurnTaken DEF SelectSend, Holding
<1> DEFINE s == Case(i)
<1>2. s \in Subs /\ Ready(s) /\ PutInto(s)
  BY DEF SelectSend, Delivers
<1> HIDE DEF s
<1>3. /\ buf' \in [Subs -> Seq(1..MaxSends)] /\ \A x \in Subs : Len(buf'[x]) <= Cap[x]
      /\ hungry' \in [Subs -> BOOLEAN] /\ sent' \in [Subs -> Seq(1..MaxSends)]
  BY <1>1, <1>2, PutIntoFacts
<1>4. sub' \in [Subs -> SubStates] /\ \A x \in Subs : sub'[x] \notin {"none", "refused"} => ElemType[x] = etype
  BY DEF SelectSend, TypeOK
<1>5. /\ idx' \in Nat /\ idx' >= 1 /\ nsent' = nsent + 1
      /\ spc[p] \in {"try", "select"} /\ spc' \in {spc, [spc EXCEPT ![p] = "try"]}
      /\ Deactivate(i) /\ UNCHANGED <<etype, inbox, n, lock, turn, roster, intact>>
  BY DEF SelectSend, TryAgain
<1> HIDE DEF TypeInv
<1> QED BY <1>3, <1>4, <1>5, ServeType

LEMMA SelectStrayType ==
  ASSUME TypeInv, NEW p \in Senders, NEW s \in Subs, NEW i \in 1..m - 1, SelectStray(p, s, i) PROVE TypeInv'
<1> USE DEF TypeInv
<1>1. /\ buf' \in [Subs -> Seq(1..MaxSends)] /\ \A x \in Subs : Len(buf'[x]) <= Cap[x]
      /\ hungry' \in [Subs -> BOOLEAN] /\ sent' \in [Subs -> Seq(1..MaxSends)]
  BY DEF SelectStray, TypeOK, chanVars
<1>2. sub' \in [Subs -> SubStates] /\ \A x \in Subs : sub'[x] \notin {"none", "refused"} => ElemType[x] = etype
  BY DEF SelectStray, TypeOK, SubStates
<1>3. /\ idx' \in Nat /\ idx' >= 1 /\ nsent' = nsent + 1
      /\ spc[p] \in {"try", "select"} /\ spc' \in {spc, [spc EXCEPT ![p] = "try"]}
      /\ Deactivate(i) /\ UNCHANGED <<etype, inbox, n, lock, turn, roster, intact>>
  BY DEF SelectStray, TryAgain
<1> HIDE DEF TypeInv
<1> QED BY <1>1, <1>2, <1>3, ServeType

(* A channel is removed from sendCases, and from the cases of the Send.    *)
LEMMA SelectRemoveType ==
  ASSUME TypeInv, NEW p \in Senders, NEW s \in Subs, SelectRemove(p, s) PROVE TypeInv'
<1> USE DEF TypeInv
<1> DEFINE index == Find(SendCases, s)
           more == SubSeq(arr, 1, index + 1)
<1>1. spc[p] = "select" /\ lock = p
  BY DEF SelectRemove, LockHeld, Holding
<1>2. sub' \in [Subs -> SubStates] /\ \A x \in Subs : sub'[x] \notin {"none", "refused"} => ElemType[x] = etype
  BY DEF SelectRemove, TypeOK, SubStates
<1>3. UNCHANGED <<etype, inbox, lock, nsent, chanVars, turn, roster>>
  BY DEF SelectRemove
<1>4. CASE index = -1
  <2>1. spc' = [spc EXCEPT ![p] = "panicked"] /\ UNCHANGED <<arr, n, m, old, idx, intact>>
    BY <1>4 DEF SelectRemove
  <2> HIDE DEF index
  <2>2. TypeOK'
    BY <1>2, <1>3, <2>1 DEF TypeOK, chanVars, CasesArray, SenderStates
  <2>3. (LockHeld /\ NoSend /\ DoneServed /\ ListsTyped)'
    BY <1>1, <1>3, <2>1 DEF TypeOK, LockHeld, NoSend, DoneServed, ListsTyped, Holding
  <2>4. TurnsLeft'
    BY <1>1, <1>3, <2>1, WaitingSame DEF TurnsLeft
  <2> QED BY <2>2, <2>3, <2>4
<1>5. CASE index # -1
  <2>1. /\ DeleteCase(index) /\ spc' = [spc EXCEPT ![p] = "try"] /\ idx' = 1
        /\ IF index < m THEN m' = m - 1 /\ old' = <<>>
           ELSE m' = m /\ old' = IF old = <<>> /\ Grows(arr, index, more) THEN arr ELSE old
    BY <1>5 DEF SelectRemove, TryAgain
  <2> HIDE DEF index
  <2>2. /\ index \in 1..n - 1
        /\ arr' \in Seq(Cells) /\ n' \in 1..Len(arr') /\ arr'[1] = Recv
        /\ Len(arr) <= Len(arr')
        /\ ~Grows(arr, index, more) => Len(arr') = Len(arr)
        /\ intact' = FALSE
    BY <1>5, <2>1, DeleteCaseFacts DEF index
  <2> HIDE DEF more
  <2>3. /\ arr \in Seq(Cells) /\ old \in Seq(Cells) /\ m \in 1..Len(CasesArray) /\ n \in 1..Len(arr)
        /\ Len(old) <= Len(arr) \/ old = <<>>
    BY DEF TypeOK, ListsTyped
  <2>4. Len(arr) \in Nat /\ Len(arr') \in Nat /\ Len(old) \in Nat /\ arr # <<>>
    BY <2>2, <2>3
  <2>5. old' \in Seq(Cells) /\ m' \in 1..Len(CasesArray') /\ (old' # <<>> => Len(old') <= Len(arr'))
    <3>1. CASE index < m
      <4>1. m' = m - 1 /\ old' = <<>> /\ m' >= 1
        BY <2>1, <2>2, <2>3, <3>1
      <4>2. m <= Len(arr)
        BY <2>3, <2>4 DEF CasesArray
      <4>3. <<>> \in Seq(Cells)
        OBVIOUS
      <4> QED BY <2>2, <2>3, <2>4, <4>1, <4>2, <4>3 DEF CasesArray
    <3>2. CASE ~(index < m)
      <4>1. m' = m /\ old' = IF old = <<>> /\ Grows(arr, index, more) THEN arr ELSE old
        BY <2>1, <3>2
      <4> QED BY <2>2, <2>3, <2>4, <4>1 DEF CasesArray
    <3> QED BY <3>1, <3>2
  <2>6. TypeOK'
    BY <1>2, <1>3, <2>1, <2>2, <2>5 DEF TypeOK, chanVars, SenderStates
  <2>7. (LockHeld /\ NoSend /\ DoneServed)'
    BY <1>1, <1>3, <2>1, <2>2 DEF TypeOK, LockHeld, NoSend, DoneServed, Holding
  <2>8. ListsTyped'
    BY <1>1, <2>1, <2>2, <2>5 DEF ListsTyped
  <2>9. TurnsLeft'
    BY <1>1, <1>3, <2>1, WaitingSame DEF TurnsLeft
  <2> QED BY <2>6, <2>7, <2>8, <2>9
<1> QED BY <1>4, <1>5

LEMMA DisarmedFacts ==
  ASSUME TypeOK, ListsTyped
  PROVE  /\ Disarmed(arr) \in Seq(Cells) /\ Len(Disarmed(arr)) = Len(arr) /\ Disarmed(arr)[1] = Recv
         /\ \A i \in 1..Len(arr) : arr[i] # RecvSet => Disarmed(arr)[i] = arr[i]
<1>1. arr \in Seq(Cells) /\ arr[1] = Recv /\ Len(arr) \in Nat /\ 1 \in 1..Len(arr) /\ DOMAIN arr = 1..Len(arr)
  BY DEF TypeOK, ListsTyped
<1>2. Disarmed(arr) \in [1..Len(arr) -> Cells]
  BY <1>1, ElementOfSeq DEF Disarmed, Cells
<1>3. Disarmed(arr) \in Seq(Cells) /\ Len(Disarmed(arr)) = Len(arr)
  BY <1>1, <1>2
<1>4. Disarmed(arr)[1] = Recv /\ \A i \in 1..Len(arr) : arr[i] # RecvSet => Disarmed(arr)[i] = arr[i]
  BY <1>1 DEF Disarmed
<1> QED BY <1>3, <1>4

LEMMA SendReturnType == ASSUME TypeInv, NEW p \in Senders, SendReturn(p) PROVE TypeInv'
<1> USE DEF TypeInv, chanVars
<1>1. spc[p] = "finish" /\ lock = p
  BY DEF SendReturn, LockHeld, Holding
<1>2. arr' \in Seq(Cells) /\ Len(arr') = Len(arr) /\ arr'[1] = Recv
  BY DisarmedFacts DEF SendReturn
<1>3. TypeOK'
  <2>1. m' \in 1..Len(CasesArray') /\ n' \in 1..Len(arr')
    BY <1>2 DEF SendReturn, CasesArray, TypeOK
  <2> QED BY <1>2, <2>1 DEF TypeOK, SendReturn, SenderStates
<1>4. (LockHeld /\ NoSend /\ DoneServed /\ ListsTyped)'
  BY <1>1, <1>2, NobodyAssumption DEF TypeOK, SendReturn, LockHeld, NoSend, DoneServed, ListsTyped, Holding
<1>5. TurnsLeft'
  BY <1>1, WaitingSame, NobodyAssumption DEF TurnsLeft, SendReturn
<1> QED BY <1>3, <1>4, <1>5

LEMMA TypeStep == TypeInv /\ [Next]_vars => TypeInv'
<1> SUFFICES ASSUME TypeInv, [Next]_vars PROVE TypeInv'
  OBVIOUS
<1>1. CASE UNCHANGED vars
  BY <1>1 DEF vars, listVars, callVars, chanVars, TypeInv, TypeOK, LockHeld, NoSend, DoneServed,
     ListsTyped, TurnsLeft, Waiting, CasesArray
<1>2. ASSUME NEW p \in Senders, Send(p) PROVE TypeInv'
  BY <1>2, SendCallType, TakeSendLockType, TrySendType, TriedAllType, SelectPanicsType, SelectSendType,
     SelectRemoveType, SelectStrayType, SendReturnType DEF Send, Select
<1>3. ASSUME NEW s \in Subs, Subscribe(s) \/ Receive(s) \/ Unsubscribe(s) \/ RemoveFromInbox(s) \/ RemoveLocked(s)
      PROVE TypeInv'
  BY <1>3, SubscribeType, ReceiveType, UnsubscribeType, RemoveFromInboxType, RemoveLockedType
<1> QED BY <1>1, <1>2, <1>3 DEF Next

(* The variables keep their types, in the code's terms: the backing array  *)
(* of the cases is long enough for them, no buffer exceeds its capacity,   *)
(* and every channel that got past Subscribe has the type of the feed.     *)
THEOREM TypesAlways == Spec => []TypeOK
<1>1. TypeInv => TypeOK
  BY DEF TypeInv
<1> QED BY <1>1, TypeInit, TypeStep, PTL DEF Spec

-----------------------------------------------------------------------------
(* The case lists and the count, while no channel has been removed.        *)

Kept == ListsInv /\ CountInv

(* A removal from a list ends what is promised of it.                      *)
LEMMA RemovedKept == ASSUME ~intact' PROVE Kept'
  BY DEF Kept, ListsInv, CountInv

LEMMA SameKept ==
  ASSUME Kept, Subscribed' = Subscribed,
         UNCHANGED <<arr, n, inbox, m, old, intact, lock, roster, sent, turn, nsent>>
  PROVE  Kept'
<1>1. ListsInv'
  BY DEF Kept, ListsInv, CasesOnce, InboxOnce, ListsApart, ListsComplete, InCases, InInbox
<1>2. CountInv'
  BY DEF Kept, CountInv, Served
<1> QED BY <1>1, <1>2 DEF Kept

LEMMA KeptInit == Init => Kept
<1> SUFFICES ASSUME Init PROVE Kept
  OBVIOUS
<1>1. Subscribed = {}
  BY DEF Init, Subscribed
<1>2. n = 1 /\ m = 1 /\ inbox = <<>> /\ Len(<<>>) = 0 /\ old = <<>> /\ lock \notin Senders
  BY NobodyAssumption DEF Init
<1>3. ListsInv
  BY <1>1, <1>2 DEF ListsInv, CasesOnce, InboxOnce, ListsApart, ListsComplete
<1> QED BY <1>2, <1>3 DEF Kept, CountInv

LEMMA SubscribeKept == ASSUME TypeInv, Kept, NEW s \in Subs, Subscribe(s) PROVE Kept'
<1>1. sub \in [Subs -> SubStates] /\ sub[s] = "none" /\ inbox \in Seq(Subs)
  BY DEF TypeInv, TypeOK, Subscribe
<1>2. CASE ~TypeChecks(ElemType[s])
  <2>1. Subscribed' = Subscribed
    BY <1>1, <1>2 DEF Subscribed, Subscribe
  <2> QED BY <1>2, <2>1, SameKept DEF Subscribe, callVars, chanVars
<1>3. CASE TypeChecks(ElemType[s])
  <2>1. inbox' = Append(inbox, s) /\ UNCHANGED <<arr, n, m, old, intact, lock, roster, sent, turn, nsent>>
    BY <1>3 DEF Subscribe, callVars, chanVars
  <2>2. Subscribed' = Subscribed \cup {s} /\ s \notin Subscribed
    BY <1>1, <1>3 DEF Subscribed, Subscribe
  <2>3. /\ Len(inbox') = Len(inbox) + 1 /\ Len(inbox) \in Nat /\ inbox'[Len(inbox) + 1] = s
        /\ \A j \in 1..Len(inbox) : inbox'[j] = inbox[j]
    BY <1>1, <2>1, AppendProperties
  <2>4. ASSUME intact PROVE CasesOnce' /\ InboxOnce' /\ ListsApart' /\ ListsComplete'
    <3>1. CasesOnce /\ InboxOnce /\ ListsApart /\ ListsComplete
      BY <2>4 DEF Kept, ListsInv
    <3>2. CasesOnce'
      BY <2>1, <2>2, <3>1 DEF CasesOnce
    <3>3. InboxOnce'
      BY <2>2, <2>3, <3>1 DEF InboxOnce
    <3>4. ListsApart'
      BY <2>1, <2>2, <2>3, <3>1 DEF ListsApart, CasesOnce
    <3>5. ASSUME NEW x \in Subscribed' PROVE InCases(x)' \/ InInbox(x)'
      <4>1. CASE x = s
        <5>1. Len(inbox) + 1 \in 1..Len(inbox')
          BY <2>3
        <5> QED BY <2>3, <4>1, <5>1 DEF InInbox
      <4>2. CASE x \in Subscribed
        <5>1. InCases(x) \/ InInbox(x)
          BY <3>1, <4>2 DEF ListsComplete
        <5>2. InCases(x) => InCases(x)'
          BY <2>1 DEF InCases
        <5>3. InInbox(x) => InInbox(x)'
          BY <2>3 DEF InInbox
        <5> QED BY <5>1, <5>2, <5>3
      <4> QED BY <2>2, <4>1, <4>2
    <3> QED BY <3>2, <3>3, <3>4, <3>5 DEF ListsComplete
  <2>5. ListsInv'
    BY <2>1, <2>4 DEF Kept, ListsInv
  <2>6. CountInv'
    BY <2>1 DEF Kept, CountInv, Served
  <2> QED BY <2>5, <2>6 DEF Kept
<1> QED BY <1>2, <1>3

(* The merge moves the inbox behind the cases: nothing is lost, and        *)
(* nothing is there twice.                                                 *)
LEMMA TakeSendLockKept ==
  ASSUME TypeInv, Kept, NEW p \in Senders, NEW t \in Types, TakeSendLock(p, t) PROVE Kept'
<1>1. CASE ~intact
  BY <1>1, RemovedKept DEF TakeSendLock
<1>2. CASE intact
  <2> DEFINE new == Appended(arr, n, inbox)
  <2>1. CasesOnce /\ InboxOnce /\ ListsApart /\ ListsComplete /\ m = 1 /\ old = <<>> /\ lock = Nobody
    BY <1>2, NobodyAssumption DEF Kept, ListsInv, TypeInv, NoSend, TakeSendLock
  <2>2. /\ new \in Seq(Cells) /\ n + Len(inbox) \in 1..Len(new) /\ new[1] = Recv
        /\ Armed(new) \in Seq(Cells) /\ Len(Armed(new)) = Len(new) /\ Armed(new)[1] = Recv
        /\ \A i \in 1..n : new[i] = arr[i]
        /\ \A i \in n + 1..n + Len(inbox) : new[i] = inbox[i - n]
        /\ \A i \in 1..Len(new) : new[i] # Recv => Armed(new)[i] = new[i]
    BY MergeFacts DEF TypeInv
  <2>3. /\ n' = n + Len(inbox) /\ inbox' = <<>> /\ UNCHANGED <<sub, sent, intact>>
        /\ arr' = IF TypeChecks(t) THEN Armed(new) ELSE new
    BY DEF TakeSendLock, chanVars
  <2>4. n \in Nat /\ n >= 1 /\ Len(inbox) \in Nat /\ n' \in Nat /\ n' >= 1
    BY <2>3 DEF TypeInv, TypeOK
  <2> HIDE DEF new
  <2>5. \A i \in 2..n : arr'[i] = arr[i] /\ arr'[i] \in Subscribed
    <3> TAKE i \in 2..n
    <3>1. i \in 1..n /\ i \in 1..Len(new) /\ arr[i] \in Subscribed
      BY <2>1, <2>2, <2>4 DEF CasesOnce
    <3>2. arr[i] # Recv
      BY <3>1, CellsAssumption DEF Subscribed
    <3> QED BY <2>2, <2>3, <3>1, <3>2
  <2>6. \A i \in n + 1..n' : arr'[i] = inbox[i - n] /\ arr'[i] \in Subscribed /\ i - n \in 1..Len(inbox)
    <3> TAKE i \in n + 1..n'
    <3>1. i \in n + 1..n + Len(inbox) /\ i \in 1..Len(new) /\ i - n \in 1..Len(inbox)
      BY <2>2, <2>3, <2>4
    <3>2. inbox[i - n] \in Subscribed
      BY <2>1, <3>1 DEF InboxOnce
    <3>3. inbox[i - n] # Recv
      BY <3>2, CellsAssumption DEF Subscribed
    <3> QED BY <2>2, <2>3, <3>1, <3>2, <3>3
  <2>7. Subscribed' = Subscribed
    BY <2>3 DEF Subscribed
  <2>8. CasesOnce'
    <3>1. \A i \in 2..n' : arr'[i] \in Subscribed'
      BY <2>4, <2>5, <2>6, <2>7
    <3>2. ASSUME NEW i \in 2..n', NEW j \in 2..n', arr'[i] = arr'[j] PROVE i = j
      <4>1. CASE i <= n /\ j <= n
        BY <2>1, <2>4, <2>5, <3>2, <4>1 DEF CasesOnce
      <4>2. CASE i > n /\ j > n
        <5>1. i - n \in 1..Len(inbox) /\ j - n \in 1..Len(inbox) /\ inbox[i - n] = inbox[j - n]
          BY <2>4, <2>6, <3>2, <4>2
        <5>2. i - n = j - n
          BY <2>1, <5>1 DEF InboxOnce
        <5> QED BY <2>4, <5>2
      <4>3. CASE i <= n /\ j > n
        <5>1. i \in 2..n /\ j - n \in 1..Len(inbox) /\ arr[i] = inbox[j - n]
          BY <2>4, <2>5, <2>6, <3>2, <4>3
        <5> QED BY <2>1, <5>1 DEF ListsApart
      <4>4. CASE i > n /\ j <= n
        <5>1. j \in 2..n /\ i - n \in 1..Len(inbox) /\ arr[j] = inbox[i - n]
          BY <2>4, <2>5, <2>6, <3>2, <4>4
        <5> QED BY <2>1, <5>1 DEF ListsApart
      <4> QED BY <2>4, <4>1, <4>2, <4>3, <4>4
    <3> QED BY <3>1, <3>2 DEF CasesOnce
  <2>9. InboxOnce' /\ ListsApart'
    <3>1. Len(inbox') = 0
      BY <2>3
    <3> QED BY <3>1 DEF InboxOnce, ListsApart
  <2>10. ASSUME NEW s \in Subscribed PROVE InCases(s)'
    <3>1. CASE InCases(s)
      BY <2>3, <2>4, <2>5, <3>1 DEF InCases
    <3>2. CASE InInbox(s)
      <4>1. PICK j \in 1..Len(inbox) : inbox[j] = s
        BY <3>2 DEF InInbox
      <4>2. n + j \in n + 1..n' /\ n + j \in 2..n' /\ (n + j) - n = j
        BY <2>3, <2>4
      <4>3. arr'[n + j] = s
        BY <2>6, <4>1, <4>2
      <4> QED BY <4>2, <4>3 DEF InCases
    <3> QED BY <2>1, <3>1, <3>2 DEF ListsComplete
  <2>11. old' = <<>> /\ m' <= n'
    BY <2>1, <2>3, <2>4 DEF TakeSendLock, callVars
  <2>12. ListsInv'
    BY <2>7, <2>8, <2>9, <2>10, <2>11 DEF ListsInv, ListsComplete
  <2>13. CountInv'
    <3>1. CASE ~TypeChecks(t)
      BY <2>1, <3>1, NobodyAssumption DEF CountInv, TakeSendLock
    <3>2. CASE TypeChecks(t)
      <4>1. m' = n' /\ nsent' = 0 /\ roster' = ToSet(SubSeq(arr', 1, n')) \cap Subs /\ lock' = p
        BY <3>2 DEF TakeSendLock
      <4>2. Served' = {}
        <5>1. m' = n' /\ n' \in Nat
          BY <2>4, <4>1
        <5>2. \A a \in Nat : \A i \in a + 1..a : FALSE
          OBVIOUS
        <5>3. \A i \in m' + 1..n' : FALSE
          BY <5>1, <5>2, Zenon
        <5> QED BY <5>3, Zenon DEF Served
      <4>3. roster' = {arr'[i] : i \in 2..n'}
        <5>1. /\ arr' \in Seq(Cells) /\ n' \in 1..Len(arr') /\ arr'[1] = Recv
          BY <2>2, <2>3, <3>2
        <5>2. \A i \in 1..n' : arr'[i] \in Cells
          BY <5>1, ElementOfSeq
        <5>3. /\ SubSeq(arr', 1, n') \in Seq(Cells) /\ Len(SubSeq(arr', 1, n')) = n'
              /\ \A i \in 1..n' : SubSeq(arr', 1, n')[i] = arr'[i]
          <6> DEFINE a == arr'
                     k == n'
          <6>1. k \in Nat /\ k >= 1 /\ \A i \in 1..k : a[i] \in Cells
            BY <2>4, <5>2
          <6> HIDE DEF a, k
          <6>2. /\ SubSeq(a, 1, k) \in Seq(Cells) /\ Len(SubSeq(a, 1, k)) = k
                /\ \A i \in 1..k : SubSeq(a, 1, k)[i] = a[i]
            BY <6>1, SubSeqProperties
          <6> QED BY <6>2 DEF a, k
        <5>4. DOMAIN SubSeq(arr', 1, n') = 1..n'
          BY <5>3
        <5>5. ToSet(SubSeq(arr', 1, n')) = {arr'[i] : i \in 1..n'}
          BY <5>3, <5>4 DEF ToSet
        <5>6. Recv \notin Subs
          BY CellsAssumption
        <5>7. \A i \in 2..n' : arr'[i] \in Subs
          BY <2>7, <2>8 DEF CasesOnce, Subscribed
        <5> QED BY <2>4, <4>1, <5>1, <5>5, <5>6, <5>7
      <4> QED BY <4>1, <4>2, <4>3, FS_EmptySet DEF CountInv
    <3> QED BY <3>1, <3>2
  <2> QED BY <2>12, <2>13 DEF Kept
<1> QED BY <1>1, <1>2

(* A delivery: deactivate keeps the cases a permutation of what they were, *)
(* and puts the one that was served behind the end of cases.               *)
LEMMA ServeKept ==
  ASSUME TypeInv, Kept, intact, NEW p \in Senders, lock = p, NEW i \in 1..m - 1,
         Deactivate(i), Case(i) \in Subs, Ready(Case(i)), PutInto(Case(i)), nsent' = nsent + 1,
         turn \in 1..MaxSends, UNCHANGED <<inbox, n, lock, sub, turn, roster, intact>>
  PROVE  Kept'
<1>1. CasesOnce /\ InboxOnce /\ ListsApart /\ ListsComplete /\ old = <<>> /\ m <= n
  BY DEF Kept, ListsInv
<1> DEFINE k == i + 1
           c == arr[k]
<1>2. Case(i) = c
  BY <1>1 DEF Case, CasesArray
<1>3. arr \in Seq(Cells) /\ n \in 1..Len(arr) /\ m \in 1..Len(arr)
  BY <1>1 DEF TypeInv, TypeOK, CasesArray
<1>4. k \in 2..n /\ m \in 2..n /\ k <= m /\ n \in Nat /\ m \in Nat /\ n <= Len(arr) /\ k \in Nat
  BY <1>1, <1>3
<1>5. \A j \in 1..Len(arr) : arr'[j] = IF j = m THEN c ELSE IF j = k THEN arr[m] ELSE arr[j]
  BY <1>1, DeactivateFacts DEF TypeInv
<1>6. m' = m - 1 /\ old' = <<>>
  BY <1>1, DeactivateFacts DEF TypeInv
<1>7. \A j \in 2..n : arr'[j] = IF j = m THEN c ELSE IF j = k THEN arr[m] ELSE arr[j]
  BY <1>3, <1>4, <1>5
<1> HIDE DEF k
<1>8. c \in Subs /\ Ready(c) /\ PutInto(c)
  BY <1>2
<1>9. arr[m] \in Subscribed /\ c \in Subscribed
  BY <1>1, <1>4 DEF CasesOnce
<1>10. Subscribed' = Subscribed
  BY DEF Subscribed
<1>11. CasesOnce'
  <2>1. \A j \in 2..n : arr'[j] \in Subscribed
    BY <1>1, <1>7, <1>9 DEF CasesOnce
  <2>2. \A j, l \in 2..n : arr'[j] = arr'[l] => j = l
    BY <1>1, <1>4, <1>7 DEF CasesOnce
  <2> QED BY <1>10, <2>1, <2>2 DEF CasesOnce
<1>12. {arr'[j] : j \in 2..n} = {arr[j] : j \in 2..n}
  <2>1. \A j \in 2..n : \E l \in 2..n : arr'[j] = arr[l]
    BY <1>4, <1>7
  <2>2. \A j \in 2..n : \E l \in 2..n : arr[j] = arr'[l]
    <3> TAKE j \in 2..n
    <3>1. CASE j = k
      <4>1. arr'[m] = arr[j]
        BY <1>4, <1>7, <3>1
      <4> QED BY <1>4, <4>1
    <3>2. CASE j # k /\ j = m
      <4>1. arr'[k] = arr[j]
        BY <1>4, <1>7, <3>2
      <4> QED BY <1>4, <4>1
    <3>3. CASE j # k /\ j # m
      BY <1>7, <3>3
    <3> QED BY <3>1, <3>2, <3>3
  <2> QED BY <2>1, <2>2
<1>13. ListsApart'
  <2> SUFFICES ASSUME NEW j \in 2..n, NEW l \in 1..Len(inbox) PROVE arr'[j] # inbox[l]
    BY DEF ListsApart
  <2>1. PICK h \in 2..n : arr'[j] = arr[h]
    BY <1>12
  <2> QED BY <1>1, <2>1 DEF ListsApart
<1>14. InboxOnce'
  BY <1>1, <1>10 DEF InboxOnce
<1>15. ListsComplete'
  <2> SUFFICES ASSUME NEW s \in Subscribed PROVE InCases(s)' \/ InInbox(s)'
    BY <1>10 DEF ListsComplete
  <2>1. CASE InInbox(s)
    BY <2>1 DEF InInbox
  <2>2. CASE InCases(s)
    <3>1. s \in {arr[j] : j \in 2..n}
      BY <2>2 DEF InCases
    <3>2. s \in {arr'[j] : j \in 2..n}
      BY <1>12, <3>1
    <3> QED BY <3>2 DEF InCases
  <2> QED BY <1>1, <2>1, <2>2 DEF ListsComplete
<1>16. ListsInv'
  BY <1>4, <1>6, <1>11, <1>13, <1>14, <1>15, <1>1 DEF ListsInv
<1>17. CountInv'
  <2>1. /\ roster = {arr[j] : j \in 2..n}
        /\ \A s \in Served : sent[s] # <<>> /\ Last(sent[s]) = turn
        /\ IsFiniteSet(Served) /\ nsent = Cardinality(Served)
    BY DEF Kept, CountInv
  <2>2. Served' = Served \cup {c}
    <3>1. Served' = {arr'[j] : j \in m..n}
      BY <1>4, <1>6 DEF Served
    <3>2. arr'[m] = c
      BY <1>4, <1>7
    <3>3. \A j \in m + 1..n : arr'[j] = arr[j]
      BY <1>4, <1>7
    <3>4. m..n = {m} \cup m + 1..n
      BY <1>4
    <3> QED BY <3>1, <3>2, <3>3, <3>4 DEF Served
  <2>3. c \notin Served
    <3> SUFFICES ASSUME NEW j \in m + 1..n, arr[j] = c PROVE FALSE
      BY DEF Served
    <3>1. j \in 2..n /\ j # k
      BY <1>4
    <3> QED BY <1>1, <1>4, <3>1 DEF CasesOnce
  <2>4. IsFiniteSet(Served') /\ Cardinality(Served') = Cardinality(Served) + 1
    BY <2>1, <2>2, <2>3, FS_AddElement
  <2>5. sent' = [sent EXCEPT ![c] = Append(@, turn)] /\ sent'[c] # <<>> /\ Last(sent'[c]) = turn
    <3> HIDE DEF c
    <3> QED BY <1>8, PutIntoFacts DEF TypeInv
  <2>6. \A s \in Served' : sent'[s] # <<>> /\ Last(sent'[s]) = turn'
    <3> TAKE s \in Served'
    <3>1. CASE s = c
      BY <2>5, <3>1
    <3>2. CASE s # c
      <4>1. s \in Served
        BY <2>2, <3>2
      <4>2. sent'[s] = sent[s]
        BY <2>5, <3>2 DEF TypeInv, TypeOK
      <4> QED BY <2>1, <4>1, <4>2
    <3> QED BY <3>1, <3>2
  <2>7. roster' = {arr'[j] : j \in 2..n'}
    BY <1>12, <2>1
  <2> QED BY <2>1, <2>4, <2>6, <2>7 DEF CountInv
<1> QED BY <1>16, <1>17 DEF Kept

LEMMA TrySendKept == ASSUME TypeInv, Kept, NEW p \in Senders, TrySend(p) PROVE Kept'
<1>1. spc[p] = "try" /\ idx < m /\ idx \in Nat /\ idx >= 1 /\ m \in Nat
  BY DEF TrySend, TypeInv, TypeOK, ListsTyped
<1>2. lock = p /\ turn \in 1..MaxSends
  BY <1>1, TurnTaken DEF Holding
<1>3. CASE ~intact
  BY <1>3, RemovedKept DEF TrySend
<1>4. CASE intact /\ Delivers(idx)
  <2>1. /\ Case(idx) \in Subs /\ Ready(Case(idx)) /\ PutInto(Case(idx)) /\ Deactivate(idx)
        /\ nsent' = nsent + 1 /\ UNCHANGED <<inbox, n, lock, sub, turn, roster, intact>>
    BY <1>4 DEF TrySend, Delivers
  <2>2. idx \in 1..m - 1
    BY <1>1
  <2> QED BY <1>2, <1>4, <2>1, <2>2, ServeKept
<1>5. CASE ~Delivers(idx)
  <2>1. Subscribed' = Subscribed
    BY DEF TrySend, Subscribed
  <2> QED BY <1>5, <2>1, SameKept DEF TrySend, chanVars
<1> QED BY <1>3, <1>4, <1>5

LEMMA SelectSendKept ==
  ASSUME TypeInv, Kept, NEW p \in Senders, NEW i \in 1..m - 1, SelectSend(p, i) PROVE Kept'
<1>1. lock = p /\ turn \in 1..MaxSends
  BY TurnTaken DEF SelectSend, Holding
<1>2. CASE ~intact
  BY <1>2, RemovedKept DEF SelectSend
<1>3. CASE intact
  <2>1. /\ Case(i) \in Subs /\ Ready(Case(i)) /\ PutInto(Case(i)) /\ Deactivate(i)
        /\ nsent' = nsent + 1 /\ UNCHANGED <<inbox, n, lock, sub, turn, roster, intact>>
    BY DEF SelectSend, Delivers
  <2> QED BY <1>1, <1>3, <2>1, ServeKept
<1> QED BY <1>2, <1>3

(* No copy of the receive case is among the cases.                         *)
LEMMA SelectStrayKept ==
  ASSUME TypeInv, Kept, NEW p \in Senders, NEW s \in Subs, NEW i \in 1..m - 1, SelectStray(p, s, i)
  PROVE  ~intact /\ Kept'
<1>1. ASSUME intact PROVE FALSE
  <2>1. CasesOnce /\ old = <<>> /\ m <= n /\ n \in Nat /\ m \in Nat
    BY <1>1 DEF Kept, ListsInv, TypeInv, TypeOK
  <2>2. Case(i) = arr[i + 1] /\ i + 1 \in 2..n
    BY <2>1 DEF Case, CasesArray
  <2>3. Case(i) \in Subs
    BY <2>1, <2>2 DEF CasesOnce, Subscribed
  <2> QED BY <2>3, CellsAssumption DEF SelectStray
<1> QED BY <1>1, RemovedKept DEF SelectStray

LEMMA SendReturnKept == ASSUME TypeInv, Kept, NEW p \in Senders, SendReturn(p) PROVE Kept'
<1>1. CASE ~intact
  BY <1>1, RemovedKept DEF SendReturn
<1>2. CASE intact
  <2>1. CasesOnce /\ InboxOnce /\ ListsApart /\ ListsComplete /\ n \in 1..Len(arr) /\ arr \in Seq(Cells)
    BY <1>2 DEF Kept, ListsInv, TypeInv, TypeOK
  <2>2. \A i \in 2..n : arr'[i] = arr[i]
    <3> TAKE i \in 2..n
    <3>1. arr[i] # RecvSet
      BY <2>1, CellsAssumption DEF CasesOnce, Subscribed
    <3>2. i \in 1..Len(arr)
      BY <2>1
    <3> QED BY <3>1, <3>2, DisarmedFacts DEF SendReturn, TypeInv
  <2>3. UNCHANGED <<inbox, n, sub, intact>> /\ m' = 1 /\ old' = <<>> /\ lock' = Nobody
    BY DEF SendReturn
  <2>4. Subscribed' = Subscribed
    BY <2>3 DEF Subscribed
  <2>5. CasesOnce' /\ InboxOnce' /\ ListsApart' /\ ListsComplete'
    BY <2>1, <2>2, <2>3, <2>4 DEF CasesOnce, InboxOnce, ListsApart, ListsComplete, InCases, InInbox
  <2>6. m' <= n'
    BY <2>1, <2>3
  <2> QED BY <2>3, <2>5, <2>6, NobodyAssumption DEF Kept, ListsInv, CountInv
<1> QED BY <1>1, <1>2

LEMMA KeptStep == TypeInv /\ Kept /\ [Next]_vars => Kept'
<1> SUFFICES ASSUME TypeInv, Kept, [Next]_vars PROVE Kept'
  OBVIOUS
<1> USE DEF listVars, callVars, chanVars
<1>1. CASE UNCHANGED vars
  BY <1>1, SameKept DEF vars, Subscribed
<1>2. ASSUME NEW p \in Senders, Send(p) PROVE Kept'
  <2>1. CASE SendCall(p)
    BY <2>1, SameKept DEF SendCall, Subscribed
  <2>2. CASE TriedAll(p)
    BY <2>2, SameKept DEF TriedAll, Subscribed
  <2>3. CASE SelectPanics(p)
    BY <2>3, SameKept DEF SelectPanics, Subscribed
  <2>4. ASSUME NEW s \in Subs, SelectRemove(p, s) PROVE Kept'
    <3>1. CASE Find(SendCases, s) = -1
      <4>1. Subscribed' = Subscribed
        BY <2>4 DEF SelectRemove, Subscribed, TypeInv, TypeOK
      <4> QED BY <2>4, <3>1, <4>1, SameKept DEF SelectRemove
    <3>2. CASE Find(SendCases, s) # -1
      BY <2>4, <3>2, RemovedKept DEF SelectRemove, DeleteCase
    <3> QED BY <3>1, <3>2
  <2> QED BY <1>2, <2>1, <2>2, <2>3, <2>4, TakeSendLockKept, TrySendKept, SelectSendKept, SelectStrayKept,
         SendReturnKept DEF Send, Select
<1>3. ASSUME NEW s \in Subs, Receive(s) PROVE Kept'
  BY <1>3, SameKept DEF Receive, Subscribed
<1>4. ASSUME NEW s \in Subs, Unsubscribe(s) PROVE Kept'
  <2>1. Subscribed' = Subscribed
    BY <1>4 DEF Unsubscribe, Subscribed, TypeInv, TypeOK
  <2> QED BY <1>4, <2>1, SameKept DEF Unsubscribe
<1>5. ASSUME NEW s \in Subs, RemoveFromInbox(s) PROVE Kept'
  <2>1. CASE Contains(inbox, s)
    BY <1>5, <2>1, RemovedKept DEF RemoveFromInbox
  <2>2. CASE ~Contains(inbox, s)
    <3>1. Subscribed' = Subscribed
      BY <1>5, <2>2 DEF RemoveFromInbox, Subscribed, TypeInv, TypeOK
    <3> QED BY <1>5, <2>2, <3>1, SameKept DEF RemoveFromInbox
  <2> QED BY <2>1, <2>2
<1>6. ASSUME NEW s \in Subs, RemoveLocked(s) PROVE Kept'
  <2>1. CASE Find(SendCases, s) = -1
    <3>1. Subscribed' = Subscribed
      BY <1>6, <2>1 DEF RemoveLocked, Subscribed, TypeInv, TypeOK
    <3>2. UNCHANGED <<arr, n, inbox, m, old, intact>> /\ lock' \notin Senders
      BY <1>6, <2>1, ActorsAssumption DEF RemoveLocked
    <3>3. ListsInv'
      BY <3>1, <3>2 DEF Kept, ListsInv, CasesOnce, InboxOnce, ListsApart, ListsComplete, InCases, InInbox
    <3> QED BY <3>2, <3>3 DEF Kept, CountInv
  <2>2. CASE Find(SendCases, s) # -1
    BY <1>6, <2>2, RemovedKept DEF RemoveLocked, DeleteCase
  <2> QED BY <2>1, <2>2
<1> QED BY <1>1, <1>2, <1>3, <1>4, <1>5, <1>6, SubscribeKept DEF Next

LEMMA Invariant == Spec => []IInv
<1>1. Init => IInv
  BY TypeInit, KeptInit DEF IInv, Kept
<1>2. IInv /\ [Next]_vars => IInv'
  BY TypeStep, KeptStep DEF IInv, Kept
<1> QED BY <1>1, <1>2, PTL DEF Spec

(* What the invariant says of the lists the code has.                      *)
LEMMA ListsSound == ASSUME IInv PROVE CaseListsSound
<1> SUFFICES ASSUME intact PROVE CaseListsSound
  BY DEF CaseListsSound
<1>1. /\ arr \in Seq(Cells) /\ n \in 1..Len(arr) /\ inbox \in Seq(Subs) /\ arr[1] = Recv
      /\ CasesOnce /\ InboxOnce /\ ListsApart /\ ListsComplete
  BY DEF IInv, TypeInv, TypeOK, ListsTyped, ListsInv
<1> DEFINE tail == Tail(SendCases)
           cases == tail \o inbox
<1>2. SendCases \in Seq(Cells) /\ Len(SendCases) = n /\ \A i \in 1..n : SendCases[i] = arr[i]
  BY SendCasesFacts DEF IInv, TypeInv
<1>3. tail \in Seq(Cells) /\ Len(tail) = n - 1 /\ \A i \in 1..n - 1 : tail[i] = arr[i + 1]
  <2>1. n \in Nat /\ n >= 1 /\ SendCases # <<>>
    BY <1>1, <1>2
  <2>2. tail \in Seq(Cells) /\ Len(tail) = n - 1 /\ \A i \in 1..n - 1 : tail[i] = SendCases[i + 1]
    BY <1>2, <2>1, HeadTailProperties
  <2> QED BY <1>2, <2>1, <2>2
<1> HIDE DEF tail
<1>4. inbox \in Seq(Cells)
  BY <1>1, SeqMonotonic DEF Cells
<1>5. /\ cases \in Seq(Cells) /\ Len(cases) = n - 1 + Len(inbox)
      /\ \A i \in 1..n - 1 : cases[i] = arr[i + 1]
      /\ \A i \in n..n - 1 + Len(inbox) : cases[i] = inbox[i - (n - 1)]
  <2>1. /\ cases \in Seq(Cells) /\ Len(cases) = Len(tail) + Len(inbox)
        /\ \A i \in 1..Len(tail) + Len(inbox) :
             cases[i] = IF i <= Len(tail) THEN tail[i] ELSE inbox[i - Len(tail)]
    BY <1>3, <1>4, ConcatProperties
  <2>2. n \in Nat /\ n >= 1 /\ Len(inbox) \in Nat
    BY <1>1
  <2> QED BY <1>3, <2>1, <2>2
<1> HIDE DEF cases
<1>6. n \in Nat /\ n >= 1 /\ Len(inbox) \in Nat /\ DOMAIN cases = 1..n - 1 + Len(inbox)
  BY <1>1, <1>5
<1>7. ASSUME NEW i \in DOMAIN cases
      PROVE  \/ i + 1 \in 2..n /\ cases[i] = arr[i + 1]
             \/ i - (n - 1) \in 1..Len(inbox) /\ cases[i] = inbox[i - (n - 1)]
  <2>1. i \in 1..n - 1 + Len(inbox) /\ i \in Nat
    BY <1>6
  <2>2. CASE i <= n - 1
    <3>1. i + 1 \in 2..n /\ i \in 1..n - 1
      BY <1>6, <2>1, <2>2
    <3> QED BY <1>5, <3>1
  <2>3. CASE i > n - 1
    <3>1. i - (n - 1) \in 1..Len(inbox) /\ i \in n..n - 1 + Len(inbox)
      BY <1>6, <2>1, <2>3
    <3> QED BY <1>5, <3>1
  <2> QED BY <1>6, <2>1, <2>2, <2>3
<1>8. ASSUME NEW i \in DOMAIN cases, NEW j \in DOMAIN cases, cases[i] = cases[j] PROVE i = j
  <2> DEFINE A(k) == k + 1 \in 2..n /\ cases[k] = arr[k + 1]
             B(k) == k - (n - 1) \in 1..Len(inbox) /\ cases[k] = inbox[k - (n - 1)]
  <2>1. (A(i) \/ B(i)) /\ (A(j) \/ B(j)) /\ i \in Int /\ j \in Int
    BY <1>6, <1>7
  <2>2. CASE A(i) /\ A(j)
    <3>1. i + 1 = j + 1
      BY <1>1, <1>8, <2>2 DEF CasesOnce
    <3> QED BY <2>1, <3>1
  <2>3. CASE B(i) /\ B(j)
    <3>1. i - (n - 1) = j - (n - 1)
      BY <1>1, <1>8, <2>3 DEF InboxOnce
    <3> QED BY <1>6, <2>1, <3>1
  <2>4. CASE A(i) /\ B(j)
    BY <1>1, <1>8, <2>4 DEF ListsApart
  <2>5. CASE B(i) /\ A(j)
    BY <1>1, <1>8, <2>5 DEF ListsApart
  <2> QED BY <2>1, <2>2, <2>3, <2>4, <2>5
<1>9. ToSet(cases) = Subscribed
  <2>1. ASSUME NEW i \in DOMAIN cases PROVE cases[i] \in Subscribed
    BY <1>1, <1>7 DEF CasesOnce, InboxOnce
  <2>2. ASSUME NEW s \in Subscribed PROVE \E i \in DOMAIN cases : cases[i] = s
    <3>1. CASE InCases(s)
      <4>1. PICK i \in 2..n : arr[i] = s
        BY <3>1 DEF InCases
      <4>2. i - 1 \in 1..n - 1 /\ (i - 1) + 1 = i /\ i - 1 \in DOMAIN cases
        BY <1>6
      <4>3. cases[i - 1] = s
        BY <1>5, <4>1, <4>2
      <4> QED BY <4>2, <4>3
    <3>2. CASE InInbox(s)
      <4>1. PICK j \in 1..Len(inbox) : inbox[j] = s
        BY <3>2 DEF InInbox
      <4> DEFINE i == n - 1 + j
      <4>2. i \in n..n - 1 + Len(inbox) /\ i - (n - 1) = j /\ i \in DOMAIN cases
        BY <1>6
      <4> HIDE DEF i
      <4>3. cases[i] = s
        BY <1>5, <4>1, <4>2
      <4> QED BY <4>2, <4>3
    <3> QED BY <1>1, <3>1, <3>2 DEF ListsComplete
  <2> QED BY <2>1, <2>2 DEF ToSet
<1> QED BY <1>1, <1>8, <1>9 DEF CaseListsSound, cases, tail, Subscribed

(* Every subscribed channel is in exactly one of the inbox and sendCases,  *)
(* once, as long as no channel has been removed.                           *)
THEOREM ListsSoundAlways == Spec => []CaseListsSound
BY Invariant, ListsSound, PTL

(* A Send that is about to return has put its value into every channel     *)
(* that was subscribed when it took sendLock, and counted them right.      *)
THEOREM CountsReceiversAlways == Spec => []SendCountsReceivers
<1>1. IInv => SendCountsReceivers
  <2> SUFFICES ASSUME IInv, NEW p \in Senders, spc[p] = "finish", intact
               PROVE  /\ nsent = Cardinality(roster)
                      /\ \A s \in roster : sent[s] # <<>> /\ Last(sent[s]) = turn
    BY DEF SendCountsReceivers
  <2>1. lock = p /\ m = 1
    BY DEF IInv, TypeInv, LockHeld, DoneServed, Holding
  <2>2. Served = roster
    BY <2>1 DEF IInv, CountInv, Served
  <2> QED BY <2>1, <2>2 DEF IInv, CountInv
<1> QED BY <1>1, Invariant, PTL

-----------------------------------------------------------------------------
(* The refinement: a feed is the broadcast of Broadcast.                   *)

Reached == [s \in Subs |-> IF sent[s] = <<>> THEN 0 ELSE Last(sent[s])]

(* What the current Send has still to reach: its cases after the first.    *)
LEMMA OutstandingCases ==
  IInv /\ intact /\ lock \in Senders => Outstanding = {arr[i] : i \in 2..m} /\ m \in 1..n
<1> SUFFICES ASSUME IInv, intact, lock \in Senders
             PROVE  Outstanding = {arr[i] : i \in 2..m} /\ m \in 1..n
  OBVIOUS
<1>1. CasesOnce /\ old = <<>> /\ m <= n /\ n \in Nat /\ m \in 1..Len(arr)
  BY DEF IInv, ListsInv, TypeInv, TypeOK, CasesArray
<1>2. m \in Nat /\ m >= 1
  BY <1>1
<1>3. \A i \in 2..m : arr[i] \in Subs
  BY <1>1, <1>2 DEF CasesOnce, Subscribed
<1>4. {Case(i) : i \in 1..m - 1} = {arr[i] : i \in 2..m}
  <2>1. \A i \in 1..m - 1 : Case(i) = arr[i + 1] /\ i + 1 \in 2..m
    BY <1>1, <1>2 DEF Case, CasesArray
  <2>2. \A i \in 2..m : Case(i - 1) = arr[i] /\ i - 1 \in 1..m - 1
    <3> TAKE i \in 2..m
    <3>1. (i - 1) + 1 = i /\ i - 1 \in 1..m - 1
      BY <1>2
    <3> QED BY <1>1, <3>1 DEF Case, CasesArray
  <2> QED BY <2>1, <2>2
<1>5. {arr[i] : i \in 2..m} \cap Subs = {arr[i] : i \in 2..m}
  BY <1>3
<1>6. Outstanding = {arr[i] : i \in 2..m}
  BY <1>4, <1>5 DEF Outstanding
<1> QED BY <1>1, <1>2, <1>6

LEMMA OutstandingNext ==
  (IInv /\ intact /\ lock \in Senders => Outstanding = {arr[i] : i \in 2..m} /\ m \in 1..n)'
BY OutstandingCases, PTL

LEMMA Stutters ==
  ASSUME Subscribed' = Subscribed, UNCHANGED <<turn, sent, intact>>, Outstanding' = Outstanding,
         (lock \in Senders)' = (lock \in Senders)
  PROVE  UNCHANGED Promise!vars
<1>2. [s \in Subs |-> IF sent[s] = <<>> THEN 0 ELSE Last(sent[s])]' =
      [s \in Subs |-> IF sent[s] = <<>> THEN 0 ELSE Last(sent[s])]
  BY Zenon
<1> QED BY <1>2, Zenon DEF Promise!vars, Subscribed

(* A step that leaves the Send and its cases alone.                        *)
LEMMA SameStutters ==
  ASSUME Subscribed' = Subscribed, UNCHANGED <<turn, sent, intact, m, arr, old, lock>>
  PROVE  UNCHANGED Promise!vars
<1>1. Outstanding' = Outstanding
  BY DEF Outstanding, Case, CasesArray
<1> QED BY <1>1, Stutters

LEMMA RefinedInit == ASSUME Init PROVE Promise!Init
<1>1. Outstanding = {} /\ ~(lock \in Senders)
  BY NobodyAssumption DEF Init, Outstanding
<1>2. {s \in Subs : sub[s] \notin {"none", "refused"}} = {}
  BY DEF Init
<1>3. [s \in Subs |-> IF sent[s] = <<>> THEN 0 ELSE Last(sent[s])] = [s \in Subs |-> 0]
  BY DEF Init
<1>4. (lock \in Senders) = FALSE
  BY <1>1
<1> QED BY <1>1, <1>2, <1>3, <1>4 DEF Promise!Init, Init

LEMMA RefinedSubscribe == ASSUME IInv, NEW s \in Subs, Subscribe(s) PROVE [Promise!Next]_Promise!vars
<1>1. sub \in [Subs -> SubStates] /\ sub[s] = "none"
  BY DEF IInv, TypeInv, TypeOK, Subscribe
<1>2. UNCHANGED <<turn, sent, intact, m, arr, old, lock>>
  BY DEF Subscribe, callVars, chanVars
<1>3. CASE ~TypeChecks(ElemType[s])
  <2>1. Subscribed' = Subscribed
    BY <1>1, <1>3 DEF Subscribed, Subscribe
  <2> QED BY <1>2, <2>1, SameStutters
<1>4. CASE TypeChecks(ElemType[s])
  <2>1. Subscribed' = Subscribed \cup {s} /\ s \notin Subscribed
    BY <1>1, <1>4 DEF Subscribed, Subscribe
  <2>2. Outstanding' = Outstanding /\ (lock \in Senders)' = (lock \in Senders)
    BY <1>2 DEF Outstanding, Case, CasesArray
  <2>3. Promise!Join(s)
    BY <1>2, <2>1, <2>2, Zenon DEF Promise!Join, Subscribed
  <2> QED BY <2>3 DEF Promise!Next
<1> QED BY <1>3, <1>4

LEMMA RefinedTakeSendLock ==
  ASSUME IInv, IInv', intact, NEW p \in Senders, NEW t \in Types, TakeSendLock(p, t)
  PROVE  [Promise!Next]_Promise!vars
<1>1. lock = Nobody /\ lock \notin Senders /\ UNCHANGED <<sub, sent, intact>>
  BY NobodyAssumption DEF TakeSendLock, chanVars
<1>2. Subscribed' = Subscribed
  BY <1>1 DEF Subscribed
<1>3. CASE ~TypeChecks(t)
  <2>1. lock' = lock /\ turn' = turn
    BY <1>3 DEF TakeSendLock
  <2>2. Outstanding' = Outstanding
    BY <1>1, <2>1 DEF Outstanding
  <2> QED BY <1>1, <1>2, <2>1, <2>2, Stutters
<1>4. CASE TypeChecks(t)
  <2>1. lock' = p /\ m' = n' /\ turn' = turn + 1 /\ inbox' = <<>>
    BY <1>4 DEF TakeSendLock
  <2>2. Outstanding' = {arr'[i] : i \in 2..m'}
    BY <1>1, <2>1, OutstandingNext
  <2>3. CasesOnce' /\ ListsComplete' /\ Len(inbox') = 0
    BY <1>1, <2>1 DEF IInv, ListsInv
  <2>4. Outstanding' = Subscribed
    <3>1. ASSUME NEW s \in Subscribed PROVE s \in Outstanding'
      <4>1. InCases(s)'
        BY <1>2, <2>3 DEF ListsComplete, InInbox
      <4> QED BY <2>1, <2>2, <4>1 DEF InCases
    <3>2. ASSUME NEW s \in Outstanding' PROVE s \in Subscribed
      BY <1>2, <2>1, <2>2, <2>3 DEF CasesOnce
    <3> QED BY <3>1, <3>2
  <2>5. (lock \in Senders)' = TRUE
    BY <2>1
  <2>6. Promise!Begin
    BY <1>1, <1>2, <2>1, <2>4, <2>5, Zenon DEF Promise!Begin, Subscribed
  <2> QED BY <2>6 DEF Promise!Next
<1> QED BY <1>3, <1>4

(* A delivery.                                                             *)
LEMMA RefinedServe ==
  ASSUME IInv, IInv', intact, NEW p \in Senders, lock = p, NEW i \in 1..m - 1,
         Deactivate(i), Case(i) \in Subs, Ready(Case(i)), PutInto(Case(i)),
         turn \in 1..MaxSends, UNCHANGED <<inbox, n, lock, sub, turn, roster, intact>>
  PROVE  \E s \in Subs : Promise!Deliver(s)
<1>1. CasesOnce /\ old = <<>> /\ m <= n /\ n \in 1..Len(arr) /\ m \in 1..Len(arr) /\ arr \in Seq(Cells)
  BY DEF IInv, ListsInv, TypeInv, TypeOK, CasesArray
<1>0. PICK c \in Subs : c = Case(i)
  OBVIOUS
<1> DEFINE k == i + 1
<1>2. c = arr[k] /\ k \in 2..m /\ k \in Nat /\ m \in Nat /\ n \in Nat /\ n <= Len(arr)
  BY <1>0, <1>1 DEF Case, CasesArray
<1>3. m' = m - 1 /\ \A j \in 1..Len(arr) : arr'[j] = IF j = m THEN arr[k] ELSE IF j = k THEN arr[m] ELSE arr[j]
  BY <1>1, DeactivateFacts DEF IInv, TypeInv
<1> HIDE DEF k
<1>4. c \in Subs /\ Ready(c) /\ PutInto(c)
  BY <1>0 DEF Ready, PutInto
<1>5. Outstanding = {arr[j] : j \in 2..m}
  BY OutstandingCases
<1>6. Outstanding' = {arr'[j] : j \in 2..m - 1}
  BY <1>3, OutstandingNext
<1>7. c \in Outstanding
  BY <1>2, <1>5
<1>8. Outstanding' = Outstanding \ {c}
  <2>1. ASSUME NEW j \in 2..m - 1 PROVE arr'[j] \in Outstanding /\ arr'[j] # c
    <3>1. j \in 1..Len(arr) /\ j # m /\ j \in 2..m /\ m \in 2..n /\ j \in 2..n /\ k \in 2..n /\ m \in 2..m
      BY <1>1, <1>2
    <3>2. CASE j = k
      <4>1. arr'[j] = arr[m]
        BY <1>3, <3>1, <3>2
      <4>2. arr[m] # arr[k]
        BY <1>1, <3>1, <3>2 DEF CasesOnce
      <4> QED BY <1>2, <1>5, <3>1, <4>1, <4>2
    <3>3. CASE j # k
      <4>1. arr'[j] = arr[j]
        BY <1>3, <3>1, <3>3
      <4>2. arr[j] # arr[k]
        BY <1>1, <3>1, <3>3 DEF CasesOnce
      <4> QED BY <1>2, <1>5, <3>1, <4>1, <4>2
    <3> QED BY <3>2, <3>3
  <2>2. ASSUME NEW j \in 2..m, arr[j] # c PROVE \E h \in 2..m - 1 : arr'[h] = arr[j]
    <3>1. j # k /\ j \in 1..Len(arr) /\ k \in 1..Len(arr) /\ j \in Nat
      BY <1>1, <1>2, <2>2
    <3>2. CASE j = m
      <4>1. k \in 2..m - 1 /\ k # m
        BY <1>2, <3>1, <3>2
      <4>2. arr'[k] = arr[j]
        BY <1>3, <3>1, <3>2, <4>1
      <4> QED BY <4>1, <4>2
    <3>3. CASE j # m
      <4>1. j \in 2..m - 1
        BY <1>2, <3>1, <3>3
      <4>2. arr'[j] = arr[j]
        BY <1>3, <3>1, <3>3
      <4> QED BY <4>1, <4>2
    <3> QED BY <3>2, <3>3
  <2> QED BY <1>5, <1>6, <2>1, <2>2
<1>9. sent' = [sent EXCEPT ![c] = Append(@, turn)] /\ sent'[c] # <<>> /\ Last(sent'[c]) = turn
      /\ sent \in [Subs -> Seq(1..MaxSends)]
  BY <1>4, PutIntoFacts DEF IInv, TypeInv, TypeOK
<1>10. Reached' = [Reached EXCEPT ![c] = turn]
  <2>1. Reached'[c] = turn
    BY <1>4, <1>9 DEF Reached
  <2>2. \A s \in Subs : s # c => Reached'[s] = Reached[s]
    BY <1>9 DEF Reached
  <2>3. DOMAIN Reached' = Subs /\ DOMAIN Reached = Subs /\ Reached' = [s \in Subs |-> Reached'[s]]
    BY DEF Reached
  <2>4. Reached = [s \in Subs |-> Reached[s]]
    BY DEF Reached
  <2> HIDE DEF Reached
  <2> QED BY <1>4, <2>1, <2>2, <2>3, <2>4
<1>11. (lock \in Senders)' = (lock \in Senders) /\ lock \in Senders
  OBVIOUS
<1>12. UNCHANGED {s \in Subs : sub[s] \notin {"none", "refused"}}
  OBVIOUS
<1>13. Promise!Deliver(c)
  BY <1>7, <1>8, <1>10, <1>11, <1>12, Zenon DEF Promise!Deliver, Reached
<1> QED BY <1>13

LEMMA RefinedSendReturn ==
  ASSUME IInv, intact, NEW p \in Senders, SendReturn(p) PROVE [Promise!Next]_Promise!vars
<1>1. lock = p /\ m = 1 /\ lock' \notin Senders /\ UNCHANGED <<turn, sub, sent, intact>>
  BY NobodyAssumption DEF IInv, TypeInv, LockHeld, DoneServed, Holding, SendReturn, chanVars
<1>2. Outstanding = {} /\ Outstanding' = {}
  BY <1>1, OutstandingCases DEF Outstanding
<1>3. (lock \in Senders) /\ (lock \in Senders)' = FALSE
  BY <1>1
<1>4. Promise!End
  BY <1>1, <1>2, <1>3, Zenon DEF Promise!End
<1> QED BY <1>4 DEF Promise!Next

(* After the first removal nothing is promised any more.                   *)
LEMMA RefinedRemoved == ASSUME IInv', ~intact' PROVE [Promise!Next]_Promise!vars
<1>1. intact' = FALSE
  BY DEF IInv, TypeInv, TypeOK
<1> QED BY <1>1 DEF Promise!Next

LEMMA RefinedSend ==
  ASSUME IInv, IInv', intact, NEW p \in Senders, Send(p) PROVE [Promise!Next]_Promise!vars
<1> USE DEF listVars, callVars, chanVars
<1>1. CASE SendCall(p)
  BY <1>1, SameStutters DEF SendCall, Subscribed
<1>2. CASE TriedAll(p)
  BY <1>2, SameStutters DEF TriedAll, Subscribed
<1>3. CASE SelectPanics(p)
  BY <1>3, SameStutters DEF SelectPanics, Subscribed
<1>4. ASSUME NEW i \in 1..m - 1, SelectSend(p, i) PROVE [Promise!Next]_Promise!vars
  <2>1. lock = p /\ turn \in 1..MaxSends
    BY <1>4, TurnTaken DEF SelectSend, Holding, IInv
  <2>2. /\ Case(i) \in Subs /\ Ready(Case(i)) /\ PutInto(Case(i)) /\ Deactivate(i)
        /\ UNCHANGED <<inbox, n, lock, sub, turn, roster, intact>>
    BY <1>4 DEF SelectSend, Delivers
  <2>3. \E s \in Subs : Promise!Deliver(s)
    BY <1>4, <2>1, <2>2, RefinedServe
  <2> QED BY <2>3 DEF Promise!Next
<1>5. ASSUME TrySend(p) PROVE [Promise!Next]_Promise!vars
  <2>1. CASE Delivers(idx)
    <3>1. spc[p] = "try" /\ idx \in 1..m - 1
      BY <1>5 DEF TrySend, IInv, TypeInv, TypeOK, ListsTyped
    <3>2. lock = p /\ turn \in 1..MaxSends
      BY <3>1, TurnTaken DEF Holding, IInv
    <3>3. PICK i \in 1..m - 1 : i = idx
      BY <3>1
    <3>4. /\ Case(i) \in Subs /\ Ready(Case(i)) /\ PutInto(Case(i)) /\ Deactivate(i)
          /\ UNCHANGED <<inbox, n, lock, sub, turn, roster, intact>>
      BY <1>5, <2>1, <3>3 DEF TrySend, Delivers
    <3>5. \E s \in Subs : Promise!Deliver(s)
      BY <3>2, <3>4, RefinedServe
    <3> QED BY <3>5 DEF Promise!Next
  <2>2. CASE ~Delivers(idx)
    BY <1>5, <2>2, SameStutters DEF TrySend, Subscribed
  <2> QED BY <2>1, <2>2
<1>6. ASSUME NEW s \in Subs, SelectRemove(p, s) PROVE [Promise!Next]_Promise!vars
  <2>1. CASE Find(SendCases, s) = -1
    <3>1. Subscribed' = Subscribed
      BY <1>6 DEF SelectRemove, Subscribed, IInv, TypeInv, TypeOK
    <3>2. UNCHANGED <<turn, sent, intact, m, arr, old, lock>>
      BY <1>6, <2>1 DEF SelectRemove
    <3> QED BY <3>1, <3>2, SameStutters
  <2>2. CASE Find(SendCases, s) # -1
    BY <1>6, <2>2, RefinedRemoved DEF SelectRemove, DeleteCase
  <2> QED BY <2>1, <2>2
<1>7. ASSUME NEW s \in Subs, NEW i \in 1..m - 1, SelectStray(p, s, i) PROVE FALSE
  BY <1>7, SelectStrayKept DEF IInv, Kept
<1> QED BY <1>1, <1>2, <1>3, <1>4, <1>5, <1>6, <1>7, RefinedTakeSendLock, RefinedSendReturn DEF Send, Select

LEMMA RefinedStep == IInv /\ IInv' /\ [Next]_vars => [Promise!Next]_Promise!vars
<1> SUFFICES ASSUME IInv, IInv', [Next]_vars PROVE [Promise!Next]_Promise!vars
  OBVIOUS
<1> USE DEF listVars, callVars, chanVars
<1>1. CASE UNCHANGED vars
  BY <1>1, SameStutters DEF vars, Subscribed
<1>2. ASSUME NEW p \in Senders, Send(p) PROVE [Promise!Next]_Promise!vars
  <2>1. CASE intact
    BY <1>2, <2>1, RefinedSend
  <2>2. CASE ~intact
    <3>1. ~intact'
      BY <1>2, <2>2 DEF Send, Select, SendCall, TakeSendLock, TrySend, TriedAll, SelectPanics, SelectSend,
         SelectRemove, SelectStray, SendReturn, DeleteCase
    <3> QED BY <3>1, RefinedRemoved
  <2> QED BY <2>1, <2>2
<1>3. ASSUME NEW s \in Subs, Receive(s) PROVE [Promise!Next]_Promise!vars
  BY <1>3, SameStutters DEF Receive, Subscribed
<1>4. ASSUME NEW s \in Subs, Unsubscribe(s) PROVE [Promise!Next]_Promise!vars
  <2>1. Subscribed' = Subscribed
    BY <1>4 DEF Unsubscribe, Subscribed, IInv, TypeInv, TypeOK
  <2> QED BY <1>4, <2>1, SameStutters DEF Unsubscribe
<1>5. ASSUME NEW s \in Subs, RemoveFromInbox(s) PROVE [Promise!Next]_Promise!vars
  <2>1. CASE Contains(inbox, s)
    BY <1>5, <2>1, RefinedRemoved DEF RemoveFromInbox
  <2>2. CASE ~Contains(inbox, s)
    <3>1. Subscribed' = Subscribed
      BY <1>5, <2>2 DEF RemoveFromInbox, Subscribed, IInv, TypeInv, TypeOK
    <3> QED BY <1>5, <2>2, <3>1, SameStutters DEF RemoveFromInbox
  <2> QED BY <2>1, <2>2
<1>6. ASSUME NEW s \in Subs, RemoveLocked(s) PROVE [Promise!Next]_Promise!vars
  <2>1. CASE Find(SendCases, s) = -1
    <3>1. Subscribed' = Subscribed
      BY <1>6, <2>1 DEF RemoveLocked, Subscribed, IInv, TypeInv, TypeOK
    <3>2. UNCHANGED <<turn, sent, intact>> /\ lock \notin Senders /\ lock' \notin Senders
      BY <1>6, <2>1, NobodyAssumption, ActorsAssumption DEF RemoveLocked
    <3>3. Outstanding' = Outstanding /\ (lock \in Senders)' = (lock \in Senders)
      BY <3>2 DEF Outstanding
    <3> QED BY <3>1, <3>2, <3>3, Stutters
  <2>2. CASE Find(SendCases, s) # -1
    BY <1>6, <2>2, RefinedRemoved DEF RemoveLocked, DeleteCase
  <2> QED BY <2>1, <2>2
<1> QED BY <1>1, <1>2, <1>3, <1>4, <1>5, <1>6, RefinedSubscribe DEF Next

(* A feed implements the totally ordered broadcast: every Send reaches     *)
(* exactly the channels subscribed when it took sendLock, once each, and   *)
(* all of them see the Sends in one order, until a channel is removed.     *)
THEOREM FeedIsBroadcast == Spec => FeedImplementsBroadcast
<1>1. Init => Promise!Init
  BY RefinedInit
<1>2. IInv /\ IInv' /\ [Next]_vars => [Promise!Next]_Promise!vars
  BY RefinedStep
<1> QED BY <1>1, <1>2, Invariant, PTL DEF Spec, FeedImplementsBroadcast, Promise!Spec

=============================================================================
