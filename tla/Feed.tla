-------------------------------- MODULE Feed --------------------------------
(***************************************************************************)
(* event.Feed (event/feed.go): one-to-many delivery over channels.  A Send *)
(* holds sendLock while it hands its value to every subscribed channel,    *)
(* first by trying each channel without waiting and then by a select over  *)
(* all that are left; an Unsubscribe removes its channel from the inbox,   *)
(* or takes sendLock when no Send is under way, or interrupts the select   *)
(* of the Send that is.                                                    *)
(*                                                                         *)
(* sendCases and the slice "cases" of a Send share one backing array, and  *)
(* caseList.delete writes to it in place or moves to a larger one; both    *)
(* are kept as they are, because what delete leaves behind depends on it.  *)
(***************************************************************************)
EXTENDS Integers, Sequences, FiniteSets, SequencesExt

CONSTANTS
  Subs,       \* subscriptions, each with a channel of its own
  Senders,    \* goroutines calling Send
  Leavers,    \* the subscriptions that are unsubscribed at some point
  Types,      \* element types of the channels and of the values
  ElemType,   \* ElemType[s]: the element type of s's channel
  Cap,        \* Cap[s]: the buffer capacity of s's channel
  NoType,     \* f.etype before it is set
  Nobody,     \* sendLock is free
  MaxSends    \* bound: Sends that get as far as taking sendLock

ASSUME LeaversAssumption == Leavers \subseteq Subs
ASSUME ChannelAssumption == ElemType \in [Subs -> Types] /\ Cap \in [Subs -> Nat]
ASSUME NobodyAssumption == Nobody \notin Senders \cup Subs /\ NoType \notin Types
ASSUME MaxSendsAssumption == MaxSends \in Nat
ASSUME ActorsAssumption == Senders \cap Subs = {}

(* The first case receives from removeSub; a copy of it further on gets a  *)
(* Send value too, which reflect.Select refuses.  Empty: unused capacity.  *)
Recv == "recv"
RecvSet == "recv with Send value"
Empty == "empty"
Cells == Subs \cup {Recv, RecvSet, Empty}

ASSUME CellsAssumption == Subs \cap {Recv, RecvSet, Empty} = {}

VARIABLES
  etype,    \* f.etype
  inbox,    \* f.inbox
  arr,      \* the backing array of f.sendCases
  n,        \* len(f.sendCases)
  lock,     \* who holds sendLock: a sender, a subscription being removed, Nobody
  sub,      \* sub[s]: the life of subscription s
  spc,      \* spc[p]: where sender p is
  m,        \* len(cases) of the Send that holds the lock
  old,      \* the backing array of its cases, if no longer that of sendCases
  idx,      \* the index of its fast path, from 1 as in the code
  nsent,    \* its count of deliveries
  buf,      \* buf[s]: the buffer of s's channel
  hungry,   \* hungry[s]: a receiver waits on s's channel
  turn,     \* history: Sends that took sendLock; the value of a Send is its turn
  sent,     \* history: sent[s], the values put into s's channel
  roster,   \* history: the channels subscribed when the current Send began
  intact    \* history: no channel has been removed from a case list yet

listVars == <<etype, inbox, arr, n>>
callVars == <<m, old, idx, nsent>>
chanVars == <<buf, hungry, sent>>
vars == <<listVars, lock, sub, spc, callVars, chanVars, turn, roster, intact>>

SubStates == {"none", "refused", "live", "leaving", "waiting", "gone", "panicked"}
SenderStates == {"idle", "lock", "try", "select", "finish", "panicked"}

-----------------------------------------------------------------------------
(* caseList: find and delete with the indices of the code, from 0.         *)

Find(cs, s) ==
  IF Contains(cs, s)
    THEN (CHOOSE i \in DOMAIN cs : cs[i] = s /\ \A j \in 1..i - 1 : cs[j] # s) - 1
    ELSE -1

(* append(cs[:index], cs[:index+1]...): as many cases again, and one more. *)
Deleted(cs, index) == SubSeq(cs, 1, index) \o SubSeq(cs, 1, index + 1)

(* The array an append of more to the first len cells leaves: the same one *)
(* if its capacity suffices, else one at least twice as large.             *)
Appended(array, len, more) ==
  LET need == len + Len(more)
      cap == IF need <= Len(array) THEN Len(array)
             ELSE IF need > 2 * Len(array) THEN need ELSE 2 * Len(array)
  IN [i \in 1..cap |-> IF i \in len + 1..need THEN more[i - len]
                       ELSE IF i <= Len(array) THEN array[i] ELSE Empty]

Grows(array, len, more) == len + Len(more) > Len(array)

Swapped(array, i, j) == [array EXCEPT ![i] = array[j], ![j] = array[i]]

(* The cells of f.sendCases after the first, and of cases.                 *)
SendCases == SubSeq(arr, 1, n)
CasesArray == IF old = <<>> THEN arr ELSE old
Case(i) == CasesArray[i + 1]

Init ==
  /\ etype = NoType
  /\ inbox = <<>>
  /\ arr = <<Recv>> /\ n = 1
  /\ lock = Nobody
  /\ sub = [s \in Subs |-> "none"]
  /\ spc = [p \in Senders |-> "idle"]
  /\ m = 1 /\ old = <<>> /\ idx = 1 /\ nsent = 0
  /\ buf = [s \in Subs |-> <<>>]
  /\ hungry = [s \in Subs |-> FALSE]
  /\ turn = 0
  /\ sent = [s \in Subs |-> <<>>]
  /\ roster = {}
  /\ intact = TRUE

-----------------------------------------------------------------------------
(* Subscribe, and the owner of a channel that reads it.                    *)

TypeChecks(t) == etype \in {NoType, t}

Subscribe(s) ==
  /\ sub[s] = "none"
  /\ IF TypeChecks(ElemType[s])
       THEN /\ etype' = ElemType[s]
            /\ inbox' = Append(inbox, s)
            /\ sub' = [sub EXCEPT ![s] = "live"]
       ELSE /\ sub' = [sub EXCEPT ![s] = "refused"]   \* panic(feedTypeError)
            /\ UNCHANGED <<etype, inbox>>
  /\ UNCHANGED <<arr, n, lock, spc, callVars, chanVars, turn, roster, intact>>

Receive(s) ==
  /\ sub[s] \notin {"none", "refused"}
  /\ IF buf[s] # <<>>
       THEN buf' = [buf EXCEPT ![s] = Tail(@)] /\ UNCHANGED hungry
       ELSE hungry[s] = FALSE /\ hungry' = [hungry EXCEPT ![s] = TRUE] /\ UNCHANGED buf
  /\ UNCHANGED <<listVars, lock, sub, spc, callVars, sent, turn, roster, intact>>

(* Mutant: one value more than the buffer holds.                           *)
ReadyBeyondCap(s) == hungry[s] \/ Len(buf[s]) <= Cap[s]

Ready(s) == hungry[s] \/ Len(buf[s]) < Cap[s]

PutInto(s) ==
  /\ hungry' = [hungry EXCEPT ![s] = FALSE]
  /\ buf' = IF hungry[s] THEN buf ELSE [buf EXCEPT ![s] = Append(@, turn)]
  /\ sent' = [sent EXCEPT ![s] = Append(@, turn)]

-----------------------------------------------------------------------------
(* Unsubscribe: remove, once per subscription.                             *)

Unsubscribe(s) ==
  /\ s \in Leavers /\ sub[s] = "live"
  /\ sub' = [sub EXCEPT ![s] = "leaving"]
  /\ UNCHANGED <<listVars, lock, spc, callVars, chanVars, turn, roster, intact>>

RemoveFromInbox(s) ==
  /\ sub[s] = "leaving"
  /\ IF Contains(inbox, s)
       THEN /\ inbox' = Deleted(inbox, Find(inbox, s))
            /\ sub' = [sub EXCEPT ![s] = "gone"]
            /\ intact' = FALSE
       ELSE /\ sub' = [sub EXCEPT ![s] = "waiting"]
            /\ UNCHANGED <<inbox, intact>>
  /\ UNCHANGED <<etype, arr, n, lock, spc, callVars, chanVars, turn, roster>>

(* f.sendCases = f.sendCases.delete(index): a slice panics on index -1.    *)
DeleteCase(index) ==
  /\ arr' = Appended(arr, index, SubSeq(arr, 1, index + 1))
  /\ n' = 2 * index + 1
  /\ intact' = FALSE

(* No Send is under way: delete under sendLock and release it.             *)
RemoveLocked(s) ==
  /\ sub[s] = "waiting" /\ lock = Nobody
  /\ LET index == Find(SendCases, s) IN
       IF index = -1
         THEN /\ lock' = s
              /\ sub' = [sub EXCEPT ![s] = "panicked"]
              /\ UNCHANGED <<arr, n, intact>>
         ELSE /\ DeleteCase(index)
              /\ sub' = [sub EXCEPT ![s] = "gone"]
              /\ UNCHANGED lock
  /\ UNCHANGED <<etype, inbox, spc, callVars, chanVars, turn, roster>>

-----------------------------------------------------------------------------
(* Send.                                                                   *)

SendCall(p) ==
  /\ spc[p] = "idle"
  /\ turn + Cardinality({q \in Senders : spc[q] = "lock"}) < MaxSends
  /\ spc' = [spc EXCEPT ![p] = "lock"]
  /\ UNCHANGED <<listVars, lock, sub, callVars, chanVars, turn, roster, intact>>

(* Send values are set on every case after the first.                      *)
Armed(array) ==
  [i \in DOMAIN array |-> IF i > 1 /\ array[i] = Recv THEN RecvSet ELSE array[i]]
Disarmed(array) ==
  [i \in DOMAIN array |-> IF i \in 2..n /\ array[i] = RecvSet THEN Recv ELSE array[i]]

(* Mutant: the inbox is merged and not emptied.                            *)
TakeSendLockKeepsInbox(p, t) ==
  /\ spc[p] = "lock" /\ lock = Nobody /\ TypeChecks(t)
  /\ etype' = t
  /\ lock' = p
  /\ spc' = [spc EXCEPT ![p] = "try"]
  /\ n' = n + Len(inbox)
  /\ arr' = Armed(Appended(arr, n, inbox))
  /\ m' = n' /\ old' = <<>> /\ idx' = 1 /\ nsent' = 0
  /\ turn' = turn + 1
  /\ roster' = ToSet(SubSeq(arr', 1, n')) \cap Subs
  /\ UNCHANGED <<inbox, sub, chanVars, intact>>

(* The inbox is merged before the type of the value is looked at; a wrong  *)
(* type releases the lock and panics.                                      *)
TakeSendLock(p, t) ==
  /\ spc[p] = "lock" /\ lock = Nobody
  /\ inbox' = <<>>
  /\ n' = n + Len(inbox)
  /\ IF TypeChecks(t)
       THEN /\ etype' = t
            /\ lock' = p
            /\ spc' = [spc EXCEPT ![p] = "try"]
            /\ arr' = Armed(Appended(arr, n, inbox))
            /\ m' = n' /\ old' = <<>> /\ idx' = 1 /\ nsent' = 0
            /\ turn' = turn + 1
            /\ roster' = ToSet(SubSeq(arr', 1, n')) \cap Subs
       ELSE /\ arr' = Appended(arr, n, inbox)
            /\ spc' = [spc EXCEPT ![p] = "idle"]
            /\ UNCHANGED <<etype, lock, callVars, turn, roster>>
  /\ UNCHANGED <<sub, chanVars, intact>>

(* Mutant: the last case is cut off instead of the one that was served.    *)
DeactivateLast(i) ==
  /\ m' = m - 1
  /\ UNCHANGED <<arr, old>>

(* cases = cases.deactivate(i): behind the end of cases, in either array.  *)
Deactivate(i) ==
  /\ m' = m - 1
  /\ IF old = <<>> THEN arr' = Swapped(arr, i + 1, m) /\ UNCHANGED old
                   ELSE old' = Swapped(old, i + 1, m) /\ UNCHANGED arr

Delivers(i) == Case(i) \in Subs /\ Ready(Case(i))

(* The fast path: TrySend on one channel after the other.                  *)
TrySend(p) ==
  /\ spc[p] = "try" /\ idx < m
  /\ IF Delivers(idx)
       THEN /\ PutInto(Case(idx)) /\ Deactivate(idx)
            /\ nsent' = nsent + 1
            /\ UNCHANGED idx
       ELSE /\ idx' = idx + 1
            /\ UNCHANGED <<chanVars, arr, m, old, nsent>>
  /\ UNCHANGED <<etype, inbox, n, lock, sub, spc, turn, roster, intact>>

TriedAll(p) ==
  /\ spc[p] = "try" /\ idx >= m
  /\ spc' = [spc EXCEPT ![p] = IF m = 1 THEN "finish" ELSE "select"]
  /\ UNCHANGED <<listVars, lock, sub, callVars, chanVars, turn, roster, intact>>

(* reflect.Select refuses a receive case that has a Send value.            *)
Selectable == \A i \in 1..m - 1 : Case(i) # RecvSet

SelectPanics(p) ==
  /\ spc[p] = "select" /\ ~Selectable
  /\ spc' = [spc EXCEPT ![p] = "panicked"]
  /\ UNCHANGED <<listVars, lock, sub, callVars, chanVars, turn, roster, intact>>

TryAgain(p) == spc' = [spc EXCEPT ![p] = "try"] /\ idx' = 1

(* Mutant: a delivery by the select is not counted.                        *)
SelectSendUncounted(p, i) ==
  /\ spc[p] = "select" /\ Selectable
  /\ i < m /\ Delivers(i)
  /\ PutInto(Case(i)) /\ Deactivate(i)
  /\ TryAgain(p)
  /\ UNCHANGED <<etype, inbox, n, lock, nsent, sub, turn, roster, intact>>

SelectSend(p, i) ==
  /\ spc[p] = "select" /\ Selectable
  /\ i < m /\ Delivers(i)
  /\ PutInto(Case(i)) /\ Deactivate(i)
  /\ nsent' = nsent + 1
  /\ TryAgain(p)
  /\ UNCHANGED <<etype, inbox, n, lock, sub, turn, roster, intact>>

(* chosen == 0: a channel to remove.  cases shrinks, and is taken from     *)
(* sendCases anew, if the channel was still among its cases.               *)
SelectRemove(p, s) ==
  /\ spc[p] = "select" /\ Selectable /\ sub[s] = "waiting"
  /\ sub' = [sub EXCEPT ![s] = "gone"]
  /\ LET index == Find(SendCases, s) IN
       IF index = -1
         THEN /\ spc' = [spc EXCEPT ![p] = "panicked"]
              /\ UNCHANGED <<arr, n, m, old, idx, intact>>
         ELSE /\ DeleteCase(index)
              /\ IF index < m
                   THEN m' = m - 1 /\ old' = <<>>
                   ELSE m' = m /\ old' = IF old = <<>> /\ Grows(arr, index, SubSeq(arr, 1, index + 1))
                                           THEN arr ELSE old
              /\ TryAgain(p)
  /\ UNCHANGED <<etype, inbox, lock, nsent, chanVars, turn, roster>>

(* A copy of the first case receives the channel: it counts as a delivery. *)
SelectStray(p, s, i) ==
  /\ spc[p] = "select" /\ Selectable /\ sub[s] = "waiting"
  /\ i < m /\ Case(i) = Recv
  /\ sub' = [sub EXCEPT ![s] = "gone"]
  /\ Deactivate(i)
  /\ nsent' = nsent + 1
  /\ TryAgain(p)
  /\ UNCHANGED <<etype, inbox, n, lock, chanVars, turn, roster, intact>>

(* The Send values are forgotten, sendLock is released, nsent returned.    *)
SendReturn(p) ==
  /\ spc[p] = "finish"
  /\ arr' = Disarmed(arr)
  /\ lock' = Nobody
  /\ spc' = [spc EXCEPT ![p] = "idle"]
  /\ m' = 1 /\ old' = <<>> /\ idx' = 1 /\ nsent' = 0
  /\ UNCHANGED <<etype, inbox, n, sub, chanVars, turn, roster, intact>>

-----------------------------------------------------------------------------
(* Mutant: the select has no case for removeSub.                           *)
SelectSendsOnly(p) == SelectPanics(p) \/ \E i \in 1..m - 1 : SelectSend(p, i)

Select(p) ==
  \/ SelectPanics(p)
  \/ \E i \in 1..m - 1 : SelectSend(p, i)
  \/ \E s \in Subs : SelectRemove(p, s)
  \/ \E s \in Subs, i \in 1..m - 1 : SelectStray(p, s, i)

Send(p) ==
  \/ SendCall(p)
  \/ \E t \in Types : TakeSendLock(p, t)
  \/ TrySend(p)
  \/ TriedAll(p)
  \/ Select(p)
  \/ SendReturn(p)

Next ==
  \/ \E p \in Senders : Send(p)
  \/ \E s \in Subs : Subscribe(s) \/ Receive(s)
  \/ \E s \in Subs : Unsubscribe(s) \/ RemoveFromInbox(s) \/ RemoveLocked(s)

Spec == Init /\ [][Next]_vars

(* A goroutine inside Send or Unsubscribe runs on whenever it can.  Nobody *)
(* has to call anything, and reading a channel is left to each property.   *)
Fairness ==
  /\ \A p \in Senders :
       /\ SF_vars(\E t \in Types : TakeSendLock(p, t))   \* receivers of a channel queue up
       /\ WF_vars(TrySend(p) \/ TriedAll(p) \/ SendReturn(p))
       /\ WF_vars(Select(p))
  /\ \A s \in Subs : WF_vars(RemoveFromInbox(s) \/ RemoveLocked(s))

FairSpec == Spec /\ Fairness

-----------------------------------------------------------------------------
(* Types; the channels that got past Subscribe have the type of the feed.  *)
TypeOK ==
  /\ etype \in Types \cup {NoType}
  /\ inbox \in Seq(Subs)
  /\ arr \in Seq(Cells) /\ n \in 1..Len(arr)
  /\ lock \in Senders \cup Subs \cup {Nobody}
  /\ sub \in [Subs -> SubStates]
  /\ spc \in [Senders -> SenderStates]
  /\ old \in Seq(Cells) /\ m \in 1..Len(CasesArray)
  /\ idx \in Nat /\ nsent \in Nat
  /\ buf \in [Subs -> Seq(1..MaxSends)] /\ \A s \in Subs : Len(buf[s]) <= Cap[s]
  /\ hungry \in [Subs -> BOOLEAN]
  /\ turn \in 0..MaxSends
  /\ sent \in [Subs -> Seq(1..MaxSends)]
  /\ roster \subseteq Subs
  /\ intact \in BOOLEAN
  /\ \A s \in Subs : sub[s] \notin {"none", "refused"} => ElemType[s] = etype

(* Every subscribed channel is in exactly one of the inbox and sendCases,  *)
(* once, behind the receive case; so a Send cannot miss or repeat one, and *)
(* find in either list is the place to delete.                             *)
CaseListsSound ==
  intact =>
    LET cases == Tail(SendCases) \o inbox
    IN /\ arr[1] = Recv
       /\ \A i, j \in DOMAIN cases : cases[i] = cases[j] => i = j
       /\ ToSet(cases) = {s \in Subs : sub[s] \notin {"none", "refused"}}

(* When Send is about to return, each channel that was subscribed when it  *)
(* took the lock has its value, and the count it returns is theirs.        *)
SendCountsReceivers ==
  \A p \in Senders : spc[p] = "finish" /\ intact =>
    /\ nsent = Cardinality(roster)
    /\ \A s \in roster : sent[s] # <<>> /\ Last(sent[s]) = turn

(* A feed is a totally ordered broadcast: every Send reaches exactly the   *)
(* channels subscribed when it took sendLock, once, and all channels see   *)
(* the Sends in the same order, as long as none has been removed.          *)
Outstanding ==
  IF lock \in Senders THEN {Case(i) : i \in 1..m - 1} \cap Subs ELSE {}

Promise == INSTANCE Broadcast WITH
  Members <- Subs,
  round <- turn,
  joined <- {s \in Subs : sub[s] \notin {"none", "refused"}},
  pending <- Outstanding,
  reached <- [s \in Subs |-> IF sent[s] = <<>> THEN 0 ELSE Last(sent[s])],
  active <- lock \in Senders

FeedImplementsBroadcast == Promise!Spec

(* Unsubscribe never waits for a reader: the first one returns, even while *)
(* a Send is stuck on a channel nobody reads.                              *)
UnsubscribeReturns ==
  \A s \in Subs : sub[s] \in {"leaving", "waiting"} ~> (sub[s] = "gone" \/ ~intact)

(* If every subscriber goes on reading, every Send returns.                *)
SendReturns ==
  (\A s \in Subs : WF_vars(Receive(s))) =>
    \A p \in Senders : spc[p] # "idle" ~> (spc[p] = "idle" \/ ~intact)

(* What the comment of Subscribe says ("future sends will be delivered on  *)
(* the channel until the subscription is canceled"): not afterwards.       *)
NothingAfterUnsubscribe == [][\A s \in Subs : sub[s] = "gone" => sent'[s] = sent[s]]_vars

=============================================================================
