# A verification project for flychain

TLA+ models of flychain's concurrent core and of its encodings, the TLC
configurations that check them on small instances, and theorems about them
checked by TLAPS. Paths such
as `event/feed.go` are relative to the source tree.

## 1. The system

flychain is at an early stage: libraries that a node will be built from, no node
yet. Its own logic is in the following parts.

| Part | State it keeps | Operations | Hard behaviour |
|---|---|---|---|
| `event.TypeMux` | receivers by type, `stopped`; per receiver `closed`, `closing`, `postC`, creation time | Subscribe, Post, Unsubscribe, Stop | posters blocked on receivers that are being closed, three levels of locks, stale snapshots |
| `event.Feed`, `FeedOf` | `sendLock`, `inbox`, `sendCases` | Subscribe, Send, Unsubscribe | a removal interrupts a Send; case lists that share an array |
| `event.funSub` (`NewSubscription`) | `unsubscribed`, `unsub`, `err` | producer, Unsubscribe | end of the producer against Unsubscribe |
| `event.resubscribeSub` | loop, `lastTry`, `waitTime`, `unsubOnce` | loop, fn, Unsubscribe | retry and backoff against Unsubscribe; goroutines that must not leak |
| `event.SubscriptionScope` | tracked wrappers, `closed` | Track, Close, wrapper's Unsubscribe | Close holds its lock while it waits for producers |
| `mclock.Alarm` | timer, deadline, channel of one | Schedule, Stop, send | timers that fire while Schedule and Stop are at work |
| `mclock.Simulated` | virtual time, heap of timers, condition | Run, AfterFunc, NewTimer, Stop, Reset, WaitForTimers | timers that are off the heap and have not run yet |
| `log` | call-site cache, patterns, swappable handlers, buffers, a record's context | Log, Vmodule, Verbosity, SetHandler, New | caches against reconfiguration, full buffers, records that handlers share |
| `rpc`, client | pending operations, subscriptions with a forwarding goroutine and a buffer | call, response, deliver, close, Unsubscribe | late, repeated and lost responses; dispatcher and subscriber that wait for each other |
| `rpc`, server | notifiers, subscriptions, batch buffer, codecs, registry | notify, activate, unsubscribe, close, timeout, Stop, RegisterName | notifications before their id; a timeout during a call; Stop against new connections |
| `rlp` | none | struct tags, generated encoders and decoders | optional fields, nil pointers |
| `crypto` | the sponge's lanes and counter | Write, Sum, permutation, curves, mnemonic | block boundaries, hand-unrolled rounds, points without coordinates |
| `common` | none | hexutil, big numbers, hashes, addresses, ages | word boundaries, widths, several decoders of one text |

How they interact. A `Feed` or a producer function hands out a `Subscription`;
`SubscriptionScope` and `resubscribeSub` call `Unsubscribe` on subscriptions
they do not know the kind of, and wait in it. `Alarm` runs on any
`mclock.Clock`: on the system clock a timer's function runs in a goroutine of
its own, on the simulated clock in the goroutine that calls `Run`. Everything
else is shared memory under mutexes, channels and callbacks inside one process;
nothing is persisted, so there is no crash and recovery.

What makes each part correct:

- TypeMux: no send on a closed channel, Unsubscribe is final, every subscribed
  receiver gets every event once and in the order of its poster, Stop and
  Unsubscribe return and set blocked posters free.
- Feed: a totally ordered broadcast to exactly the channels subscribed when a
  Send begins; the count is theirs; removal never waits for a reader.
- Subscriptions: the owner sees at most one error and none is lost; Unsubscribe
  returns, and no loop and no producer runs afterwards; Close of a scope has all
  it tracked unsubscribed.
- Alarm and clocks: no wake-up is lost, a stopped timer does not run, the
  simulated clock never passes a timer and never blocks.
- log: a decision rests on a setting in force during the call; once root has a
  handler a record reaches one that was in force, once and in order, and what
  handlers add to it damages nothing.
- rpc: a caller gets its answer, an error or the news that the connection is
  lost, and a channel is closed once; notifications follow their id in order; a
  dispatcher is never kept waiting; a batch is answered once; nothing that comes
  after Stop is served.
- Encodings: what is written is read back or refused; decoders of the same text
  agree; the sponge does not see how a message was cut; a round is a round of
  Keccak-f.

The code does not keep all of this: section 3 has what it does instead.

## 2. Modules

| Module | Role |
|---|---|
| `TypeMux` | `event/event.go`; `MCTypeMux`, `TypeMuxProofs` |
| `Broadcast` | abstract specification: totally ordered broadcast |
| `Feed` | `event/feed.go`, refines `Broadcast`; `MCFeed`, `FeedProofs` |
| `FunSub` | `NewSubscription` and `funSub`, a component others compose |
| `Scope` | `SubscriptionScope` composed with `FunSub`; `SubscriptionsProofs` |
| `Resubscribe` | `ResubscribeErr`; `MCSubscriptions` with `Scope`, `SubscriptionsProofs` |
| `Timers` | abstract specification: what `mclock.Clock` promises |
| `Alarm` | `common/mclock/alarm.go` composed with `Timers`; `ClocksProofs` |
| `SimClock` | `common/mclock/simclock.go`, refines `Timers`; `MCClocks` with `Alarm`, `ClocksProofs` |
| `Glog` | `log/handler_glog.go`; put beside `LogRouting` by `LogHandlers`; `MCLog`, `LogProofs` |
| `LogRouting` | loggers, swap, sync and buffered handlers under concurrency; `LogHandlers` puts it beside `Glog`; `MCLog`, `LogProofs` |
| `HandlerTree` | one record in a tree of handlers (`log/handler.go`), put beside them by `LogHandlers`; `MCLog`, `LogProofs` |
| `ClientSub` | `ClientSubscription` (`rpc/subscription.go`) |
| `ServerSubs` | `Notifier` and the handler's subscriptions |
| `ClientCalls` | the handler's table of pending operations |
| `Batch` | `batchCallBuffer` |
| `Server`, `Registry` | `rpc/server.go`, `rpc/service.go` |
| `RpcMessages` | `rpc/json.go`, `errors.go`, `types.go`: kinds of messages, answers, block numbers |
| `Rpc` | the parts of rpc side by side; `RpcProofs` |
| `Hexutil`, `CommonTypes`, `BigMath` | `common/hexutil`, `common/{types,bytes,format}.go`, `common/math` |
| `Mnemonic`, `Curve`, `Sponge`, `KeccakF` | `crypto` |
| `RlpStruct`, `RlpGen` | `rlp/internal/rlpstruct`, `rlp/rlpgen` |
| `Codecs` | the encodings that do not recurse over types, and the sponge, side by side; `TextProofs`, `CodecProofs` |
| `MCComments` | the comments and tests that the code contradicts, of the parts of `MCCodecs` and of `Resubscribe` |

`MCSubscriptions`, `MCClocks`, `LogHandlers`, `Rpc`, `Codecs` and `MCCodecs` put parts that
share no state side by side: the variable `part` chooses one at the start, and
the others stay in one of their initial states. `MCCodecs` extends `Rpc` and
`Codecs`; its pure parts take one input from a set (`Choose`) and the properties
say what the functions make of it. `Codecs` states the same with any input
(`TextsSpec`, `NumbersSpec`), which is what is proved. `MCComments` runs its machines
one after another (see the run `comments`).

Conventions. One action is what a goroutine does between two points at which it
may have to wait; a section under a mutex with no waiting point inside is one
action, and no variable stands for that mutex. A mutex held across a waiting
point is visible: in TypeMux as program counters, in Feed as `lock`, in Scope as
`mu`. Variables marked *history* are read by properties only. A definition whose
comment begins with "Mutant:" is a plausible bug; the model with that
definition in place of the next one violates the property that `PROJECT.json`
names with it.

### TypeMux
`ppc`, `pev`, `ptodo` are a posting goroutine, its event and what is left of its
snapshot; `cpc`, `ctypes`, `cqueue` a goroutine in Stop or Unsubscribe. `chan`
folds `closed`, `closing` and `postC` into their four reachable combinations.
`WriterPending` is Go's rule that a waiting writer of `postMu` keeps new readers
out. `Subscribe` includes the panic half way on a duplicate type, which leaves an
orphan that nobody reads. Times are read before the mutex is taken, as in the code.

### Feed and Broadcast
`arr`, `n`, `m`, `old` keep the arrays under `sendCases` and `cases`, because
`caseList.delete` works in place. Indices follow the code: index `i` is cell
`i + 1`. A channel is its capacity, its buffer and whether a receiver waits;
`Receive` is the owner. `SelectStray` and `SelectPanics` are what the corrupted
list leads to: a copy of the removeSub case that takes a removal, and
`reflect.Select` refusing a receive case with a Send value. `Broadcast` says
what a feed is for; `Feed` implements it under the mapping in `Promise`.
`FeedOf` is the same algorithm without the type check: Feed with one type.

### FunSub, Scope
The producer is `prod`; Unsubscribe is `MarkUnsubscribed` (under `funSub.mu`)
and `ProducerAwaited` (`<-s.err`). The owner may take the error at any time. In
`Scope`, `role` says whether a caller is unsubscribing directly, through the
wrapper or from Close; `left` is the rest of the map Close ranges over.

### Resubscribe
`lpc` is the loop, with one state for each of its three selects. An attempt is
one call of fn with its goroutine and the inner subscription it returns.
`waitTime` is in the units of `backoffMax`; whether an attempt was slow is a
nondeterministic choice. fn may break its contract (no subscription, no error),
on which the program panics. `dropped` are the attempts whose answer `subscribe`
throws away because Unsubscribe came first (line 177): nobody can end a
subscription that one of them has got.

### Timers, Alarm, SimClock
`Timers` is pending, running, done or stopped timers and a clock. `Alarm` is
`Timers` and a user who calls Schedule in two steps, because the clock is read
before it is acted on. Old timers may still be running when new ones are made.
`SimClock` has the heap as a set and `InOrder` for the order in which heap.Pop
empties it (timers due at the same time come in either order). Reset is called
as `mclock.go:53-54` asks: after a Stop that returned true or after the value
has been received. Sleep and After are NewTimer and Receive.

### Glog
`lpc` is where a call of Log is between two of its readings of shared settings;
the sections of `h.lock` have no waiting point and are one action each. A ruleset
is a sequence of rules that parse or not, match a set of call sites and give a
level; what a pattern matches is data. `Effective` is the rules Vmodule keeps.
`sawLevel` and `sawRule` are history: what was in force since the call began.
A verdict may combine two settings that were never in force together (a verbosity
lowered, a rule added, in between); `VerdictJustified` says how much is promised.

### LogRouting, HandlerTree
`LogRouting` begins as the program does: root has an empty `swapHandler`
(`root.go:8`), and a record that comes to it before the first SetHandler panics
(`handler_go14.go:15`). A new logger's handler is the logger it was made from, as
`logger.New` wraps the parent's swap handler; `Load` follows one such reference
at a time, and `SetHandler` may come in between. `Lock` and `Write` are
SyncHandler over a stream, `Send`, `Take` and `PassOn` a buffered handler and its
goroutine.

In `HandlerTree` one record goes through a tree of handlers. `calls` is the stack
of calls of `Log`: a wrapper that ends with `return h.Log(r)` is replaced by the
handler it wraps, so that only MultiHandler and FailoverHandler wait in the
stack, with `next` the number of their handlers called; `err` is what the last
call returned. All handlers share `record`, so that what one does to the context
the next one sees. `Caller` stands for the three handlers that add a caller;
MatchFilterHandler is modelled on the level and on keys of the context, not on
the time and the message.

### ClientSub, ServerSubs, ClientCalls, Batch, Server, Registry, RpcMessages
rpc is incomplete and does not build at this commit: the dispatcher's loop,
`op.wait`, `handleBatch`, and the goroutine of a call are missing. The methods
that exist are modelled as they are; what calls them, and in which order, comes
from the comments that say so, and each module names what it took from there.
`ClientSub` has the forwarding goroutine (`run`), the dispatcher's `deliver` and
`close`, and goroutines in Unsubscribe; a send on an unbuffered channel is one
action with its receive. `ServerSubs` has a call that creates a notifier, is
answered and flushes its buffer, while the service notifies, the client
unsubscribes and the connection closes. In `Server` connections come and go, and
single requests over HTTP are called, let in, read and handled, while Stop runs;
`afterStop` is history. In `ClientCalls` each response may be
late, repeated or never come, and the caller may give up. In `Batch` the mutex
is taken anew for each step, so the timer may fire while a call runs. `Registry`
reduces Go's types to what `service.go` asks of them; a method has its inputs, its
outputs and whether it is variadic.

### Hexutil, CommonTypes, BigMath, Mnemonic, Curve, RlpStruct, RlpGen
Functions, translated with their errors in the order the code tests for them,
and a reference definition in the same module, under the second rule. Widths are
parameters and small: a uint64 of 2 hexadecimal digits, numbers of 8 bits in
words of 4 and bytes of 2, curves over the fields of 31 and 43 elements (each
other's orders), a table of 3 words. `RlpGen` models what the *generated* code
does: `makeOp` is the generator, `Encode` the program it writes for encoding, which
refuses a negative big.Int, and `Read` the one for decoding.

### Sponge, KeccakF
In `Sponge` a byte of the message is its number and a lane position is a pair,
so the state says which byte went where: boundaries are all there is to see.
`KeccakF` has the real permutation: 25 lanes of 64 bits as sets of bits, one
action for each of the 24 rounds, and Keccak-f as its authors specify it as the
reference.

## 3. What the runs show

| Run | Instance | What it shows |
|---|---|---|
| `typemux` | 2 types, 2 subscriptions, 2 posters, 1 Stop, 2 Unsubscribes, cut by `Bound` | no send on a closed channel; every event once and in order; Unsubscribe final; calls return |
| `typemux_stop` | same | Stop may return before a delivery (`event.go:88` says it does not) |
| `feed` | 3 channels (buffered and not), 2 senders, 2 Sends, 2 types, cut by `Bound` | Feed implements Broadcast; removals and Sends return |
| `feed_removed` | same | a channel still receives after Unsubscribe: `feed.go:208` |
| `subscriptions` | scope: 2 subscriptions, 2 callers; loop: 2 attempts, 3 callers, backoff capped after 4 doublings | no error lost, Close complete, one inner subscription kept at a time, no loop and no fn after Unsubscribe, no deadlock |
| `resubscribe_hang` | the loop alone | Unsubscribe hangs after the loop has ended by itself |
| `clocks` | alarm: 3 timers, times 0..3; simulated: 3 timers, 2 Runs at once, 1 waiter, times 0..2 | no lost wake-up, the alarm rings; the simulated clock implements Timers, passes no timer, never blocks if Reset keeps its contract |
| `alarm_stop` | the alarm alone | a value arrives after Stop: the expired timer's goroutine |
| `log` | 2 call-site loggers, 5 rulesets; 2 loggers, 2 writers of 2 records, buffer of 1; trees of handlers two deep, failovers of 1 to 3 streams | cache and verdicts justified; records panic only before root has a handler, and are routed once and in order; contexts intact |
| `glog_traced` | 1 logger, 3 verbosities | an error is lost at the backtrace location: `handler_glog.go:193` |
| `codecs` | see below | the parts of rpc, and every encoding against its reference |
| `comments` | 2 attempts and 1 caller; 1 notification; 1 request; 1 state of 25 lanes; a few inputs of each operator | twelve comments and tests are contradicted, all in one state (findings 6 to 17) |

The properties that runs name may be conjunctions (`EventsDelivered`,
`ScopeSound`, `TextsSound`, ...): the module that has them all says which, and
the parts are stated where their state is. `ResubscribeSound` and `SimSound`
contain the types of their parts.

Bounds, and why they are enough. Two posters and two closers are needed to have
a poster blocked, one waiting behind a pending writer, and a second closer of
the same receiver; two subscriptions to have one in a snapshot behind another;
two Unsubscribes of one receiver to have one wait for the other's `closeMu`.
Of the second subscription, the second poster and the second Unsubscribe
`MCTypeMux!Bound` lets one at a time take part, the first two only if they
begin at time 0; `MCFeed!Bound` does the same for the third channel and the
second sender. Both hold back only calls that nobody has to make (`NewSub`,
`PostCall`, `Unsubscribe`; `Subscribe`, `Send`), so fairness is untouched; a
second subscription and a second poster together are covered by the proofs,
which hold for any number of them and without `Bound`.
`MaxTime = 1` gives equal and different timestamps. In Feed three channels are
the least at which `delete` drops one, keeps the deleted one and duplicates
another; two Sends are needed for one to see what the other left behind. Two
attempts in Resubscribe show whether an old one is left when the next begins; 20
units of backoff have doublings below, at and above the cap. Three timers in
Alarm allow two late senders beside a pending timer. In Glog two loggers are
enough for one to look up what the other has calculated for patterns since
replaced; loggers are interchangeable, and `LoggerSymmetry` says so to TLC (the
properties of that run are safety properties). In LogRouting two records of
each of two writers are needed for one to overtake another, and a buffer of one
to be full. In a tree of handlers a group of two has a leaf and a wrapped leaf,
so that what one branch leaves in the context reaches the other; three streams
let a failover fail at the first, at the first two, or at all.

Of rpc: a client subscription has 3 notifications, a buffer of 2 and 2
goroutines in Unsubscribe, enough to overrun the buffer and for one Unsubscribe
to wait for the other's `once`. There are 3 pending operations, one of two ids
(a batch) and one subscription; 2 subscribe calls with 2 notifications each, so
that a flush can be interrupted between two; a batch of up to 3 messages with a
notification among them; 2 codecs; names with and without the separator and 2
receivers, registered twice at most. Of the encodings: texts of up to 5
characters behind every kind of prefix, around a uint64 of 2 digits and words of
2 digits, so that a number has less than one word, one, one and a bit, and more than fits;
integers from -140 to 300 around the 8 bits of a number; every point of two
curves, every scalar up to twice the order; messages of up to 6 characters for
groups of 2; lists of up to two fields under every combination of tags; types of
every kind of operation. The sponge is run with the true rates and lanes, and
lengths on both sides of a lane and a block; a message of 40 bytes has whole and
partial blocks of the rate 8 of a 224-bit sum, whose `stateSize` of 64 leaves that.

Fairness, and why the code justifies it. Goroutines inside a call run on when
they can: weak fairness of the steps of a call, the assumption of any
goroutine scheduler. Nobody must *make* a call, and no reader must read:
`SendReturns` states "if every subscriber reads on" as its own premise. Strong
fairness is used where a lock or a channel token is competed for
(`PostSnapshot`, `TakeSendLock`, `Forget`): Go queues waiting goroutines first
come, first served, and its mutexes switch to hand-off when one has waited too
long. Producers and fn obey their quit channel and context, as
`subscription.go:29-31` and the context contract say. In Alarm the clock moves
and due timers run. In ClientSub the dispatcher and the forwarding goroutine go
on; the answer to the unsubscribe request comes in order with other messages,
so it takes strong fairness (a dispatcher that is free again and again gets to
it). Reading Err is a premise of `ReaderUnsubscribes`, not an assumption. In
ServerSubs the calls run to their end, as `close` waits for.

Findings (each is a `violation` run):

1. `caseList.delete` (`feed.go:208`) returns `append(cs[:index], cs[:index+1]...)`,
   which keeps the case to be removed and drops the ones behind it. Unsubscribed
   channels go on receiving, others are lost, and later Sends may panic.
   Statements about Feed are therefore made up to the first removal (`intact`).
2. `resubscribeSub.Unsubscribe` hangs for ever when the loop has ended by itself.
3. `TypeMux.Stop` does not wait for deliveries to a receiver whose Unsubscribe
   is between `del` and `closewait`.
4. `Alarm.Stop` leaves the channel empty only until the goroutine of a timer
   that had already expired gets to its send.
5. At the backtrace location `GlogHandler.Log` makes any record one of level
   info: an error under a verbosity of error is lowered and dropped.

What else comments and tests say and the code does not do is in one run,
`comments`. Its invariant, `SomeCommentHolds`, is a disjunction of the twelve
statements below, and the behaviour that violates it ends in a state that
contradicts all of them: the machines (the loop of ResubscribeErr, a server's
subscriptions, Stop, the permutation) run one after another, each until it has
contradicted its comment, and what is said of operators is evaluated at once.
Each disjunct is a named operator in the module of its part.

6. `Released` (`event/subscription.go:21-22`): when Unsubscribe comes while fn
   connects, an inner subscription that fn has got by then is thrown away at line
   177 and never released. `ResubscribeSound` says so: it promises the release of
   every attempt but those in `dropped`.
7. `Dropped` (`rpc/subscription.go:85-87`): notifications before a subscription
   is active are kept and sent, not dropped.
8. `StopReads` (`rpc/server.go:114`): a single request that was let in before
   Stop is read after it, and Stop waits for nothing.
9. `NegativeRefused` (`common/hexutil/json.go:133-134`): a negative Big is
   marshalled without an error, as a text no decoder accepts.
10. `PaddedLongEnough` (`common/math/big.go:138-139`): PaddedBigBytes pads to
    eight bytes whatever length it is asked for.
11. `BaseKept` (`common/math/big.go:216-217`): Exp squares its caller's base.
12. `SizeSupported` (`crypto/sha3/sha3.go:184-185`): `stateSize` is
    `laneSize * laneSize`, 64, and not 200; of the four sizes only 28 bytes has a
    positive rate; with 32 a Write divides by zero, with 48 and 64 one of a whole
    lane never ends.
13. `UnalignedOnlySlower` (`crypto/sha3/sha3.go:79-80`): `minInt` returns its first
    argument always; a Write that ends inside its lane slices beyond its end and
    panics, if what is written has no capacity to spare (the model's assumption).
14. `OptionalsLast` (`rlp/internal/rlpstruct/rlpstruct.go:125-126`, 72-73): the
    test is negated; it refuses a required field *before* any optional one, and
    so every struct without optional fields.
15. `TailAccepted` (76-77): the tag `tail` is spelt `tali` in the parser.
16. `NilOfElement` (`rlp/rlpgen/testdata/nil.out.txt:9-10`): the tag `nil` of a
    pointer always stands for an empty list, whatever it points to.
17. `permuted` (`crypto/sha3/keccakf.go:31-32`): in the first of the four unrolled
    rounds of `keccakF1600` the fifth row is read one place too far round
    (117-131): five lanes get their neighbours' values, and no digest is one of
    Keccak. `RoundsFollowKeccak` says that everything else in the 24 rounds is as
    specified.

What the code does elsewhere that a reader might not expect; the models have it
so, and the properties say what holds nevertheless:

- `rpc/handler.go:283`: the condition after decoding the subscription id is
  inverted; a subscription is started when its id does *not* decode, and one
  that was granted is never started. ClientCalls has it so, and no property
  speaks of it: no comment says which way round it should be.
- `rpc/subscription.go:294`: `run` sends its error on an unbuffered channel;
  Unsubscribe blocks unless somebody reads Err (ClientSub).
- `rpc/service.go`: a call passes the receiver and the context only, so a method
  with an argument ends in "method handler crashed"; methods of a service whose
  name contains `_` are never found, or are found as those of another service
  (Registry).
- `log/root.go:8`: until SetHandler is called every record panics (LogRouting).
- `common/types.go`: a MixedcaseAddress given with `0X` is written as a text
  nobody can read.
- `crypto/mnemonic.go:22`: the step is an eighth of the message, so that only
  messages of 64 characters come back. `crypto/curve.go`: adding a point to
  itself or to its opposite with `Add` panics.

## 4. What is proved

TLAPS checks the following for every value of the constants. The assumptions are
the ASSUMEs of the modules, which TLC evaluates in every run:

- `TypeMux`: Stop and Unsubscribe are called by different goroutines (a
  goroutine is in one call at a time), there is a type, Subscribe is called with
  one; the bounds are natural numbers.
- `Feed`: senders and channels are different things, so that `lock` tells whose
  it is; the tags of the receive case are no channels; an element type and a
  capacity for each channel.
- `FunSub`, `Alarm`, `Glog`, `Timers`: the value that stands for none is none of
  the others; levels and bounds are numbers.
- `MCSubscriptions`: the cap of the backoff is a natural number, any.
- `LogHandlers`: a logger is none of the handlers, the buffered handler is no
  stream, the root is a logger, and None and Empty are neither. Handlers are made of handlers
  in `Trees` (any set closed under this, recursive ones included), no stream has
  the name of the nil error, contexts and arguments are sequences.
- `SimClock!ClockConstants`: finitely many timers, some of them with channels,
  and an empty channel holds no time. It is a definition, because `MCClocks`
  instantiates the module; `SimAssumption` states it there.
- `Rpc`: two operations have no id in common (the client's counter), a
  subscription is one request, a batch has finitely many messages. For the
  registry, a name is a sequence of strings, one of which may be the separator;
  a variadic method has inputs, the last of which, a slice, is no context.
- `Codecs`: a word is a whole number of bytes, a number has a sign bit, a uint64
  has twice the values of an int64 and one more; numbers, words and hashes have
  at least one digit or byte; digests have the sizes sha3.go
  makes them for, and lengths are natural numbers.

No bound of a run is among them: the cuts of `MCTypeMux`, `MCFeed` and the
sizes of sets are TLC's. What bounds remain (`MaxSends`, `MaxTime`, `MaxNotify`,
...) are any natural numbers.

`TypeMuxProofs`. `IInv` strengthens the type invariant with: at most one closer
holds the mutex and at most one holds `closeMu` of a receiver (`MutexStep`); a
receiver is "closing" exactly while a closer is between `close(s.closing)` and
the end of closewait (`CloseStep`); every receiver in the map, in a snapshot or
in a closer's queue is one Subscribe has registered (`SubStep`, `KnownStep`); a
poster in the select has a channel that is open or closing (`SendStep`), because
CloseFinish waits for the readers and DeliverLock for the writer. From it follow
`TypeCorrect`, `PostersNeverPanic` (NoSendOnClosedChannel) and, as an action
property, `UnsubscribeFinal` (UnsubscribeIsFinal): a receiver whose Unsubscribe
has returned is closed, and the only step that delivers has one that is not.

`DeliveryIsSound` (EventsDelivered) needs a second layer, `DInv`, proved on top
of `IInv`. `PostInv` is about the posters: a snapshot names a receiver once, an
idle poster owes nothing, the events of a receiver are in the order of their
numbers, and what a Post owes was subscribed before the event was stamped, which
is why the stale-event check costs no subscriber an event. `MapInv` is about
the map: a receiver is in a slice once, what an Unsubscribe is closing is in
none, Stop has closed or queued all the slices it has ranged over, and a
receiver that is not closed is in the map or in the hands of an Unsubscribe.

`FeedProofs`. `TypesAlways` holds whatever a removal does to the arrays: `TypeInv`
adds to the types who holds `sendLock`, that the receive case stays in cell 1,
that the array a Send keeps is no longer than the new one (which is what keeps
`m` within it after a removal), and that the Sends that wait have turns left.
Up to the first removal `ListsInv` says of cells and inbox that together they
have each subscribed channel once, and `CountInv` that the cells behind `m` are
served and counted. From them follow `ListsSoundAlways` (CaseListsSound),
`CountsReceiversAlways` (SendCountsReceivers) and `FeedIsBroadcast`: every step
is a step of Broadcast under the mapping in `Promise`, or a stutter; the removal
that ends `intact` is the step after which Broadcast promises nothing. The
operators of the case lists (`Find`, `Deactivate`, `DeleteCase`, appending to
an array with room) have a lemma each.

`SubscriptionsProofs`. `ProducerFlags` and `QuitterWaits` say which flags a
producer's state goes with and that whoever closed its quit channel still waits
for it; `CallTargets` and `RoleCalls` where a call may be; `CloseRange` that what a
closing scope still tracks is unsubscribed, in the rest of Close's range or in
the call Close is making. With them `TypeCorrect` and `ScopeIsSound` (ScopeSound)
are inductive, for any number of subscriptions and callers.

`ResubscribeIsSound` (ResubscribeSound) is about the loop of `ResubscribeErr` for any number
of attempts, callers and any cap. That one attempt is going at a time is not
inductive by itself: `FnAwaited` adds that a goroutine of fn is that of the attempt
whose answer the loop waits for (or drains), `NothingGranted` that an attempt
without a subscription has nothing to release, `OnceHeld` that `unsubOnce` is
busy exactly while one caller is inside it. That no loop and no fn runs after Unsubscribe
follows from `DoneEnds` (the once is done only when the loop has ended) and
`FnAwaited` (no goroutine of fn outlives the loop). `BackoffGrows` states the wait as a power of two cut at
the cap; the exponentials have no rules in the prover, and `PowerZero` and
`PowerNext` get 2^0 = 1 and 2^(n+1) = 2 * 2^n from the number of subsets of 1..n.

`ClocksProofs`. For Alarm the invariant of the runs is not inductive by itself:
between the two halves of Schedule the reading `t0` may be old. `ReadingSound`
says what still holds then: a timer that was ahead of the clock at `t0` is
pending, running, or its value is in the channel, since the only reader is in
Schedule. With it `TypeCorrect`, `OneTimerPending`, `ShortcutSound` and
`WakeupsKept` (NoLostWakeup) follow, one step lemma per action.

Of the simulated clock, in the same module, `HeardIsOver` (a value that has been received, or a Stop that
returned true, leaves a timer that is nowhere, with an empty channel) is what
makes `TimersInOnePlace` inductive through Reset, and with it `RunNeverWaits`:
the channel of a timer in the hands of Run is empty. `FewerNotEnough` (taking
timers off the heap makes no waiter's wish true) carries `NoWakeupLost` through
Run. `NoTimerPassed` and `SimulatedIsClock`, the refinement of Timers, are
shown step by step. Of the clock beside the alarm, as the runs have it, they give
`SimulatedIsSound` (SimSound) and `ClockImplemented`
(ImplementsTimers).

`LogProofs`. `IInv` adds to the runs' invariants that a call under way has noted
what is in force now (`Noted`), that a call past the verbosity was refused by it
(`Refused`), and that overrides imply a cache. `LeastElement` (a set of indices
has a least one, from the well-foundedness of inclusion of finite sets) gives
`RuleLevelNat`; `NoOverride` ties the count to the patterns. From it follow
`TypeCorrect`, `CacheIsSound` and the action property `VerdictsJustified`.

`RecordsAlwaysRouted` (RecordsRouted) is about `LogRouting`, with any number of loggers,
streams, writers and any buffer, from the empty handler of root on. Its part
`PanicsUnconfigured` says that only root is ever without a handler and that a
record panics only while it is; the rest is about every other record. The loggers a logger follows are the least set
closed under following (`Above`), so that no induction over chains is needed.
`FollowedMade` says that a logger follows only loggers that have been made: New
then changes nothing of what is in force for the others (`NewFollows`), and
`saw` need not be looked at. `Loading` says that what is in force for the logger a
writer has come to is among what it saw, `Delivering` that it locks streams and
sends to the buffered handler, nothing else.
What went into the channel is what is written, held and queued, in that order;
a writer's next record is behind all of its others (`NextRecord`), and what
is written of the buffered ones is a part of those sent (`PartInOrder`). Where a
step moves no record, `UnmovedStays` has the rest.

`TreesAreSound` (TreesSound) holds for trees of any depth and width, because what is said is
about the record and not about the tree. `Carried`: the pairs the record was
made with are in front, untouched before the first pass of a LazyHandler and
settled after it, and whatever was added behind them is not lazy; a second pass
finds nothing (`PassAgain`). Of a failover of streams `FailoverInv` says, between
two streams and within one, that those called so far have failed, in which
order their errors are in the context, and that the context was settled by the
first of them.

`RpcProofs`, the client. In ClientSub `InTurn` numbers what has been taken and what is
buffered, and `OnOffer` says that the dispatcher has only a value the server
has sent: `SubscriberInOrder` (ForwardsInOrder). In ClientCalls an id in the
table belongs to its operation (`OwnIds`), an operation that is new has been
nowhere, and what has been sent on is gone from the table (`SentIsGone`);
`Expecting` says of an operation being written already what NobodyForgotten
says of a waiting one. It follows `CallsAreSound` (CallsSound).

`RpcProofs`, the server. `SubscriptionsAreSound` (ServerSubsSound) has two halves.
`TableInv`: a subscription is in the table from the return of its call until its
err channel is closed, and close empties the table only when no call is
running. `WireInv`: what has been written of a subscription are the notifications
that have left its buffer and, once it is active, all; a value is on the wire
after the id and the values before it. `StopIsComplete` (StoppedServesNone) rests
on `Tracked` (a connection being served is in the set Stop goes through) and on
what a request that is called after Stop finds when it looks at `s.run`.
`BatchAnsweredOnce` (AnsweredOnce): until the batch is written, the ids of the
answers followed by those of the calls that are left and want an answer are
those of the batch. `Answerable` is a recursive function, so this needs
induction: `NatSetInduction`, a form of it over *sets* of numbers that follows
from the well-foundedness of < in the library, gives that the function exists
(`TableExists`) and what it is on a concatenation. `MethodsAreFound` (MethodsFound):
`Recorded` says of every name that its callbacks are those of the last receiver
with such a method, through any sequence of RegisterName, and a client's words may
belong to more than one pair of a name and a method; `CutPoint` and
`SplitName` say where strings.SplitN cuts a name. `TypesAlways` has the types of
all parts.

`TextProofs`. The functions fold over texts and words, and a fold is known to
the prover only once it is known to exist: `FoldExists` gets it by
`NatSetInduction` on the table of its values, and each fold gets a lemma that
says what it is, which the other proofs cite. Powers of two have no rules in the
prover; they come from numbers of subsets (`PowersDouble`, `PowersAdd`).

`TextsAreSound` (TextsSound) is for texts of any characters and length, any
integer and any bytes, and for any digest of an address. `Way` has the numbers
that are read from digits one after the other. `AccumulatedInFull`: up to the
digits of its type a number is not cut modulo its range; `WordsInFull`: the
words, each with its own digits and the last with what is left, maybe none, are
together the number of all digits (`Cuts` says where the text is cut);
`FiveDecoders` has what each of the decoders yields, and `NumbersAreAgreed` that they
yield the same. `HexTextIs` (a number's text has no leading zero and its value is
the number) gives `NumbersAreKept`, with and without quotes. `HexBytes` and `Encode` undo
each other (`PairedIs`, `SameNibbles` in either case of the letters):
`BytesAreAgreed`, and with `Full`, the texts of hashes, `ReadersAreAgreed` and `MixedcaseIsKept`.
`PaddingIsUndone` finds the first and the last byte that is not zero. `Aging`
says of an age on its way through the units that what is told and what is left
make the age, and that what is left is less than the last unit: `AgesArePrecise`.

`MessagesAreSound`, in the same module, is the part of TextsSound about rpc: the
kind of a message is one, an answer has its id, and block numbers are read in
the range of an int64.

`CodecProofs` rests on the same lemmas about folds and powers.

`ChunkingIsInvisible` (ChunkingInvisible): `HashInv` says of a digest between two calls that its
blocks and the lanes of the current one are functions of the number of
characters taken alone, whatever the Writes were; and that a Write that reaches the
end of its lane goes through, so that the statement is not about nothing. It is
about the digest of 28 bytes, the only one of the four sizes that takes a message;
that the others and short Writes fail are findings 12 and 13.
the sequence of Writes, Resets and Sums is any, and the message as long as it likes.

`RoundsAreKeccaks` (RoundsFollowKeccak), for any state of 25 lanes of 64 bits: the tables of
rotations and of places, the walk they come from, and the shift register of the round
constants are given in closed form and shown to be the recursive functions of
Keccak's definition; the column sums and the rows of the unrolled code are then compared
lane by lane, the misread row (finding 17) included.

`NumbersAreSound` (NumbersSound) is for words of any number of bytes, bytes of any number of
bits, and any integers. `TwoDigits` and
`DigitOfWord` are about quotients of quotients, `BytesRead` follows the two
loops of ReadBits over words and bytes, and the stages of `Exp` keep that the
result times the current square to what is left of the exponent is the power asked for
(`MultipliedIs`).

Only model-checked:

- all liveness properties (CallsReturn, EverybodyReturns, Rings,
  ConnectionsGoOn): fairness and ENABLED are beyond the prover;
- RlpSound: types are recursive, so `RlpGen` has RECURSIVE operators, and the
  prover loses its arithmetic in a module that reaches one;
- KeysSound: that the points of a curve are a group is a fact about polynomials,
  and its proof a work of its own; TLC looks at all points of two curves.

## 5. Not modelled, and why

Layout and output (`log/format.go`, `log/syslog.go`, JSON on the wire), the text
of generated programs and of caller frames, the words of the mnemonic, the
external compiler, the test harness, file tests and diagnostics: wording and
pure I/O. The system's entropy is an input. What rpc lacks at this commit
(dispatcher, `op.wait`, `handleBatch`, dialling) has nothing to translate; the
models take its order of calls from the comments and say so.

The value domain of an event is its type: `Send(nil)` is not covered. A producer
that uses the scope that is closing it is not covered either (it deadlocks by
construction, `subscription.go:259`). A record that a MultiHandler hands to a
buffered handler and to another is written to by two goroutines without a lock
(`handler.go:270`); HandlerTree runs handlers in turn only. `FeedOf` has no module
of its own. `GlogHandler.SetHandler` is an unsynchronised assignment for set-up.

## 6. Plan

Done: the concurrency core (TypeMux, Feed, Scope, Resubscribe, Alarm, SimClock,
Glog), the log handlers, what there is of rpc, and the encodings; a proof of
every safety invariant that the runs check but KeysSound and RlpSound (see
above). Left, in this order:

1. The composition of the client's and the server's subscriptions over one
   connection, once the dispatcher exists.
2. The simulated clock's heap indices; the race on a record's context.
