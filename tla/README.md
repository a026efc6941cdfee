# A verification model of watermill-aws

watermill-aws connects [Watermill](https://watermill.io) to Amazon SQS and SNS.
This directory holds TLA+ specifications of its concurrent core, TLC
configurations that check them on small instances, and TLAPS proofs. Line
numbers refer to the Go sources next to it (`sqs/`, `sns/`).

## 1. Inventory

| Component | State | Operations | Talks to |
|---|---|---|---|
| **Delete batcher** `sqs/delete_batcher.go` | `pending`, `closed` (under `mu`), the one-place channel `kick`, `done`, the ticker | `add`, `run`, `flush`, `deleteNow`, `close` | fed by the subscriber's workers, closed by `Subscriber.Close`, calls `DeleteMessageBatch` |
| **Subscriber: consumption, shutdown** `sqs/subscriber.go:58-383` | `closed`, `closing`, `subscribersWg`, `deleteBatchers`; per worker the receive context, the batch at hand, the drain timer | `Subscribe`, `receive`, `consumeMessages`, `processMessage`, `deleteMessage`, `Close` | SQS, handlers (through `output` and ack/nack), the delete batcher |
| **Subscriber: provisioning** `sqs/subscriber.go:385-541`, `sqs/sqs.go` | none of its own; queues in SQS | `SubscribeInitialize`, `createSourceQueue`, `ensureDeadLetterQueue`, `GetQueueUrl` | SQS, the resolver |
| **Queue URL resolvers** `sqs/url_resolver.go` | `queuesCache` under an RWMutex | `ResolveQueueUrl` (by name, with cache; transparent) | SQS |
| **SQS publisher** `sqs/publisher.go` | none | `Publish`, `GetQueueUrl`, `createQueue` | the resolver, SQS |
| **Configuration** `sqs/config.go`, `sns/config.go` | values; `DeadLetterQueue` and `DeleteBatch` are shared pointers | `setDefaults`, `Validate` | the constructors |
| **Inputs** of `CreateQueue`, `CreateTopic` `sqs/config.go`, `sns/config.go`, `sqs/subscriber.go:427-449` | none | `DeadLetterQueueNameDefault`, `Attributes`, the redrive policy | SQS, SNS |
| **Marshalers** `sqs/marshaler.go`, `sns/marshaler.go` | none | `Marshal`, `Unmarshal` | publishers, `processMessage` |
| **SNS publisher, topics** `sns/publisher.go`, `sns/sns.go`, `sns/topic.go` | none; topics in SNS | `Publish`, `CreateTopic`, resolvers | SNS |
| **SNS subscriber** `sns/subscriber.go` | none; policy and subscription in SQS/SNS | `SubscribeInitialize`, `setSqsQueuePolicy`, `Subscribe` | the SQS subscriber, SNS |
| **Endpoint resolvers** | none | configuration of the AWS SDK | - |

What is hard in each of them:

- *Delete batcher*: three kinds of goroutines meet in `add`, `flush` and
  `close`; the signal to the flusher is sent outside the lock and may be
  refused; `close` may be called twice. It is correct if no acked handle is
  dropped or sent twice, a full buffer is flushed without waiting for the
  ticker, and `close` returns only after the last flush.
- *Consumption and shutdown*: every wait is a `select` that picks at random
  among acks, nacks, closing, cancellation and the drain deadline; answers of
  SQS get lost, messages are redelivered while an older reception is still
  being processed, `Subscribe` may race `Close`. It is correct if a message is
  deleted only after an ack (at-least-once), a FIFO queue is handed out in
  order, draining protects a running handler until the deadline, and `Close`
  returns and leaves nothing behind.
- *Provisioning, resolvers, publisher*: the resolver's cache goes stale, queues
  appear and disappear between two calls, `QueueNameExists` is taken for
  success. Correct if a message reported as published was sent, and a queue
  created with a dead-letter queue has its redrive policy.
- *SNS*: `Publish` sends a message a second time after it has created the
  topic; the queue, its access policy and the subscription are made by calls
  of SQS and SNS that race each other, and the policy is overwritten
  as a whole. Correct if SNS accepts each message once, a notification never
  meets a queue without permission, and a subscription that was reported works.
- *Configuration, inputs*: zero, negative and too large numbers, pointers shared
  by two subscribers, truncation at 80 characters, custom attributes against
  fields and against the redrive policy.
- *Marshalers*: UUID, payload and metadata have to survive any number of ways
  through SQS and SNS, and messages of other publishers have to arrive.

`PROJECT.json` lists the hazards of this kind one by one, at their lines, with
the properties that cover them, and the ones no property covers yet.

## 2. Plan

1. `DeleteSink` (abstract), `DeleteBatcher`, its runs and proofs. **Done.**
2. `SqsQueue` (external), `Subscriber`, its runs. **Done.**
3. `QueueProvisioning`: resolver cache, publisher, subscriber provisioning and
   other clients of SQS creating and deleting queues; its runs and proofs.
   **Done.**
4. `TimedBatcher`: the bounds on waiting and on `close`, and the one the
   documentation of `Linger` gives. **Done.**
5. `SnsPubSub`: topics, subscriptions, queue policies, publication with creation
   of the topic on demand. **Done.**
6. `Marshaler`, `Configuration`, `QueueInput`: the sequential parts. **Done.**
7. Proofs: the safety properties of `DeleteBatcher`, its refinement of
   `DeleteSink`, the bounds of `TimedBatcher`, and the safety properties of
   `Subscriber`, `QueueProvisioning`, `SnsPubSub`, `Marshaler`, `Configuration` and
   `QueueInput`. **Done**; section 6 says what stays with TLC.

How they build on each other: `TimedBatcher` extends `DeleteBatcher`, which
implements `DeleteSink`; `Subscriber` extends `SqsQueue` and has a sink of that
kind per subscription; `SnsPubSub` and `QueueProvisioning` end a `Subscribe` where
`Subscriber` begins one; `Configuration` establishes what the others assume of
their constants (a batch of 1 to 10, a worker, a positive linger and timeout).

## 3. Modules

### DeleteBatcher

One action per critical section of `b.mu` (`AddBuffered`, `AddLate`,
`FlushTake`, `FlushEmpty`, `Close`) and one per step between them: the send on
`kick` (`Signal`), the cases of the flusher's select (`RecvKick`, `RecvTick`,
`RecvDone`), the end of a `DeleteMessageBatch` call (`DeleteReturns`), closing
`done` (`CloseDone`), the return of `close`. Variables carry the names of the
struct's fields; `pc`, `call` and `closer` are program counters and locals.
`accepted`, `calls` and `settled` are history for the properties.

A handle is given to `add` at most once: a reception is acked once. The outcome
of a delete call (success, `out.Failed`, error, timeout) only selects a log
line, so `DeleteReturns` does not distinguish it. Linger is not measured: a tick
may come at any time, or never.

### TimedBatcher

`DeleteBatcher` with a clock that counts units of time. `Elapse` lets one unit
pass if no goroutine of the batcher has a step it need not wait for, the ticker
is not due (`LingerElapses`) and no call of `DeleteMessageBatch` has reached its
deadline (`BeforeDeadline`); every other step is a step of `DeleteBatcher` that
takes no time (`Instant`). `waited`, `ahead`, `closing` and `owed` measure what
the properties are about.

### DeleteSink

What the workers may rely on: a handle is buffered, sent in a call with a
bounded number of entries, settled; after close it is sent alone; close returns
when nothing buffered is left. `DeleteBatcher` implements it through the mapping
`PhaseOf` (property `ImplementsSink`).

### SqsQueue (external)

SQS as the code uses it: a message is visible, in flight, deleted, or in the
dead-letter queue; each reception has its own receipt handle; a visibility
timeout may pass at any moment. A FIFO queue has one message group, delivers in
order, delivers nothing while a message of the group is in flight, and refuses
the handle of a reception that timed out. A standard queue delivers in any order
and may ignore such a handle without an error.

### Subscriber

| Code | Actions |
|---|---|
| `Subscribe` | `SubscribeChecks`, `SubscribeFails`, `RegisterBatcher`, `StartWorkers`, `SubscribeReturns`, then the goroutine `Cleanup` |
| `receive` | `Stop`, `CallReceive`, `Receive`, `ReceiveNothing`, its goroutine `WatchClosing` |
| `processMessage`: offering | `HandOff`, `DiscardBeforeSend` |
| `processMessage`: waiting | `AckToBatcher`, `AckToDelete`, `Nacked`, `DiscardBeforeAck`, `StartDrain`, `DrainTimerFires`, `DrainDeadline` |
| `deleteMessage`, `batcher.add` | `DeleteSucceeds`, `DeleteFails`, `LateDeleteReturns`, `Flush` |
| `Close` | `CloseBegins`, `CloseAgain`, `CloseBlocks`, `CloseWaited`, `ClosePanics`, `CloseBatcher`, `CloseReturns` |
| outside | `HandlerSettles`, `UserCancels`, `QueueStep` |

`Processed` and `NotProcessed` are the two results of `processMessage` in
`consumeMessages`: go on with the batch, or drop the rest of it. Reading
`s.closed` in `Subscribe` is a data race with `Close`; while `Close` runs the
model lets the read return either value. The batcher of a subscription is
represented by its sink: a set of handles that leave it one by one, whose close
waits until it is empty. One entry at a time is the finest interleaving of a
batch, so every order in which SQS can execute a batch is covered.

`subscribersWg` is a counter, the number of subscriptions that run, and a waiter.
`Wait` returns at once if the counter is zero, or blocks (`CloseBlocks`); the
`Done` that takes the counter to zero releases it, and only then can it return. If
a `Subscribe` that raced `Close` calls `Add` in between, `Wait` panics with
"WaitGroup is reused before previous Wait has returned": the value `"panic"` of
`closer`. The deferred `Unlock` of `closedLock` runs, so if the caller recovers,
another `Close` finds `closed` set and returns nil although no batcher was
flushed; `CloseQuiesces` and `NoAckWasted` except this case. One window is not
modelled: an `Add` inside `Done`, between its decrement and the release, panics in
the goroutine of `Cleanup`, which nobody can recover, and the process is gone.

Not in the model: the duration of sleeps (`ReconnectRetrySleep` only delays a
worker), the hooks that generate inputs except that they may fail, logging. The
handler's context is represented by what ends it: a handler is protected as long
as its worker waits for it.

### QueueProvisioning

One topic, one publisher and one subscriber, each with a resolver that the
initial state chooses (`config`), and calls of
`Publish`, `SubscribeInitialize` and `Subscribe` that run at the same time. `pc`
is where a call is and, at the end, what it returned. Each call of SQS is one
action, and so is each access to the cache:

| Code | Actions |
|---|---|
| `ResolveQueueUrl` (by name) | `ResolveQueueUrl` (cache), `GetQueueUrl`, `StoreUrl` (the deferred write) |
| `ResolveQueueUrl` (generated, transparent) | `ResolveQueueUrl` with `Resolver(c) = "generate"` |
| `Publisher.GetQueueUrl`, `createQueue` | `PublisherGoesOn`, `QueueCreated`, `CreateSource` |
| `Publish` | `Send`, `SendRefused` |
| `SubscribeInitialize`, start of `Subscribe` | `InitializeGoesOn`, `SubscribeGoesOn`, `CreateSource` |
| `ensureDeadLetterQueue` | `GetDlqUrl`, `RefreshDlq`, `CreateDlq`, `ResolveDlq`, `GetDlqArn` |
| network, other programs | `ApiFails`, `Answer`, `OtherProgram` |

The `...GoesOn` operators say what each caller does with `Exists`, which may be
"yes", "no" or "unknown". A queue is represented by who created it, which decides
its attributes: `CreateQueue` on a queue of someone else may answer
`QueueNameExists`. A queue's URL is a function of its name, so a stale URL works
again once the queue exists again. Calls of SQS may fail, or be executed and
their answer be lost. `seen`, `gone`, `lost`, `accepted` and `dlqMade` are history;
`lost` are the calls whose queue was deleted after they had been through
`createQueue`.

Not in the model: the eventual consistency of `GetQueueUrl` after `CreateQueue`
(the publisher guards against it, `sqs/publisher.go:118-119`, `Subscribe` does not),
errors of the input generators (they end a call like a failed SQS call), and
whether SQS refuses a redrive policy whose target is gone.

### SnsPubSub

Calls of `Publish`, `SubscribeInitialize` and `Subscribe` of package `sns`, each
about the ARN its topic resolves to. The state of SNS is the topics, the
subscriptions and the notifications on their way, that of SQS the queues and the
topics their policies admit.

| Code | Actions |
|---|---|
| `Publish` | `BeginPublish`, `SnsPublish` (also the second one), `TopicNotFound` |
| `CreateTopic` | `CreateTopic`, with the comparison of the ARNs in `AfterCreateTopic` |
| `SubscribeInitializeWithContext` | `BeginSubscribe`, `InitializeQueue`, `GetQueueUrl`, `GetQueueArn`, `SetQueuePolicy`, `SnsSubscribe` |
| `Subscribe` | the same, then `Consume` |
| SNS, network, other programs | `Deliver`, `ApiFails`, `Answer`, `OtherTopic`, `OtherQueue` |

`CreateTopic` gets the name of a topic only, so for the ARN of another account it
creates another topic: `OwnArn`. What the SQS subscriber does to make sure of a
queue is one step, `ProvisionQueue`; its details are `QueueProvisioning`'s. SNS
delivers to a queue that exists and admits the topic, and drops the notification
otherwise. Not in the model: SNS's retries, subscriptions that filter, hooks that
fail (they end a call like a failed call of an API does).

### Marshaler

The way of one message: a program with this package, or another publisher,
has it first; then it is sent to SQS, or to SNS and forwarded with raw delivery,
received, and published again. A message attribute is a type with an optional
text and an optional binary; metadata and attributes are partial functions on
keys. `Publish` is either publisher's, `Receive` is what `processMessage` does
with `Unmarshal`. `ReceivePanics` is the nil dereference at `sqs/marshaler.go:41`.

### Configuration

`setDefaults` and `Validate` of the four constructors. A hook (a function, an
interface, credentials) is set by the user, set to its default, or unset. `Hooks`
lists those a constructor uses, `Required` those its `Validate` looks at. `Reuse`
is a second subscriber built from the same configuration: its fields are copied,
the structures behind its pointers are not. Durations count milliseconds.

### QueueInput

A queue name is its stem and whether `.fifo` follows it. Attributes are a text
field, `RedrivePolicy`, a boolean field and custom attributes, each of which
stands for all fields or keys of its kind; `GenerateQueue`, `GenerateSourceQueue`
and `GenerateTopic` make the input of the call.

## 4. Runs

Each family of modules has an `MC` module with its instances. `MCConversions`
runs `Marshaler`, `Configuration` and `QueueInput` side by side: each behaviour is
one of any of the three. Deadlock is checked in every run; a run ends only in a
state in which every call has returned and no goroutine is left to run
(`Terminated` and its like). In `TimedBatcher` time stops with the flusher.

| Run | Instance | Shows |
|---|---|---|
| `batcher` | 3 handles, 2 workers, 2 closers, MaxSize configured as 5 with a limit of 2 | `ExactlyOnce`, `NoLostWakeup`, `CloseFlushesPending`; `ImplementsSink`: refinement of `DeleteSink`, no call beyond the limit; a full buffer is flushed even if no tick ever comes, every `close` returns; with ticks, every handle settles |
| `batcher_timed` | 4 handles, 2 workers, 2 closers, MaxSize 2, Linger 3, flushTimeout 2 | `WaitBound`: a handle waits for Linger, or for the call in progress and the batches in front of it; `CloseBound`: `close` lasts one flushTimeout per batch |
| `subscriber` | 2 workers, 2 closers, 2 messages; on a FIFO queue 2 receptions each, without draining, with and without batching; on a standard queue 1 reception, draining | `NoLoss`, `FIFOOrder`, and for shutdown `CloseQuiesces`, `NoAckWasted`, `DrainShieldsHandler` |
| `subscriber_shutdown` | 2 calls of Subscribe, 1 closer, 1 message, draining, batching | `Close` returns whatever handlers do, or its `Wait` panics, but only if a racing `Subscribe` reused the WaitGroup; and leaves nothing behind of subscriptions made before it |
| `subscriber_progress` | 1 worker, 2 messages, 2 receptions each, the first is poison, no draining | `Close` returns although a delete hangs; with a fair environment, every message is deleted or dead-lettered |
| `provision` | a call of each kind, 2 messages, dead-letter queue, pairs of resolvers (caching, not caching, knowing only URLs) and permissions to create | what calls report is true (`PublishedInOrder`, `CheckedQueueExisted`, `NotFoundIsTrue`, `NilUrlNeedsDeletion`), and what they leave behind (`FailedPublishHeals`, `RedriveHasTarget`, `OnlyAllowedCreate`) |
| `sns` | 2 calls of Publish with 2 messages, a SubscribeInitialize, a Subscribe, 2 topics of one name, 1 queue, every option off once | `PublishedOnce`, `PublishSucceeds`, `SubscribedIsReady`, `NoMessageRefused`, `SubscriberReached` |
| `conversions` | 4 keys, 2 values, 3 hops; amounts around each limit; names of up to 6 characters | `MessageSurvives`, `ForeignArrives`; `AcceptedIsUsable`, `ChoicesAreKept`; `DlqIsUsable`, `AskedIsSent` |
| `close_races_subscribe`, `delete_stalls`, `subscribe_unknown`, `linger_exceeded` | expected violations | see Findings |

**Bounds.** Two workers are the smallest number at which `add` races `add` and a
worker holds an outdated reception. Three handles with an effective MaxSize of 2
let the buffer grow past one batch, or refill while the flusher is in a call; the
fourth one of `batcher_timed` makes a batch wait for a batch that waits for a call.
Two messages make order and "the rest of the batch" meaningful; two receptions
make a redelivery and a stale handle; two closers exercise the second caller.
In `subscriber_shutdown` two subscriptions are what a panic of `Wait` takes: one that
runs when `Close` begins and one that comes late. It has one closer, so what a second
`Close` finds after a panic is covered by the proof alone (section 6).
`MaxReceiveCount` is the budget of receptions: it is the code's own parameter,
and it bounds the state space (`MaxReceives` is its largest value). The part of
`subscriber` with draining looks at shutdown and needs one reception; the part
with the FIFO queue looks at redeliveries and is cut off where `Close` begins
(`CONSTRAINT NoCloseOnFifo`), because `Close` only takes workers away from it.

In `provision`, two messages give a queue that disappears in the middle of a
`Publish`; two steps of other programs (`MaxOther`) delete a queue and create it
again; one failure (`MaxFailures`) can hit each SQS call in turn, and every call
stops at its first failure. In `sns` there is one of each: a topic or queue that
others delete, and one failed or lost call. Its configurations are the default and
the default with one option switched off, and at most one call is about the topic
of another account, so that two topics share a queue in some behaviours and not in
others. In `conversions`, six characters with `-d` for `-dlq` and three for `.fifo`
give stems that are too long for the suffix, end in a part of it, and have the full
length; the amounts are those on both sides of a comparison in the code; three hops
(`MaxHops`) put SQS before and after SNS. Symmetry is used for safety properties
only, all of them symmetric in the permuted sets.

**Fairness.** `GoroutineFairness` of `DeleteBatcher` and `Subscriber` says that the scheduler runs
every runnable goroutine, that timers fire, and that a call whose context has a
deadline or is cancelled returns. Stopping cases of a select get strong fairness
because Go picks at random among the ready cases. Nothing is assumed of the
ticker, of handlers, of the reader of `output`, of users. The two properties that
need more say so themselves: `EveryHandleSettles` holds if the linger ticker fires
again and again (`TickerFairness`), `EveryMessageEnds` in the best of environments
(`EnvironmentFairness`: handlers settle, the reader reads, deletes return, SQS does
not answer "empty" for ever). The other modules state no liveness: their calls end
because each step brings them closer to their return, and whether AWS answers is
not the code's to promise. `TimedBatcher` has bounds instead, which need no fairness.

**Mutants.** Every property has a plausible bug of the code it detects; these are
the definitions marked "Mutant" above the one they stand in for, and are used by
no specification.

## 5. Findings

- `close_races_subscribe`: `Subscribe` reads `s.closed` before, and calls
  `subscribersWg.Add` after, everything `Close` does. `Close` then returns with
  workers running and a batcher nobody closes, against the comments at
  `sqs/subscriber.go:372` and `:27`. Such workers do stop by themselves, since
  `s.closing` is closed, and late handles are deleted one by one. If another
  subscription was running, its end releases `Wait`, and an `Add` before `Wait` has
  returned makes it panic: `CloseTerminates` says that nothing else does.
- `delete_stalls`: without draining, `deleteMessage` has no timeout of its own,
  against the comment at `sqs/subscriber.go:310`.
- `subscribe_unknown`: with a resolver that leaves `Exists` nil, `Subscribe` never
  creates the queue, against the comment at `sqs/subscriber.go:75`.
- `linger_exceeded`: a handle that arrives while the flusher is in a call waits for
  that call, which may take flushTimeout (30 s by default, Linger is 500 ms), against
  the "worst case ~2x" at `sqs/config.go:97`. `WaitBound` is the bound that holds.

Three more things show in `QueueProvisioning` and contradict no statement closely
enough to be a finding. With a resolver that leaves `Exists` nil and
`DoNotCreateQueueIfNotExists`, `Publish` calls every queue missing, although nil
means "doesn't have information" (`sqs/url_resolver.go:37`). A queue created by
someone else between the lookup and `CreateQueue` stays without redrive policy
and `createSourceQueue` still returns nil (`sqs/sqs.go:44`). A queue deleted right
after its creation makes `Subscribe` dereference a nil URL
(`sqs/subscriber.go:91`, the value `"panic"` of `pc`); `NilUrlNeedsDeletion` says
that lost answers, failures and races between the clients do not. It says nothing
of a queue that SQS does not show to `GetQueueUrl` right after its creation, which
the model leaves out and which ends at the same line.

`Publish` does not resend the message after it has created the missing queue
(`sqs/publisher.go:59`); it reports the error, so this contradicts no statement of
the code, and `FailedPublishHeals` says what the caller gains from it. The SNS
publisher does resend.

In the other modules: the dead-letter queue of a queue whose name has the full
length is the queue itself (the exception in `DlqIsUsable`). Two topics that share
a queue take the permission from each other (`Shared` in `SnsPubSub`). A topic that
others deleted is created again by `Publish` without its subscriptions, and a queue
deleted during `Subscribe` is created again without its policy: the properties are
stated for topics and queues that stay (`disturbed`). `SubscriberReached` has one
more exception, `~config.policy`: without a policy of its own the queue may refuse
every notification. `sqs.PublisherConfig.Validate` (`sqs/config.go:280`) is the only
one of the four that accepts a configuration without credentials; `NewPublisher`
passes them on to the client, whose calls then fail unless `OptFns` supply some
(`Unchecked`, the exception in `AcceptedIsUsable`). A message in which another
publisher uses the reserved attribute without a text makes `Unmarshal` panic
(`ForeignArrives` says that nothing else does).

## 6. Proofs

Every invariant and both action properties that the passing runs check, and the
refinement, are proved for every value of the constants. The assumptions are those
the modules state of their constants, no others, and no theorem has a hypothesis
besides the specification:

- `BatcherAssumption`: the flusher is not a worker, the configured size is an
  integer, the limit of SQS is positive; `TimedAssumption`: Linger and flushTimeout
  are positive. `Configuration` shows that the constructors establish it.
- `QueueAssumption`, `SubscriberAssumption`, `ProvisioningAssumption`,
  `SnsAssumption`: constants have their types, the kinds of calls are disjoint, and
  in SNS the topic that a client creates for a name is its own.
- `MarshalerAssumption`, `ConfigurationAssumption`, `QueueInputAssumption`: amounts
  are integers, the reserved keys are keys, a name has room for more than the suffix,
  nobody writes the generated redrive policy by hand.

| Module | Proves |
|---|---|
| `DeleteBatcherProofs` | `TypeOK`, `ExactlyOnce`, `NoLostWakeup`, `CloseFlushesPending` |
| `DeleteBatcherRefinement` | `Refinement`: the batcher implements `DeleteSink` |
| `TimedBatcherProofs` | `WaitBound`, `CloseBound` |
| `SubscriberProofs` | `TypeOK`, `NoLoss`, `FIFOOrder`, `CloseQuiesces`, `NoAckWasted`, `DrainShieldsHandler` |
| `QueueProvisioningProofs` | `TypeOK`, `PublishedInOrder`, `FailedPublishHeals`, `RedriveHasTarget`, `CheckedQueueExisted`, `NotFoundIsTrue`, `NilUrlNeedsDeletion`, `OnlyAllowedCreate` |
| `SnsPubSubProofs` | `TypeOK`, `PublishedOnce`, `PublishSucceeds`, `SubscribedIsReady`, `NoMessageRefused`, `SubscriberReached` |
| `ConversionsProofs` | `AcceptedIsUsable`, `ChoicesAreKept`, `MessageSurvives`, `ForeignArrives`, `AskedIsSent`, `DlqIsUsable` |

In each module one invariant is inductive, each of its conjuncts has a lemma for the
step, and the properties follow from it. TLC checked each invariant on the instance
of a run before it was proved.

**Delete batcher.** None of the properties but `NoLostWakeup` is inductive by
itself. `IInv` adds where an accepted handle is (`HandlesTracked`: pending, in a
call, or settled), that only an actor inside `deleteNow` has a call
(`CallsInProgress`), and the order of a shutdown (`ShutdownOrder`: closed before
done, done before the last flush, an empty buffer before the flusher leaves).
`ExactlyOnce` needs the first two, because `flush` moves a prefix of `pending` into
a call that must have been empty; that the prefix and the rest of a sequence without
repetitions share no handle is `SplitRange`. The refinement needs that a handle is
in one place only (`OnePlace`) and that a worker deletes one at a time
(`LateAlone`): the phase that the mapping gives a handle is then a function of its
place, and a step of the sink is what a step does to places.

**Time.** A behaviour of `TimedBatcher` is one of `DeleteBatcher` (`Untimed`), so
`IInv` holds of it. `TimedInv` adds where a handle is in the flusher's turns
(`InTurn`): in the select it has not waited past a tick, and if it has waited at
all, it is in the first batch, because a full buffer leaves no time to pass
(`NoLostWakeup`); after that, each batch that was taken has brought it `MaxSize`
places forward, and its time is bounded by the turns it has seen. `ClosesInTurn`
says the same of a caller of `close` and of the batches that are left; it needs
that nothing is buffered after the close and that somebody is about to close `done`
(`CloserOrder`).

**Subscriber.** `IInv` follows the two threads of the module. For shutdown:
`closedLock` keeps the callers of `Close` apart (`CloseOrder`), a registered batcher
is in the list, in the hands of `Close`, or drained (`BatchersTracked`), the
subscriptions that `Close` found have finished when its `Wait` is released
(`EarlyFinished`), whether it then returns or panics, and no worker runs without its
subscription (`WorkersRun`). For messages: what SQS has not delivered is nowhere
(`NotReceivedYet`), a reception is in one place of one batch (`BatchesApart`) and
has no handler before it is offered (`NotOfferedYet`); so a reception is deleted or
buffered only after its own ack (`AckedFirst`), which gives `NoLoss`.
`HandlersTracked` says where an ack is on its way to SQS, for `NoAckWasted`.
`OlderFirst` is what makes a FIFO queue's order last: every older message is gone or
in front of a message in the same batch.

**Provisioning.** Two invariants. `IInv` is about publication and dead-letter
queues: `Progress` (SQS has accepted the messages a Publish has sent and at most the
one whose answer was lost), `ArnFirst` (a subscriber with a dead-letter queue
reaches `CreateQueue` only through `GetDlqArn`), `ResolvesAgain` with `NotBegun` (a
Publish that resolves for the second time has seen the queue exist). `Findings` is
about what calls learn: who is on the way to `CreateQueue` may create
(`CreatesIfAllowed`), only the by-name resolver caches (`CachedByName`), a queue
that a call made sure of stays until it is deleted, which makes the call one of
`lost` (`CreatedStays`).
`ResolvedGoesTo`, `CreateGoesTo` and `StepLeads` bound where each step can lead, so
that the proofs need no case split on the callers.

**SNS.** `Progress` and `TopicThere` are about the two attempts of a Publish.
`SubscribeProgress` says what each stage of a subscription has left in SQS and SNS
unless the call was disturbed. `Permitted` says that a subscription, and a
notification on its way, has the permission it needs, and `AudienceSubscribed` that
the queues a Publish must reach remain subscribed. `Notified` says that an accepted
message was sent to each of them; that none was refused is `NoMessageRefused`, so
`SubscriberReached` follows from the two (`NotRefused`).

**Conversions.** The specifications of the three modules are proved about one by
one (`MarshalerSpec`, `ConfigurationSpec`, `QueueInputSpec`); the run starts the
three side by side. The keys, values and texts are any sets, amounts any integers,
names of any length. `MarshalerInv` says that what is on the wire will be read back
as the original without the keys it loses on the way; that way after way loses
nothing more is `KeptFacts`. `DlqUnique` takes a suffix off again.

**What the proofs changed in the model.** Two definitions with a `CASE` had guards
that overlap, which TLA+ leaves open where TLC takes the first: `GetQueueArn` of
`SnsPubSub`, where a queue that is missing meets the options, and the history
`ahead` of `TimedBatcher`, where a handle leaves the buffer. Both are `IF`s now. The last
conjunct of `Receivable` in `SqsQueue` and the merge of attributes in `QueueInput`
(`Over`) were put in a form the provers can expand.

**Only model-checked.** The liveness properties `SizeTriggersFlush`,
`EveryHandleSettles` and `CloseTerminates` of the batcher, `CloseTerminates` and
`EveryMessageEnds` of the subscriber: liveness under fairness is out of the prover's
reach, and what is known of them is known of the instances of the runs. The
composition of `Subscriber` with the real batcher rests on the refinement: the
subscriber has sinks, and the batcher is proved to be one.

## 7. Not modelled

Endpoint resolvers (`sqs/endpoint_resolver.go`, `sns/endpoint_resolver.go`) return
the URI they were built with: no state, no branch. The texts of URLs, ARNs and
policies appear as functions (`QueueOf`, `OwnArn`) or not at all: no decision of
the code depends on them, except the number of segments of an ARN, whose error ends
a call like any other. The generators of inputs are represented by what their
defaults do; a user's own may do anything, and the properties about inputs are not
about them. The eventual consistency of SQS and SNS is left out: a queue is visible
as soon as it is created.
