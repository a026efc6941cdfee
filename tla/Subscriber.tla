----------------------------- MODULE Subscriber -----------------------------
(***************************************************************************)
(* sqs/subscriber.go: calls of Subscribe, the consume workers each of them *)
(* starts, the handlers that read the output channel, and Close, all on    *)
(* one SQS queue (SqsQueue).                                               *)
(*                                                                         *)
(* A worker step is what a worker does between two points where it can     *)
(* block or be overtaken: its selects, its SQS calls, its calls of add.    *)
(* A delete batcher is represented by what DeleteSink says of it, which    *)
(* DeleteBatcher implements: a set of handles that are sent to SQS one     *)
(* after the other, and whose close waits until none is left.              *)
(***************************************************************************)
EXTENDS SqsQueue

CONSTANTS Subscriptions,   \* calls of Subscribe
          ConsumeWorkers,  \* SubscriberConfig.ConsumeWorkers
          Closers,         \* callers of Close
          Poison           \* messages the Unmarshaler rejects

ASSUME SubscriberAssumption ==
    /\ ConsumeWorkers \in Nat \ {0}
    /\ Poison \subseteq Messages

Workers == Subscriptions \X (1..ConsumeWorkers)
WorkersOf(s) == {s} \X (1..ConsumeWorkers)

VARIABLES sub,        \* where each call of Subscribe is
          pc,         \* where each worker is
          batch,      \* the receptions a worker still has to process
          ctxDone,    \* the worker's receive context is cancelled
          timer,      \* drainTimer of the worker's processMessage
          handler,    \* what the handler of each reception has done
          buffered,   \* the handles each subscription's batcher holds
          sinkClosed, \* close has begun on the subscription's batcher
          batchers,   \* s.deleteBatchers
          closed,     \* s.closed; also: s.closing is closed
          closer,     \* where each caller of Close is
          taken,      \* the batchers Close took and has not closed yet
          early,      \* history: Subscribe had returned when Close began
          tried,      \* history: receptions a delete was attempted for
          abandoned   \* history: receptions given up at the drain deadline

subVars == <<config, sub, batchers>>
workerVars == <<pc, batch, ctxDone, timer>>
sinkVars == <<buffered, sinkClosed>>
closeVars == <<closed, closer, taken, early>>
history == <<tried, abandoned>>
vars == <<queueVars, subVars, workerVars, handler, sinkVars, closeVars, history>>

Drain == config.drain
Batched == config.batched

TypeOK ==
    /\ QueueTypeOK
    /\ sub \in [Subscriptions -> {"idle", "checked", "registered", "started",
                                  "running", "finished", "failed"}]
    /\ pc \in [Workers -> {"off", "select", "receive", "offer", "wait",
                           "delete", "late", "stopped"}]
    /\ batch \in [Workers -> Seq(Deliveries)]
    /\ \A w \in Workers : (batch[w] = <<>>) <=> pc[w] \in {"off", "select", "receive", "stopped"}
    /\ ctxDone \in [Workers -> BOOLEAN]
    /\ timer \in [Workers -> {"off", "armed", "fired"}]
    /\ handler \in [Deliveries -> {"none", "running", "acked", "nacked"}]
    /\ buffered \in [Subscriptions -> SUBSET Deliveries]
    /\ sinkClosed \in [Subscriptions -> BOOLEAN]
    /\ batchers \in Seq(Subscriptions)
    /\ taken \in Seq(Subscriptions)
    /\ closed \in BOOLEAN
    /\ closer \in [Closers -> {"idle", "waiting", "blocked", "released", "flushing",
                           "returned", "panic"}]
    /\ early \in SUBSET Subscriptions
    /\ tried \in SUBSET Deliveries
    /\ abandoned \in SUBSET Deliveries

Init ==
    /\ QueueInit
    /\ sub = [s \in Subscriptions |-> "idle"]
    /\ pc = [w \in Workers |-> "off"]
    /\ batch = [w \in Workers |-> <<>>]
    /\ ctxDone = [w \in Workers |-> FALSE]
    /\ timer = [w \in Workers |-> "off"]
    /\ handler = [d \in Deliveries |-> "none"]
    /\ buffered = [s \in Subscriptions |-> {}]
    /\ sinkClosed = [s \in Subscriptions |-> FALSE]
    /\ batchers = <<>>
    /\ taken = <<>>
    /\ closed = FALSE
    /\ closer = [c \in Closers |-> "idle"]
    /\ early = {}
    /\ tried = {}
    /\ abandoned = {}

-----------------------------------------------------------------------------
(* Subscribe. It reads s.closed without closedLock, so while a Close that  *)
(* has set it is still running the read may return either value.           *)
CloseReturned == \E c \in Closers : closer[c] = "returned"
Panicked == \E c \in Closers : closer[c] = "panic"

SubscribeChecks(s) ==
    /\ sub[s] = "idle"
    /\ \/ ~CloseReturned /\ ~Panicked /\ sub' = [sub EXCEPT ![s] = "checked"]
       \/ closed /\ sub' = [sub EXCEPT ![s] = "failed"]
    /\ UNCHANGED <<queueVars, config, batchers, workerVars, handler, sinkVars, closeVars, history>>

(* The queue cannot be resolved, created or described: Subscribe returns   *)
(* the error and has started nothing.                                      *)
SubscribeFails(s) ==
    /\ sub[s] = "checked"
    /\ sub' = [sub EXCEPT ![s] = "failed"]
    /\ UNCHANGED <<queueVars, config, batchers, workerVars, handler, sinkVars, closeVars, history>>

RegisterBatcher(s) ==
    /\ sub[s] = "checked"
    /\ sub' = [sub EXCEPT ![s] = "registered"]
    /\ batchers' = IF Batched THEN Append(batchers, s) ELSE batchers
    /\ UNCHANGED <<queueVars, config, workerVars, handler, sinkVars, closeVars, history>>

StartWorkers(s) ==
    /\ sub[s] = "registered"
    /\ sub' = [sub EXCEPT ![s] = "started"]
    /\ pc' = [w \in Workers |-> IF w \in WorkersOf(s) THEN "select" ELSE pc[w]]
    /\ UNCHANGED <<queueVars, config, batchers, batch, ctxDone, timer, handler, sinkVars, closeVars, history>>

(* subscribersWg.Add(1), the cleanup goroutine starts, Subscribe returns.  *)
SubscribeReturns(s) ==
    /\ sub[s] = "started"
    /\ sub' = [sub EXCEPT ![s] = "running"]
    /\ UNCHANGED <<queueVars, config, batchers, workerVars, handler, sinkVars, closeVars, history>>

\* Mutant: the first subscription to end releases Close.
FirstDone(s) == [c \in Closers |-> IF closer[c] = "blocked" THEN "released" ELSE closer[c]]

(* subscribersWg.Done: the counter is the number of subscriptions that     *)
(* run, and taking it to zero releases a Close blocked in Wait. (An Add    *)
(* between the two panics in the cleanup goroutine and ends the process.)  *)
Done(s) == [c \in Closers |->
    IF closer[c] = "blocked" /\ \A r \in Subscriptions \ {s} : sub[r] # "running"
    THEN "released" ELSE closer[c]]

(* The cleanup goroutine: output is closed once every worker has stopped.  *)
Cleanup(s) ==
    /\ sub[s] = "running"
    /\ \A w \in WorkersOf(s) : pc[w] = "stopped"
    /\ sub' = [sub EXCEPT ![s] = "finished"]
    /\ closer' = Done(s)
    /\ UNCHANGED <<queueVars, config, batchers, workerVars, handler, sinkVars,
                   closed, taken, early, history>>

(* The context the user passed to Subscribe is cancelled.                  *)
UserCancels(s) ==
    /\ sub[s] \in {"registered", "started", "running"}
    /\ \E w \in WorkersOf(s) : ~ctxDone[w]
    /\ ctxDone' = [w \in Workers |-> ctxDone[w] \/ w \in WorkersOf(s)]
    /\ UNCHANGED <<queueVars, subVars, pc, batch, timer, handler, sinkVars, closeVars, history>>

-----------------------------------------------------------------------------
(* receive: the worker's loop.                                             *)
Stopping(w) == closed \/ ctxDone[w]

Enter(w, label) == pc' = [pc EXCEPT ![w] = label]

(* The goroutine that waits for s.closing and cancels the worker's ctx.    *)
WatchClosing(w) ==
    /\ closed
    /\ pc[w] \notin {"off", "stopped"}
    /\ ~ctxDone[w]
    /\ ctxDone' = [ctxDone EXCEPT ![w] = TRUE]
    /\ UNCHANGED <<queueVars, subVars, pc, batch, timer, handler, sinkVars, closeVars, history>>

Stop(w) ==
    /\ pc[w] = "select"
    /\ Stopping(w)
    /\ Enter(w, "stopped")
    /\ UNCHANGED <<queueVars, subVars, batch, ctxDone, timer, handler, sinkVars, closeVars, history>>

CallReceive(w) ==
    /\ pc[w] = "select"
    /\ Enter(w, "receive")
    /\ UNCHANGED <<queueVars, subVars, batch, ctxDone, timer, handler, sinkVars, closeVars, history>>

Receive(w, ms) ==
    /\ pc[w] = "receive"
    /\ GiveOut(ms)
    /\ batch' = [batch EXCEPT ![w] = ReceiptsOf(ms)]
    /\ Enter(w, "offer")
    /\ UNCHANGED <<subVars, ctxDone, timer, handler, sinkVars, closeVars, history>>

(* ReceiveMessage returns an error or no message. When the call is         *)
(* cancelled or its answer is lost, SQS may have given messages out.       *)
ReceiveNothing(w) ==
    /\ pc[w] = "receive"
    /\ \/ UNCHANGED queueVars
       \/ \E ms \in MessageLists : GiveOut(ms)
    /\ Enter(w, "select")
    /\ UNCHANGED <<subVars, batch, ctxDone, timer, handler, sinkVars, closeVars, history>>

-----------------------------------------------------------------------------
(* processMessage and consumeMessages: current is the reception at hand.   *)
(* A processMessage that returns true goes on with the next message of the *)
(* batch, one that returns false drops the rest of it.                     *)
Current(w) == Head(batch[w])

\* Mutant: the last message of a batch is not recognised as the last.
NeverLast(w) == "offer"

AfterMessage(w) == IF Len(batch[w]) = 1 THEN "select" ELSE "offer"

Processed(w) ==
    /\ batch' = [batch EXCEPT ![w] = Tail(@)]
    /\ Enter(w, AfterMessage(w))
    /\ timer' = [timer EXCEPT ![w] = "off"]
    /\ UNCHANGED ctxDone

NotProcessed(w) ==
    /\ batch' = [batch EXCEPT ![w] = <<>>]
    /\ Enter(w, "select")
    /\ timer' = [timer EXCEPT ![w] = "off"]
    /\ UNCHANGED ctxDone

\* Mutant: a message that cannot be unmarshalled is tried again and again.
RetryPoison(w) == Stopping(w)

CannotSend(w) == Current(w)[1] \in Poison \/ Stopping(w)

(* Unmarshal fails, or s.closing or ctx is seen before a reader takes msg. *)
DiscardBeforeSend(w) ==
    /\ pc[w] = "offer"
    /\ CannotSend(w)
    /\ NotProcessed(w)
    /\ UNCHANGED <<queueVars, subVars, handler, sinkVars, closeVars, history>>

(* output <- msg: the subscriber's reader takes the message.               *)
HandOff(w) ==
    /\ pc[w] = "offer"
    /\ Current(w)[1] \notin Poison
    /\ handler' = [handler EXCEPT ![Current(w)] = "running"]
    /\ Enter(w, "wait")
    /\ UNCHANGED <<queueVars, subVars, batch, ctxDone, timer, sinkVars, closeVars, history>>

(* msg.Ack() or msg.Nack(), also long after the worker gave the message up.*)
HandlerSettles(d) ==
    /\ handler[d] = "running"
    /\ \E verdict \in {"acked", "nacked"} : handler' = [handler EXCEPT ![d] = verdict]
    /\ UNCHANGED <<queueVars, subVars, workerVars, sinkVars, closeVars, history>>

\* Mutant: a nack is taken for an ack.
SeesAnyVerdict(w) == pc[w] = "wait" /\ handler[Current(w)] \in {"acked", "nacked"}

SeesAck(w) == pc[w] = "wait" /\ handler[Current(w)] = "acked"

(* case <-msg.Acked(), batched: add, on an open or on a closed batcher.    *)
AckToBatcher(w) ==
    /\ SeesAck(w)
    /\ Batched
    /\ IF sinkClosed[w[1]]
       THEN /\ Enter(w, "late")
            /\ tried' = tried \cup {Current(w)}
            /\ UNCHANGED <<buffered, batch, timer, ctxDone>>
       ELSE /\ buffered' = [buffered EXCEPT ![w[1]] = @ \cup {Current(w)}]
            /\ Processed(w)
            /\ UNCHANGED tried
    /\ UNCHANGED <<queueVars, subVars, handler, sinkClosed, closeVars, abandoned>>

LateDeleteReturns(w) ==
    /\ pc[w] = "late"
    /\ EraseOrNot(Current(w))
    /\ Processed(w)
    /\ UNCHANGED <<subVars, handler, sinkVars, closeVars, history>>

(* case <-msg.Acked(), not batched: the worker calls deleteMessage.        *)
AckToDelete(w) ==
    /\ SeesAck(w)
    /\ ~Batched
    /\ Enter(w, "delete")
    /\ tried' = tried \cup {Current(w)}
    /\ UNCHANGED <<queueVars, subVars, batch, ctxDone, timer, handler, sinkVars, closeVars, abandoned>>

DeleteSucceeds(w) ==
    /\ pc[w] = "delete"
    /\ \/ Erase(Current(w))
       \/ Ignorable(Current(w)) /\ UNCHANGED queueVars
    /\ Processed(w)
    /\ UNCHANGED <<subVars, handler, sinkVars, closeVars, history>>

(* An error, a cancelled ctx or, with draining, the timeout. SQS may have  *)
(* deleted the message all the same.                                       *)
DeleteFails(w) ==
    /\ pc[w] = "delete"
    /\ EraseOrNot(Current(w))
    /\ NotProcessed(w)
    /\ UNCHANGED <<subVars, handler, sinkVars, closeVars, history>>

\* Mutant: after a nack the worker goes on with the rest of its batch.
NackedGoesOn(w) ==
    /\ pc[w] = "wait"
    /\ handler[Current(w)] = "nacked"
    /\ Processed(w)
    /\ UNCHANGED <<queueVars, subVars, handler, sinkVars, closeVars, history>>

Nacked(w) ==
    /\ pc[w] = "wait"
    /\ handler[Current(w)] = "nacked"
    /\ NotProcessed(w)
    /\ UNCHANGED <<queueVars, subVars, handler, sinkVars, closeVars, history>>

\* Mutant: the CloseTimeout test is missing, in-flight messages are dropped.
DiscardWithoutDrain(w) ==
    /\ pc[w] = "wait"
    /\ Stopping(w)
    /\ NotProcessed(w)
    /\ UNCHANGED <<queueVars, subVars, handler, sinkVars, closeVars, history>>

\* Mutant: the wait for the handler has no case for closing or ctx.
WaitWithoutEscape(w) == FALSE

DiscardBeforeAck(w) ==
    /\ pc[w] = "wait"
    /\ ~Drain
    /\ Stopping(w)
    /\ NotProcessed(w)
    /\ UNCHANGED <<queueVars, subVars, handler, sinkVars, closeVars, history>>

(* startDrain: by s.closing or by ctx, whichever the select sees first;    *)
(* the other one finds the timer set and changes nothing.                  *)
StartDrain(w) ==
    /\ pc[w] = "wait"
    /\ Drain
    /\ Stopping(w)
    /\ timer[w] = "off"
    /\ timer' = [timer EXCEPT ![w] = "armed"]
    /\ UNCHANGED <<queueVars, subVars, pc, batch, ctxDone, handler, sinkVars, closeVars, history>>

DrainTimerFires(w) ==
    /\ pc[w] = "wait"
    /\ timer[w] = "armed"
    /\ timer' = [timer EXCEPT ![w] = "fired"]
    /\ UNCHANGED <<queueVars, subVars, pc, batch, ctxDone, handler, sinkVars, closeVars, history>>

DrainDeadline(w) ==
    /\ pc[w] = "wait"
    /\ timer[w] = "fired"
    /\ abandoned' = abandoned \cup {Current(w)}
    /\ NotProcessed(w)
    /\ UNCHANGED <<queueVars, subVars, handler, sinkVars, closeVars, tried>>

-----------------------------------------------------------------------------
(* The batcher of a subscription sends a handle to SQS: see DeleteSink.    *)
Flush(s, d) ==
    /\ d \in buffered[s]
    /\ buffered' = [buffered EXCEPT ![s] = @ \ {d}]
    /\ tried' = tried \cup {d}
    /\ EraseOrNot(d)
    /\ UNCHANGED <<subVars, workerVars, handler, sinkClosed, closeVars, abandoned>>

-----------------------------------------------------------------------------
(* Close. closedLock is held from the first check to the return.           *)
Unlocked == \A c \in Closers :
    closer[c] \notin {"waiting", "blocked", "released", "flushing"}

CloseBegins(c) ==
    /\ closer[c] = "idle"
    /\ Unlocked
    /\ ~closed
    /\ closed' = TRUE
    /\ closer' = [closer EXCEPT ![c] = "waiting"]
    /\ early' = {s \in Subscriptions : sub[s] \in {"running", "finished"}}
    /\ UNCHANGED <<queueVars, subVars, workerVars, handler, sinkVars, taken, history>>

CloseAgain(c) ==
    /\ closer[c] = "idle"
    /\ Unlocked
    /\ closed
    /\ closer' = [closer EXCEPT ![c] = "returned"]
    /\ UNCHANGED <<queueVars, subVars, workerVars, handler, sinkVars, closed, taken, early, history>>

\* Mutant: Close does not wait for the workers.
NoWait == TRUE

SubscribersDone == \A s \in Subscriptions : sub[s] # "running"

(* subscribersWg.Wait finds a counter above zero.                          *)
CloseBlocks(c) ==
    /\ closer[c] = "waiting"
    /\ ~SubscribersDone
    /\ closer' = [closer EXCEPT ![c] = "blocked"]
    /\ UNCHANGED <<queueVars, subVars, workerVars, handler, sinkVars, closed, taken, early, history>>

(* Wait was released, but a Subscribe that raced Close has called Add in   *)
(* between: "WaitGroup is reused before previous Wait has returned". The   *)
(* deferred Unlock runs; the caller recovers, or what follows is cut off.  *)
ClosePanics(c) ==
    /\ closer[c] = "released"
    /\ ~SubscribersDone
    /\ closer' = [closer EXCEPT ![c] = "panic"]
    /\ UNCHANGED <<queueVars, subVars, workerVars, handler, sinkVars, closed, taken, early, history>>

(* subscribersWg.Wait returns, at once or released and not overtaken, and  *)
(* Close takes s.deleteBatchers: a batcher registered later stays in the   *)
(* list, and nobody closes it.                                             *)
CloseWaited(c) ==
    /\ closer[c] \in {"waiting", "released"}
    /\ SubscribersDone
    /\ closer' = [closer EXCEPT ![c] = "flushing"]
    /\ taken' = batchers
    /\ batchers' = <<>>
    /\ UNCHANGED <<queueVars, config, sub, workerVars, handler, sinkVars, closed, early, history>>

\* Mutant: b.close() does not wait for the last flush.
FlushedOrNot(s) == TRUE

Flushed(s) == buffered[s] = {}

(* b.close() on the batchers in turn: it begins, and waits for the flush.  *)
CloseBatcher(c) ==
    /\ closer[c] = "flushing"
    /\ taken # <<>>
    /\ sinkClosed' = [sinkClosed EXCEPT ![Head(taken)] = TRUE]
    /\ IF sinkClosed[Head(taken)]
       THEN Flushed(Head(taken)) /\ taken' = Tail(taken)
       ELSE UNCHANGED taken
    /\ UNCHANGED <<queueVars, subVars, workerVars, handler, buffered, closed, closer, early, history>>

CloseReturns(c) ==
    /\ closer[c] = "flushing"
    /\ taken = <<>>
    /\ closer' = [closer EXCEPT ![c] = "returned"]
    /\ UNCHANGED <<queueVars, subVars, workerVars, handler, sinkVars, closed, taken, early, history>>

-----------------------------------------------------------------------------
QueueStep ==
    /\ \E m \in Messages : VisibilityExpires(m) \/ Redrive(m)
    /\ UNCHANGED <<subVars, workerVars, handler, sinkVars, closeVars, history>>

(* Nobody is inside a call and no goroutine of the subscriber is left.     *)
Terminated ==
    /\ \A c \in Closers : closer[c] \in {"returned", "panic"}
    /\ \A s \in Subscriptions : sub[s] \in {"finished", "failed"}
    /\ UNCHANGED vars

SubscribeStep(s) == \/ SubscribeChecks(s) \/ SubscribeFails(s) \/ RegisterBatcher(s)
                    \/ StartWorkers(s) \/ SubscribeReturns(s) \/ Cleanup(s)

DeleteStep(w) == DeleteSucceeds(w) \/ DeleteFails(w)

(* What a worker does next without an answer from SQS, a timer, or a       *)
(* reader of its channel.                                                  *)
WorkerStep(w) == \/ Stop(w) \/ CallReceive(w) \/ DiscardBeforeSend(w)
                 \/ AckToBatcher(w) \/ AckToDelete(w) \/ Nacked(w) \/ DiscardBeforeAck(w)
                 \/ StartDrain(w) \/ DrainDeadline(w)

ReceiveStep(w) == ReceiveNothing(w) \/ \E ms \in MessageLists : Receive(w, ms)

CloseStep(c) == \/ CloseBlocks(c) \/ ClosePanics(c) \/ CloseWaited(c)
                \/ CloseBatcher(c) \/ CloseReturns(c)

Next == \/ QueueStep
        \/ \E s \in Subscriptions : SubscribeStep(s) \/ UserCancels(s)
        \/ \E w \in Workers : \/ WorkerStep(w) \/ ReceiveStep(w) \/ DeleteStep(w)
                             \/ WatchClosing(w) \/ HandOff(w) \/ DrainTimerFires(w)
                             \/ LateDeleteReturns(w)
        \/ \E d \in Deliveries : HandlerSettles(d) \/ \E s \in Subscriptions : Flush(s, d)
        \/ \E c \in Closers : CloseBegins(c) \/ CloseAgain(c) \/ CloseStep(c)
        \/ Terminated

Spec == Init /\ [][Next]_vars

(* The scheduler runs every runnable goroutine, timers fire, and a call    *)
(* with a bounded or a cancelled context returns. A select picks at random *)
(* among its ready cases, so Stop is taken if it is ready again and again. *)
(* Nothing is assumed of handlers, of the reader of output, of users.      *)
GoroutineFairness ==
    /\ \A s \in Subscriptions :
          /\ WF_vars(RegisterBatcher(s)) /\ WF_vars(StartWorkers(s))
          /\ WF_vars(SubscribeReturns(s)) /\ WF_vars(Cleanup(s))
          /\ \A d \in Deliveries : WF_vars(Flush(s, d))
    /\ \A w \in Workers :
          /\ WF_vars(WorkerStep(w)) /\ SF_vars(Stop(w))
          /\ WF_vars(ReceiveStep(w)) /\ WF_vars(WatchClosing(w))
          /\ WF_vars(DrainTimerFires(w)) /\ WF_vars(LateDeleteReturns(w))
          /\ WF_vars((Drain \/ ctxDone[w]) /\ DeleteStep(w))
    /\ \A c \in Closers : WF_vars(CloseAgain(c)) /\ WF_vars(CloseStep(c))

FairSpec == Spec /\ GoroutineFairness

(* The environment at its best: handlers settle, the reader reads, SQS     *)
(* answers, and does not answer "empty" for ever when it has messages.     *)
EnvironmentFairness ==
    /\ WF_vars(QueueStep)
    /\ \A d \in Deliveries : WF_vars(HandlerSettles(d))
    /\ \A w \in Workers :
          /\ WF_vars(HandOff(w)) /\ WF_vars(DeleteStep(w))
          /\ SF_vars(\E ms \in MessageLists : Receive(w, ms))

-----------------------------------------------------------------------------
(* Safety. *)

(* At-least-once: a message leaves the queue for good only if some handler *)
(* acked a reception of it, or through the dead-letter queue.              *)
NoLoss == \A m \in Messages :
    loc[m] = "deleted" => \E n \in 1..MaxReceiveCount : handler[<<m, n>>] = "acked"

(* On a FIFO queue with synchronous deletes, a handler gets a message only *)
(* when no older one is left in the queue, whatever was nacked, could not  *)
(* be deleted, timed out or was received by another worker meanwhile.      *)
FIFOOrder == Fifo /\ ~Batched =>
    \A w \in Workers : pc[w] = "wait" =>
        \A m \in Messages : m < Current(w)[1] => Gone(m)

(* When Close has returned, every subscription whose Subscribe had         *)
(* returned before is at rest: workers stopped, output closed, and every   *)
(* handle of its batcher has been sent. (A Close that panicked sends none, *)
(* and the next one returns nil all the same.)                             *)
CloseQuiesces == CloseReturned =>
    \A s \in early :
        /\ sub[s] = "finished"
        /\ \A w \in WorkersOf(s) : pc[w] = "stopped"
        /\ buffered[s] = {} \/ Panicked

(* Graceful draining: when Close has returned, an ack was followed by a    *)
(* delete, unless it came after the drain deadline had been reached. (Of a *)
(* Subscribe that raced Close, the batcher or a worker may still have it,  *)
(* and if the race made a Close panic, so may every batcher.)              *)
StillHeld(d) == \E s \in {r \in Subscriptions : r \in early => Panicked} :
    \/ d \in buffered[s]
    \/ \E w \in WorkersOf(s) : batch[w] # <<>> /\ Current(w) = d

NoAckWasted == Drain /\ CloseReturned =>
    \A d \in Deliveries :
        handler[d] = "acked" => d \in tried \cup abandoned \/ StillHeld(d)

(* Graceful draining: while a handler runs, its worker leaves it only at   *)
(* the drain deadline, neither Close nor the user's ctx cuts it short.     *)
DrainShieldsHandler == [][
    Drain => \A w \in Workers :
        pc[w] = "wait" /\ pc'[w] # "wait" /\ handler[Current(w)] = "running"
            => Current(w) \in abandoned']_vars

(* "All workers have stopped": the comment on Close, taken at its word.    *)
CloseStopsEverything ==
    (\E c \in Closers : closer[c] = "flushing") =>
        \A w \in Workers : pc[w] \in {"off", "stopped"}

-----------------------------------------------------------------------------
(* Liveness. *)

(* Close returns, even if handlers never settle and nobody reads output;   *)
(* or it panics, but then only when a call of Subscribe that it did not    *)
(* find running has added itself to subscribersWg meanwhile.               *)
Overtaken == \E s \in Subscriptions \ early : sub[s] \in {"running", "finished"}

CloseTerminates == \A c \in Closers : closer[c] = "waiting" ~>
    closer[c] = "returned" \/ (closer[c] = "panic" /\ Overtaken)

(* "a hung delete can't stall a worker": the comment on deleteTimeout.     *)
DeleteNeverStalls == \A w \in Workers : pc[w] = "delete" ~> pc[w] # "delete"

(* Under the best of environments, every message is deleted or redriven    *)
(* in the end, through lost answers, failed deletes and dropped batches.   *)
EveryMessageEnds == EnvironmentFairness => \A m \in Messages :
    (\E s \in Subscriptions : sub[s] = "running")
        ~> Gone(m) \/ \E w \in Workers : Stopping(w)
=============================================================================
