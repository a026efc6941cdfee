-------------------------- MODULE SubscriberProofs --------------------------
(***************************************************************************)
(* What is proved of Subscriber for any number of messages, subscriptions, *)
(* workers and callers of Close, any size of a batch, and every choice of  *)
(* configurations: the type invariant, the safety properties by way of one *)
(* inductive invariant, and that draining shields a running handler.       *)
(***************************************************************************)
EXTENDS Subscriber, SequenceTheorems, TLAPS

-----------------------------------------------------------------------------
(* Lemmas about batches. *)

(* Going on with the next message of a batch.                              *)
LEMMA HeadAndTail ==
    ASSUME NEW S, NEW s \in Seq(S), s # <<>>
    PROVE  /\ Len(s) \in Nat \ {0} /\ DOMAIN s = 1..Len(s)
           /\ Head(s) = s[1] /\ s[1] \in S
           /\ Tail(s) \in Seq(S)
           /\ Len(Tail(s)) = Len(s) - 1 /\ DOMAIN Tail(s) = 1..(Len(s) - 1)
           /\ \A i \in 1..(Len(s) - 1) : Tail(s)[i] = s[i + 1] /\ i + 1 \in 1..Len(s)
           /\ Tail(s) = <<>> <=> Len(s) = 1
<1>1. Len(s) \in Nat \ {0} /\ DOMAIN s = 1..Len(s) /\ Head(s) = s[1] /\ s[1] \in S
  OBVIOUS
<1>2. /\ Tail(s) \in Seq(S) /\ Len(Tail(s)) = Len(s) - 1
      /\ \A i \in 1..Len(Tail(s)) : Tail(s)[i] = s[i + 1]
  BY HeadTailProperties
<1>3. DOMAIN Tail(s) = 1..(Len(s) - 1)
  BY <1>2
<1>4. Tail(s) = <<>> <=> Len(s) = 1
  <2>1. \A t \in Seq(S) : t = <<>> <=> Len(t) = 0
    BY EmptySeq
  <2>2. Tail(s) = <<>> <=> Len(Tail(s)) = 0
    BY <1>2, <2>1
  <2>3. Len(s) - 1 = 0 <=> Len(s) = 1
    BY <1>1
  <2> QED
    BY <1>2, <2>2, <2>3
<1>5. \A i \in 1..(Len(s) - 1) : i + 1 \in 1..Len(s)
  BY <1>1
<1> QED
  BY <1>1, <1>2, <1>3, <1>4, <1>5

(* A list of messages is not empty and has no message twice.               *)
LEMMA MessageListFacts ==
    ASSUME NEW ms \in MessageLists
    PROVE  /\ ms \in Seq(Messages) /\ Len(ms) \in Nat \ {0} /\ DOMAIN ms = 1..Len(ms)
           /\ \A i, j \in DOMAIN ms : ms[i] = ms[j] => i = j
<1>1. PICK n \in 0..MaxNumberOfMessages : ms \in [1..n -> Messages]
  BY DEF MessageLists, SeqOf
<1>2. n \in Nat /\ n # 0
  <2>1. ms # <<>>
    BY DEF MessageLists
  <2>2. MaxNumberOfMessages \in Nat
    BY QueueAssumption DEF QueueAssumption
  <2>3. CASE n = 0
    BY <1>1, <2>1, <2>3
  <2> QED
    BY <2>2, <2>3
<1>3. ms \in Seq(Messages) /\ Len(ms) = n /\ DOMAIN ms = 1..n
  BY <1>1, <1>2
<1>4. \A i, j \in DOMAIN ms : ms[i] = ms[j] => i = j
  BY DEF MessageLists, IsInjective
<1> QED
  BY <1>2, <1>3, <1>4

(* What a ReceiveMessage returns is a non-empty batch of receptions, each  *)
(* numbered one higher than the last of its message.                       *)
LEMMA ReceiptFacts ==
    ASSUME QueueTypeOK, NEW ms \in MessageLists, Receivable(ms)
    PROVE  /\ ReceiptsOf(ms) \in Seq(Deliveries) /\ ReceiptsOf(ms) # <<>>
           /\ DOMAIN ReceiptsOf(ms) = DOMAIN ms
           /\ \A i \in DOMAIN ms : /\ ms[i] \in Messages /\ received[ms[i]] \in Nat
                                   /\ ReceiptsOf(ms)[i] = <<ms[i], received[ms[i]] + 1>>
           /\ \A i, j \in DOMAIN ms : ms[i] = ms[j] => i = j
<1> DEFINE n == Len(ms)
<1>1. n \in Nat \ {0} /\ ms \in Seq(Messages) /\ DOMAIN ms = 1..n
  BY MessageListFacts
<1>2. n \in Nat /\ n # 0
  BY <1>1
<1> HIDE DEF n
<1>4. \A i \in 1..n : ms[i] \in Messages /\ ms[i] \in Range(ms)
  BY <1>1 DEF Range
<1>5. MaxReceiveCount \in 1..MaxReceives /\ MaxReceives \in Nat
  BY QueueAssumption DEF QueueTypeOK, QueueAssumption, ConfigType, MaxReceiveCount
<1>6. \A m \in Messages : received[m] \in 0..MaxReceiveCount
  BY DEF QueueTypeOK
<1>7. \A i \in 1..n : received[ms[i]] \in Nat /\ received[ms[i]] + 1 \in 1..MaxReceives
  <2>1. \A i \in 1..n : received[ms[i]] < MaxReceiveCount
    BY <1>4 DEF Receivable
  <2> QED
    BY <1>4, <1>5, <1>6, <2>1
<1>8. \A i \in 1..n : <<ms[i], received[ms[i]] + 1>> \in Deliveries
  BY <1>4, <1>7 DEF Deliveries
<1>9. ReceiptsOf(ms) = [i \in 1..n |-> <<ms[i], received[ms[i]] + 1>>]
  BY DEF ReceiptsOf, n
<1>10. ReceiptsOf(ms) \in [1..n -> Deliveries]
  BY <1>8, <1>9
<1>11. ReceiptsOf(ms) \in Seq(Deliveries) /\ ReceiptsOf(ms) # <<>>
  BY <1>2, <1>10
<1>12. \A i, j \in DOMAIN ms : ms[i] = ms[j] => i = j
  BY MessageListFacts
<1> QED
  BY <1>1, <1>4, <1>7, <1>9, <1>11, <1>12

(* A worker belongs to one subscription.                                   *)
LEMMA WorkerFacts ==
    /\ \A w \in Workers : w[1] \in Subscriptions
    /\ \A s \in Subscriptions, w \in Workers : w \in WorkersOf(s) <=> w[1] = s
    /\ \A s \in Subscriptions : WorkersOf(s) \subseteq Workers
  BY DEF Workers, WorkersOf

(* The configuration never changes.                                        *)
LEMMA ConfigStep == ASSUME [Next]_vars PROVE config' = config
<1> USE DEF subVars, vars
<1>1. CASE QueueStep
  BY <1>1 DEF QueueStep
<1>2. ASSUME NEW s \in Subscriptions, SubscribeStep(s) \/ UserCancels(s) PROVE config' = config
  BY <1>2 DEF SubscribeStep, SubscribeChecks, SubscribeFails, RegisterBatcher, StartWorkers,
              SubscribeReturns, Cleanup, UserCancels
<1>3. ASSUME NEW w \in Workers, WorkerStep(w) PROVE config' = config
  BY <1>3 DEF WorkerStep, Stop, CallReceive, DiscardBeforeSend, AckToBatcher, AckToDelete,
              Nacked, DiscardBeforeAck, StartDrain, DrainDeadline
<1>4. ASSUME NEW w \in Workers,
             \/ ReceiveStep(w) \/ DeleteStep(w) \/ WatchClosing(w) \/ HandOff(w)
             \/ DrainTimerFires(w) \/ LateDeleteReturns(w)
      PROVE  config' = config
  BY <1>4 DEF ReceiveStep, ReceiveNothing, Receive, DeleteStep, DeleteSucceeds, DeleteFails,
              WatchClosing, HandOff, DrainTimerFires, LateDeleteReturns
<1>5. ASSUME NEW d \in Deliveries, HandlerSettles(d) \/ \E s \in Subscriptions : Flush(s, d)
      PROVE  config' = config
  BY <1>5 DEF HandlerSettles, Flush
<1>6. ASSUME NEW c \in Closers, CloseBegins(c) \/ CloseAgain(c) \/ CloseStep(c)
      PROVE  config' = config
  BY <1>6 DEF CloseBegins, CloseAgain, CloseStep, CloseBlocks, ClosePanics, CloseWaited,
              CloseBatcher, CloseReturns
<1>7. CASE Terminated \/ UNCHANGED vars
  BY <1>7 DEF Terminated
<1> QED
  BY <1>1, <1>2, <1>3, <1>4, <1>5, <1>6, <1>7 DEF Next

-----------------------------------------------------------------------------
(* Types. *)

(* The queue keeps its types whatever it gives out, erases or redrives.    *)
LEMMA QueueTypes ==
    ASSUME QueueTypeOK, config' = config,
           \/ UNCHANGED queueVars
           \/ \E ms \in MessageLists : GiveOut(ms)
           \/ \E d \in Deliveries : Erase(d)
           \/ QueueStep
    PROVE  QueueTypeOK'
<1> USE DEF QueueTypeOK, queueVars
<1>0. MaxReceiveCount' = MaxReceiveCount /\ MaxReceiveCount \in Nat
  BY QueueAssumption DEF QueueAssumption, ConfigType, MaxReceiveCount
<1>1. CASE UNCHANGED queueVars
  BY <1>0, <1>1
<1>2. ASSUME NEW ms \in MessageLists, GiveOut(ms) PROVE QueueTypeOK'
  <2>1. \A m \in Messages : m \in Range(ms) => received[m] + 1 \in 0..MaxReceiveCount
    BY <1>0, <1>2 DEF GiveOut, Receivable
  <2> QED
    BY <1>0, <1>2, <2>1 DEF GiveOut
<1>3. ASSUME NEW d \in Deliveries, Erase(d) PROVE QueueTypeOK'
  BY <1>0, <1>3 DEF Erase
<1>4. CASE QueueStep
  BY <1>0, <1>4 DEF QueueStep, VisibilityExpires, Redrive
<1> QED
  BY <1>1, <1>2, <1>3, <1>4

(* A worker is between batches exactly when it holds none.                 *)
Idle == {"off", "select", "receive", "stopped"}
Busy == {"offer", "wait", "delete", "late"}

BatchTypeOK ==
    /\ pc \in [Workers -> Idle \cup Busy]
    /\ batch \in [Workers -> Seq(Deliveries)]
    /\ timer \in [Workers -> {"off", "armed", "fired"}]
    /\ \A w \in Workers : (batch[w] = <<>>) <=> pc[w] \in Idle

(* A busy worker has a message at hand.                                    *)
LEMMA CurrentType ==
    ASSUME BatchTypeOK, NEW w \in Workers, pc[w] \in Busy
    PROVE  /\ batch[w] \in Seq(Deliveries) /\ batch[w] # <<>>
           /\ Current(w) \in Deliveries /\ Current(w) = batch[w][1] /\ 1 \in DOMAIN batch[w]
<1>1. batch[w] \in Seq(Deliveries) /\ batch[w] # <<>>
  BY DEF BatchTypeOK, Idle, Busy
<1> QED
  BY <1>1, HeadAndTail DEF Current

(* Going on with the batch keeps its type.                                 *)
LEMMA ProcessedType ==
    ASSUME BatchTypeOK, NEW w \in Workers, pc[w] \in Busy, Processed(w)
    PROVE  BatchTypeOK'
<1>1. batch[w] \in Seq(Deliveries) /\ batch[w] # <<>>
  BY CurrentType
<1>2. /\ Tail(batch[w]) \in Seq(Deliveries)
      /\ Tail(batch[w]) = <<>> <=> Len(batch[w]) = 1
  BY <1>1, HeadAndTail
<1>3. /\ batch' = [batch EXCEPT ![w] = Tail(batch[w])]
      /\ pc' = [pc EXCEPT ![w] = IF Len(batch[w]) = 1 THEN "select" ELSE "offer"]
      /\ timer' = [timer EXCEPT ![w] = "off"]
  BY DEF Processed, Enter, AfterMessage
<1> QED
  BY <1>2, <1>3 DEF BatchTypeOK, Idle, Busy

(* Dropping the rest of the batch keeps its type.                          *)
LEMMA NotProcessedType ==
    ASSUME BatchTypeOK, NEW w \in Workers, pc[w] \in Busy, NotProcessed(w)
    PROVE  BatchTypeOK'
  BY DEF BatchTypeOK, NotProcessed, Enter, Idle, Busy

(* Where a worker goes without changing its batch.                         *)
LEMMA EnterType ==
    ASSUME BatchTypeOK, NEW w \in Workers, NEW label, Enter(w, label), UNCHANGED <<batch, timer>>,
           \/ pc[w] \in Idle /\ label \in Idle
           \/ pc[w] \in Busy /\ label \in Busy
    PROVE  BatchTypeOK'
  BY DEF BatchTypeOK, Enter, Idle, Busy

(* A call of Subscribe has workers from StartWorkers on, and its cleanup   *)
(* waits for all of them.                                                  *)
NotStarted == {"idle", "checked", "registered", "failed"}

WorkersRun == \A w \in Workers :
    /\ pc[w] = "off" <=> sub[w[1]] \in NotStarted
    /\ sub[w[1]] = "finished" => pc[w] = "stopped"

(* TypeOK has what is said of batches.                                     *)
LEMMA BatchOfType == TypeOK => BatchTypeOK
  BY DEF TypeOK, BatchTypeOK, Idle, Busy

(* Every step keeps the types of pc and batch.                             *)
LEMMA BatchTypes == ASSUME TypeOK, WorkersRun, [Next]_vars PROVE BatchTypeOK'
<1>0. BatchTypeOK
  BY BatchOfType
<1> USE <1>0 DEF workerVars, history
<1>1. CASE UNCHANGED workerVars
  BY <1>1 DEF BatchTypeOK
<1>2. ASSUME NEW s \in Subscriptions, StartWorkers(s) PROVE BatchTypeOK'
  <2>1. \A w \in Workers : w \in WorkersOf(s) => pc[w] = "off"
    BY <1>2, WorkerFacts DEF StartWorkers, WorkersRun, NotStarted
  <2> QED
    BY <1>2, <2>1 DEF StartWorkers, BatchTypeOK, Idle, Busy
<1>3. ASSUME NEW s \in Subscriptions, UserCancels(s) PROVE BatchTypeOK'
  BY <1>3 DEF UserCancels, BatchTypeOK
<1>4. ASSUME NEW s \in Subscriptions, SubscribeStep(s) PROVE BatchTypeOK'
  BY <1>1, <1>2, <1>4 DEF SubscribeStep, SubscribeChecks, SubscribeFails, RegisterBatcher,
              SubscribeReturns, Cleanup
<1>5. ASSUME NEW w \in Workers, WorkerStep(w) PROVE BatchTypeOK'
  <2>1. CASE Stop(w) \/ CallReceive(w) \/ AckToDelete(w)
    BY <2>1, EnterType DEF Stop, CallReceive, AckToDelete, SeesAck, Idle, Busy
  <2>2. CASE DiscardBeforeSend(w) \/ Nacked(w) \/ DiscardBeforeAck(w) \/ DrainDeadline(w)
    BY <2>2, NotProcessedType DEF DiscardBeforeSend, Nacked, DiscardBeforeAck, DrainDeadline, Busy
  <2>3. CASE AckToBatcher(w) /\ sinkClosed[w[1]]
    BY <2>3, EnterType DEF AckToBatcher, SeesAck, Busy
  <2>4. CASE AckToBatcher(w) /\ ~sinkClosed[w[1]]
    BY <2>4, ProcessedType DEF AckToBatcher, SeesAck, Busy
  <2>5. CASE StartDrain(w)
    BY <2>5 DEF StartDrain, BatchTypeOK
  <2> QED
    BY <1>5, <2>1, <2>2, <2>3, <2>4, <2>5 DEF WorkerStep
<1>6. ASSUME NEW w \in Workers, ReceiveStep(w) PROVE BatchTypeOK'
  <2>1. CASE ReceiveNothing(w)
    BY <2>1, EnterType DEF ReceiveNothing, Idle
  <2>2. ASSUME NEW ms \in MessageLists, Receive(w, ms) PROVE BatchTypeOK'
    <3>1. ReceiptsOf(ms) \in Seq(Deliveries) /\ ReceiptsOf(ms) # <<>>
      BY <2>2, ReceiptFacts DEF Receive, GiveOut, TypeOK
    <3> HIDE DEF MessageLists
    <3> QED
      BY <2>2, <3>1 DEF Receive, Enter, BatchTypeOK, Idle, Busy
  <2> QED
    BY <1>6, <2>1, <2>2 DEF ReceiveStep
<1>7. ASSUME NEW w \in Workers,
             \/ DeleteStep(w) \/ WatchClosing(w) \/ HandOff(w)
             \/ DrainTimerFires(w) \/ LateDeleteReturns(w)
      PROVE  BatchTypeOK'
  <2>1. CASE DeleteSucceeds(w) \/ LateDeleteReturns(w)
    BY <2>1, ProcessedType DEF DeleteSucceeds, LateDeleteReturns, Busy
  <2>2. CASE DeleteFails(w)
    BY <2>2, NotProcessedType DEF DeleteFails, Busy
  <2>3. CASE HandOff(w)
    BY <2>3, EnterType DEF HandOff, Busy
  <2>4. CASE WatchClosing(w) \/ DrainTimerFires(w)
    BY <2>4 DEF WatchClosing, DrainTimerFires, BatchTypeOK
  <2> QED
    BY <1>7, <2>1, <2>2, <2>3, <2>4 DEF DeleteStep
<1>8. ASSUME NEW d \in Deliveries, HandlerSettles(d) \/ \E s \in Subscriptions : Flush(s, d)
      PROVE  BatchTypeOK'
  BY <1>1, <1>8 DEF HandlerSettles, Flush
<1>9. ASSUME NEW c \in Closers, CloseBegins(c) \/ CloseAgain(c) \/ CloseStep(c)
      PROVE  BatchTypeOK'
  BY <1>1, <1>9 DEF CloseBegins, CloseAgain, CloseStep, CloseBlocks, ClosePanics, CloseWaited,
              CloseBatcher, CloseReturns
<1> QED
  BY <1>1, <1>3, <1>4, <1>5, <1>6, <1>7, <1>8, <1>9 DEF Next, QueueStep, Terminated, vars

(* The variables of Subscribe, of the batchers and of Close.               *)
SubTypeOK ==
    /\ sub \in [Subscriptions -> {"idle", "checked", "registered", "started",
                                  "running", "finished", "failed"}]
    /\ ctxDone \in [Workers -> BOOLEAN]
    /\ handler \in [Deliveries -> {"none", "running", "acked", "nacked"}]
    /\ buffered \in [Subscriptions -> SUBSET Deliveries]
    /\ sinkClosed \in [Subscriptions -> BOOLEAN]
    /\ batchers \in Seq(Subscriptions)
    /\ taken \in Seq(Subscriptions)
    /\ closed \in BOOLEAN
    /\ closer \in [Closers -> {"idle", "waiting", "blocked", "released", "flushing",
                           "returned", "panic"}]
    /\ early \in SUBSET Subscriptions
    /\ tried \in SUBSET Deliveries
    /\ abandoned \in SUBSET Deliveries

(* TypeOK has what is said of subscriptions, batchers and Close.           *)
LEMMA SubOfType == TypeOK => SubTypeOK
  BY DEF TypeOK, SubTypeOK

(* The end of a subscription does nothing to the callers of Close, or      *)
(* releases the one that is blocked when no other subscription runs.       *)
LEMMA DoneReleases ==
    ASSUME SubTypeOK, NEW s \in Subscriptions
    PROVE  /\ Done(s) \in [Closers -> {"idle", "waiting", "blocked", "released", "flushing",
                                      "returned", "panic"}]
           /\ \A c \in Closers :
                 \/ Done(s)[c] = closer[c]
                 \/ /\ closer[c] = "blocked" /\ Done(s)[c] = "released"
                    /\ \A r \in Subscriptions \ {s} : sub[r] # "running"
  BY DEF Done, SubTypeOK

(* Every step keeps the types of subscriptions, batchers and Close.        *)
LEMMA SubTypes == ASSUME TypeOK, [Next]_vars PROVE SubTypeOK'
<1>0. SubTypeOK /\ BatchTypeOK
  BY SubOfType, BatchOfType
<1> USE <1>0 DEF SubTypeOK, workerVars, subVars, sinkVars, closeVars, history
<1>1. CASE UNCHANGED <<sub, ctxDone, handler, buffered, sinkClosed, batchers, taken, closed,
                       closer, early, tried, abandoned>>
  BY <1>1
<1>2. ASSUME NEW s \in Subscriptions, SubscribeStep(s) \/ UserCancels(s) PROVE SubTypeOK'
  <2>1. CASE RegisterBatcher(s)
    <3>1. batchers' \in Seq(Subscriptions)
      BY <2>1 DEF RegisterBatcher
    <3> QED
      BY <2>1, <3>1 DEF RegisterBatcher
  <2>2. CASE UserCancels(s)
    <3>1. ctxDone' \in [Workers -> BOOLEAN]
      BY <2>2 DEF UserCancels
    <3> QED
      BY <2>2, <3>1 DEF UserCancels
  <2>3. CASE Cleanup(s)
    BY <2>3, DoneReleases DEF Cleanup
  <2> QED
    BY <1>2, <2>1, <2>2, <2>3 DEF SubscribeStep, SubscribeChecks, SubscribeFails, StartWorkers,
              SubscribeReturns
<1>3. ASSUME NEW w \in Workers, WorkerStep(w) PROVE SubTypeOK'
  <2>1. CASE pc[w] \in Busy
    <3>1. Current(w) \in Deliveries /\ w[1] \in Subscriptions
      BY <2>1, CurrentType, WorkerFacts
    <3>2. CASE AckToBatcher(w)
      <4>1. CASE sinkClosed[w[1]]
        BY <3>1, <3>2, <4>1 DEF AckToBatcher
      <4>2. CASE ~sinkClosed[w[1]]
        <5>1. /\ buffered' = [buffered EXCEPT ![w[1]] = @ \cup {Current(w)}]
              /\ UNCHANGED <<sub, ctxDone, handler, sinkClosed, batchers, taken, closed,
                             closer, early, tried, abandoned>>
          BY <3>2, <4>2 DEF AckToBatcher, Processed
        <5> QED
          BY <3>1, <5>1
      <4> QED
        BY <4>1, <4>2
    <3>3. CASE AckToDelete(w)
      BY <3>1, <3>3 DEF AckToDelete
    <3>4. CASE DrainDeadline(w)
      BY <3>1, <3>4 DEF DrainDeadline, NotProcessed
    <3> QED
      BY <1>3, <3>2, <3>3, <3>4 DEF WorkerStep, Stop, CallReceive, DiscardBeforeSend, Nacked,
              DiscardBeforeAck, StartDrain, NotProcessed
  <2>2. CASE pc[w] \notin Busy
    BY <1>3, <2>2 DEF WorkerStep, Stop, CallReceive, DiscardBeforeSend, Nacked, AckToBatcher,
           AckToDelete, SeesAck, DiscardBeforeAck, StartDrain, DrainDeadline, Busy
  <2> QED
    BY <2>1, <2>2
<1>4. ASSUME NEW w \in Workers,
             \/ ReceiveStep(w) \/ DeleteStep(w) \/ WatchClosing(w)
             \/ DrainTimerFires(w) \/ LateDeleteReturns(w)
      PROVE  SubTypeOK'
  BY <1>4 DEF ReceiveStep, ReceiveNothing, Receive, DeleteStep, DeleteSucceeds, DeleteFails,
              WatchClosing, DrainTimerFires, LateDeleteReturns, Processed, NotProcessed
<1>5. ASSUME NEW w \in Workers, HandOff(w) PROVE SubTypeOK'
  <2>1. Current(w) \in Deliveries
    BY <1>5, CurrentType DEF HandOff, Busy
  <2> QED
    BY <1>5, <2>1 DEF HandOff
<1>6. ASSUME NEW d \in Deliveries, HandlerSettles(d) \/ \E s \in Subscriptions : Flush(s, d)
      PROVE  SubTypeOK'
  BY <1>6 DEF HandlerSettles, Flush
<1>7. ASSUME NEW c \in Closers, CloseBegins(c) \/ CloseAgain(c) \/ CloseStep(c)
      PROVE  SubTypeOK'
  <2>1. CASE CloseBatcher(c)
    <3>1. Tail(taken) \in Seq(Subscriptions) /\ Head(taken) \in Subscriptions
      BY <2>1, HeadAndTail DEF CloseBatcher
    <3> QED
      BY <2>1, <3>1 DEF CloseBatcher
  <2>2. CASE CloseWaited(c)
    <3>1. <<>> \in Seq(Subscriptions)
      OBVIOUS
    <3> QED
      BY <2>2, <3>1 DEF CloseWaited
  <2> QED
    BY <1>7, <2>1, <2>2 DEF CloseBegins, CloseAgain, CloseStep, CloseBlocks, ClosePanics, CloseReturns
<1> QED
  BY <1>1, <1>2, <1>3, <1>4, <1>5, <1>6, <1>7 DEF Next, QueueStep, Terminated, vars

(* The queue is touched in one of these ways, or not at all. An erased     *)
(* reception is the one a worker deletes, or one of a batcher.             *)
Erasable(d) == \/ \E w \in Workers : pc[w] \in {"delete", "late"} /\ d = Current(w)
               \/ \E s \in Subscriptions : d \in buffered[s]

QueueEffect == \/ UNCHANGED queueVars
               \/ \E ms \in MessageLists : GiveOut(ms)
               \/ \E d \in Deliveries : Erasable(d) /\ Erase(d)
               \/ QueueStep

(* What a step does to the queue.                                          *)
LEMMA QueueEffects == ASSUME TypeOK, [Next]_vars PROVE QueueEffect
<1>0. BatchTypeOK /\ SubTypeOK
  BY BatchOfType, SubOfType
<1> USE DEF QueueEffect
<1>1. CASE UNCHANGED queueVars
  BY <1>1
<1>2. ASSUME NEW s \in Subscriptions, SubscribeStep(s) \/ UserCancels(s)
      PROVE  UNCHANGED queueVars
  BY <1>2 DEF SubscribeStep, SubscribeChecks, SubscribeFails, RegisterBatcher, StartWorkers,
              SubscribeReturns, Cleanup, UserCancels
<1>3. ASSUME NEW w \in Workers, \/ WorkerStep(w) \/ WatchClosing(w) \/ HandOff(w) \/ DrainTimerFires(w)
      PROVE  UNCHANGED queueVars
  BY <1>3 DEF WorkerStep, Stop, CallReceive, DiscardBeforeSend, AckToBatcher, AckToDelete,
              Nacked, DiscardBeforeAck, StartDrain, DrainDeadline, WatchClosing, HandOff,
              DrainTimerFires
<1>4. ASSUME NEW w \in Workers, ReceiveStep(w) PROVE QueueEffect
  BY <1>4 DEF ReceiveStep, ReceiveNothing, Receive
<1>5. ASSUME NEW w \in Workers, DeleteStep(w) \/ LateDeleteReturns(w) PROVE QueueEffect
  <2>1. pc[w] \in {"delete", "late"}
    BY <1>5 DEF DeleteStep, DeleteSucceeds, DeleteFails, LateDeleteReturns
  <2>2. Current(w) \in Deliveries /\ Erasable(Current(w))
    BY <1>0, <2>1, CurrentType DEF Busy, Erasable
  <2>3. Erase(Current(w)) \/ UNCHANGED queueVars
    BY <1>5 DEF DeleteStep, DeleteSucceeds, DeleteFails, LateDeleteReturns, EraseOrNot
  <2> QED
    BY <2>2, <2>3
<1>6. ASSUME NEW d \in Deliveries, HandlerSettles(d) PROVE QueueEffect
  BY <1>6 DEF HandlerSettles
<1>7. ASSUME NEW d \in Deliveries, NEW s \in Subscriptions, Flush(s, d) PROVE QueueEffect
  BY <1>7 DEF Flush, EraseOrNot, Erasable
<1>8. ASSUME NEW c \in Closers, CloseBegins(c) \/ CloseAgain(c) \/ CloseStep(c)
      PROVE  UNCHANGED queueVars
  BY <1>8 DEF CloseBegins, CloseAgain, CloseStep, CloseBlocks, ClosePanics, CloseWaited,
              CloseBatcher, CloseReturns
<1>9. CASE QueueStep
  BY <1>9
<1>10. CASE Terminated \/ UNCHANGED vars
  BY <1>10 DEF Terminated, vars
<1>11. UNCHANGED queueVars => QueueEffect
  OBVIOUS
<1> HIDE DEF QueueEffect
<1> QED
  BY <1>2, <1>3, <1>4, <1>5, <1>6, <1>7, <1>8, <1>9, <1>10, <1>11 DEF Next

(* Every step keeps the types.                                             *)
LEMMA TypeStep == ASSUME TypeOK, WorkersRun, [Next]_vars PROVE TypeOK'
<1>1. QueueTypeOK'
  BY ConfigStep, QueueEffects, QueueTypes DEF QueueEffect, TypeOK
<1> QED
  BY <1>1, BatchTypes, SubTypes DEF TypeOK, BatchTypeOK, SubTypeOK, Idle, Busy

-----------------------------------------------------------------------------
(* Workers stop before Subscribe's cleanup, and none starts again.         *)
LEMMA WorkersStep == ASSUME TypeOK, WorkersRun, [Next]_vars PROVE WorkersRun'
<1>0. BatchTypeOK /\ SubTypeOK
  BY BatchOfType, SubOfType
<1> USE WorkerFacts DEF NotStarted
<1>1. CASE UNCHANGED <<sub, pc>>
  BY <1>1 DEF WorkersRun
<1>2. ASSUME NEW s \in Subscriptions, SubscribeStep(s) \/ UserCancels(s) PROVE WorkersRun'
  <2>1. CASE UserCancels(s)
    BY <1>1, <2>1 DEF UserCancels, subVars
  <2>2. CASE StartWorkers(s)
    BY <1>0, <2>2 DEF StartWorkers, WorkersRun, SubTypeOK, BatchTypeOK
  <2>3. CASE Cleanup(s)
    BY <1>0, <2>3 DEF Cleanup, WorkersRun, SubTypeOK, BatchTypeOK, workerVars
  <2>4. CASE SubscribeChecks(s) \/ SubscribeFails(s) \/ RegisterBatcher(s) \/ SubscribeReturns(s)
    BY <1>0, <2>4 DEF SubscribeChecks, SubscribeFails, RegisterBatcher, SubscribeReturns,
                      WorkersRun, SubTypeOK, BatchTypeOK, workerVars
  <2> QED
    BY <1>2, <2>1, <2>2, <2>3, <2>4 DEF SubscribeStep
<1>3. ASSUME NEW w \in Workers, NEW label, label # "off", pc[w] \notin {"off", "stopped"},
             pc' = [pc EXCEPT ![w] = label], UNCHANGED sub
      PROVE  WorkersRun'
  BY <1>0, <1>3 DEF WorkersRun, BatchTypeOK
<1>4. ASSUME NEW w \in Workers, WorkerStep(w) PROVE WorkersRun'
  <2>1. CASE StartDrain(w)
    BY <1>1, <2>1 DEF StartDrain, subVars
  <2>2. CASE ~StartDrain(w)
    <3>1. UNCHANGED sub
      BY <1>4 DEF WorkerStep, Stop, CallReceive, DiscardBeforeSend, AckToBatcher, AckToDelete,
                  Nacked, DiscardBeforeAck, StartDrain, DrainDeadline, subVars
    <3>2. pc[w] \notin {"off", "stopped"}
      BY <1>4 DEF WorkerStep, Stop, CallReceive, DiscardBeforeSend, AckToBatcher, AckToDelete,
                  Nacked, DiscardBeforeAck, StartDrain, DrainDeadline, SeesAck
    <3>3. \E label \in {"select", "receive", "offer", "late", "delete", "stopped"} :
              pc' = [pc EXCEPT ![w] = label]
      BY <1>4, <2>2 DEF WorkerStep, Stop, CallReceive, DiscardBeforeSend, AckToBatcher, AckToDelete,
                  Nacked, DiscardBeforeAck, DrainDeadline, Processed, NotProcessed, Enter, AfterMessage
    <3> QED
      BY <3>1, <3>2, <3>3, <1>3
  <2> QED
    BY <2>1, <2>2
<1>5. ASSUME NEW w \in Workers,
             \/ ReceiveStep(w) \/ DeleteStep(w) \/ HandOff(w) \/ LateDeleteReturns(w)
      PROVE  WorkersRun'
  <2>1. UNCHANGED sub /\ pc[w] \notin {"off", "stopped"}
    BY <1>5 DEF ReceiveStep, ReceiveNothing, Receive, DeleteStep, DeleteSucceeds, DeleteFails,
                HandOff, LateDeleteReturns, subVars
  <2>2. \E label \in {"select", "offer", "wait"} : pc' = [pc EXCEPT ![w] = label]
    BY <1>5 DEF ReceiveStep, ReceiveNothing, Receive, DeleteStep, DeleteSucceeds, DeleteFails,
                HandOff, LateDeleteReturns, Processed, NotProcessed, Enter, AfterMessage
  <2> QED
    BY <2>1, <2>2, <1>3
<1>6. ASSUME NEW w \in Workers, WatchClosing(w) \/ DrainTimerFires(w) PROVE WorkersRun'
  BY <1>1, <1>6 DEF WatchClosing, DrainTimerFires, subVars
<1>7. ASSUME NEW d \in Deliveries, HandlerSettles(d) \/ \E s \in Subscriptions : Flush(s, d)
      PROVE  WorkersRun'
  BY <1>1, <1>7 DEF HandlerSettles, Flush, subVars, workerVars
<1>8. ASSUME NEW c \in Closers, CloseBegins(c) \/ CloseAgain(c) \/ CloseStep(c)
      PROVE  WorkersRun'
  BY <1>1, <1>8 DEF CloseBegins, CloseAgain, CloseStep, CloseBlocks, ClosePanics, CloseWaited,
              CloseBatcher, CloseReturns,
                    subVars, workerVars
<1> QED
  BY <1>1, <1>2, <1>4, <1>5, <1>6, <1>7, <1>8
     DEF Next, QueueStep, Terminated, vars, subVars, workerVars

-----------------------------------------------------------------------------
(* Close. *)

(* closedLock: one caller of Close at a time is between its check and its  *)
(* return, and none has returned before the first one has. Only the one    *)
(* that flushes holds batchers.                                            *)
InClose(c) == closer[c] \in {"waiting", "blocked", "released", "flushing"}

CloseOrder ==
    /\ \A c, d \in Closers : InClose(c) /\ InClose(d) => c = d
    /\ closed <=> \E c \in Closers : closer[c] # "idle"
    /\ CloseReturned \/ Panicked => Unlocked
    /\ taken # <<>> => \E c \in Closers : closer[c] = "flushing"

(* A registered batcher is in the list, or Close has taken it, or Close    *)
(* has waited for its last flush, after which add no longer buffers.       *)
Registered(s) == sub[s] \in {"registered", "started", "running", "finished"}
Drained(s) == sinkClosed[s] /\ buffered[s] = {}

BatchersTracked ==
    /\ ~Batched => \A s \in Subscriptions : buffered[s] = {}
    /\ Batched => \A s \in Subscriptions : Registered(s) =>
          s \in Range(batchers) \/ s \in Range(taken) \/ Drained(s)

(* Once Close has been released, the subscriptions it found are finished,  *)
(* and once it has taken the batchers, theirs are no longer in the list.   *)
Released == \E c \in Closers : closer[c] \in {"released", "flushing", "returned", "panic"}
TookBatchers == (\E c \in Closers : closer[c] \in {"flushing", "returned"}) /\ ~Panicked

EarlyFinished ==
    /\ \A s \in early : sub[s] \in {"running", "finished"}
    /\ Released => \A s \in early : sub[s] = "finished"
    /\ TookBatchers => \A s \in early : s \notin Range(batchers)

(* closedLock keeps the callers of Close apart.                            *)
LEMMA CloseOrderStep == ASSUME TypeOK, CloseOrder, [Next]_vars PROVE CloseOrder'
<1>0. SubTypeOK
  BY SubOfType
<1> USE DEF CloseOrder, InClose, CloseReturned, Panicked, Unlocked
<1>1. CASE UNCHANGED <<closed, closer, taken>>
  BY <1>1
<1>2. ASSUME NEW s \in Subscriptions, SubscribeStep(s) \/ UserCancels(s) PROVE CloseOrder'
  <2>1. CASE Cleanup(s)
    <3>1. /\ UNCHANGED <<closed, taken>>
          /\ \A c \in Closers : \/ closer'[c] = closer[c]
                                \/ closer[c] = "blocked" /\ closer'[c] = "released"
      BY <1>0, <2>1, DoneReleases DEF Cleanup
    <3> QED
      BY <3>1
  <2> QED
    BY <1>1, <1>2, <2>1 DEF SubscribeStep, SubscribeChecks, SubscribeFails, RegisterBatcher,
              StartWorkers, SubscribeReturns, UserCancels, closeVars
<1>3. ASSUME NEW w \in Workers,
             \/ WorkerStep(w) \/ ReceiveStep(w) \/ DeleteStep(w) \/ WatchClosing(w) \/ HandOff(w)
             \/ DrainTimerFires(w) \/ LateDeleteReturns(w)
      PROVE  UNCHANGED <<closed, closer, taken>>
  BY <1>3 DEF WorkerStep, Stop, CallReceive, DiscardBeforeSend, AckToBatcher, AckToDelete,
              Nacked, DiscardBeforeAck, StartDrain, DrainDeadline, ReceiveStep, ReceiveNothing,
              Receive, DeleteStep, DeleteSucceeds, DeleteFails, WatchClosing, HandOff,
              DrainTimerFires, LateDeleteReturns, closeVars
<1>4. ASSUME NEW d \in Deliveries, HandlerSettles(d) \/ \E s \in Subscriptions : Flush(s, d)
      PROVE  UNCHANGED <<closed, closer, taken>>
  BY <1>4 DEF HandlerSettles, Flush, closeVars
<1>5. ASSUME NEW c \in Closers, CloseBegins(c) PROVE CloseOrder'
  BY <1>0, <1>5 DEF CloseBegins, SubTypeOK
<1>6. ASSUME NEW c \in Closers, CloseAgain(c) PROVE CloseOrder'
  BY <1>0, <1>6 DEF CloseAgain, SubTypeOK
<1>7. ASSUME NEW c \in Closers, CloseWaited(c) PROVE CloseOrder'
  BY <1>0, <1>7 DEF CloseWaited, SubTypeOK
<1>8. ASSUME NEW c \in Closers, CloseBatcher(c) PROVE CloseOrder'
  BY <1>0, <1>8 DEF CloseBatcher, SubTypeOK
<1>9. ASSUME NEW c \in Closers, CloseReturns(c) PROVE CloseOrder'
  BY <1>0, <1>9 DEF CloseReturns, SubTypeOK
<1>10. QueueStep \/ Terminated \/ UNCHANGED vars => UNCHANGED <<closed, closer, taken>>
  BY DEF QueueStep, Terminated, vars, closeVars
<1>11. ASSUME NEW c \in Closers, CloseBlocks(c) PROVE CloseOrder'
  BY <1>0, <1>11 DEF CloseBlocks, SubTypeOK
<1>12. ASSUME NEW c \in Closers, ClosePanics(c) PROVE CloseOrder'
  BY <1>0, <1>12 DEF ClosePanics, SubTypeOK
<1> HIDE DEF CloseOrder
<1> QED
  BY <1>1, <1>2, <1>3, <1>4, <1>5, <1>6, <1>7, <1>8, <1>9, <1>10, <1>11, <1>12 DEF Next, CloseStep

(* Only Subscribe's own steps move it on, and it does not go back.         *)
LEMMA SubAdvances ==
    ASSUME TypeOK, [Next]_vars, NEW s \in Subscriptions
    PROVE  /\ sub[s] = "finished" => sub'[s] = "finished"
           /\ sub[s] = "running" => sub'[s] \in {"running", "finished"}
           /\ Registered(s) => Registered(s)'
           /\ Registered(s)' => Registered(s) \/ RegisterBatcher(s)
<1>0. SubTypeOK
  BY SubOfType
<1> USE DEF Registered, subVars
<1>1. UNCHANGED sub \/ \E t \in Subscriptions : SubscribeStep(t)
  <2>1. ASSUME NEW w \in Workers,
               \/ WorkerStep(w) \/ ReceiveStep(w) \/ DeleteStep(w) \/ WatchClosing(w) \/ HandOff(w)
               \/ DrainTimerFires(w) \/ LateDeleteReturns(w)
        PROVE  UNCHANGED sub
    BY <2>1 DEF WorkerStep, Stop, CallReceive, DiscardBeforeSend, AckToBatcher, AckToDelete,
              Nacked, DiscardBeforeAck, StartDrain, DrainDeadline, ReceiveStep, ReceiveNothing,
              Receive, DeleteStep, DeleteSucceeds, DeleteFails, WatchClosing, HandOff,
              DrainTimerFires, LateDeleteReturns
  <2>2. ASSUME NEW t \in Subscriptions, UserCancels(t) PROVE UNCHANGED sub
    BY <2>2 DEF UserCancels
  <2>3. ASSUME NEW d \in Deliveries, HandlerSettles(d) \/ \E t \in Subscriptions : Flush(t, d)
        PROVE  UNCHANGED sub
    BY <2>3 DEF HandlerSettles, Flush
  <2>4. ASSUME NEW c \in Closers, CloseBegins(c) \/ CloseAgain(c) \/ CloseStep(c)
        PROVE  UNCHANGED sub
    BY <2>4 DEF CloseBegins, CloseAgain, CloseStep, CloseBlocks, ClosePanics, CloseWaited,
              CloseBatcher, CloseReturns
  <2>5. QueueStep \/ Terminated \/ UNCHANGED vars => UNCHANGED sub
    BY DEF QueueStep, Terminated, vars
  <2> QED
    BY <2>1, <2>2, <2>3, <2>4, <2>5 DEF Next
<1>2. CASE UNCHANGED sub
  BY <1>2
<1>3. ASSUME NEW t \in Subscriptions, SubscribeStep(t)
      PROVE  /\ sub[s] = "finished" => sub'[s] = "finished"
             /\ sub[s] = "running" => sub'[s] \in {"running", "finished"}
             /\ Registered(s) => Registered(s)'
             /\ Registered(s)' => Registered(s) \/ RegisterBatcher(s)
  <2>1. CASE SubscribeChecks(t) \/ SubscribeFails(t) \/ RegisterBatcher(t)
    BY <1>0, <2>1 DEF SubTypeOK, SubscribeChecks, SubscribeFails, RegisterBatcher
  <2>2. CASE StartWorkers(t) \/ SubscribeReturns(t) \/ Cleanup(t)
    BY <1>0, <2>2 DEF SubTypeOK, StartWorkers, SubscribeReturns, Cleanup
  <2> QED
    BY <1>3, <2>1, <2>2 DEF SubscribeStep
<1> QED
  BY <1>1, <1>2, <1>3

(* add buffers a handle only in a batcher that is open.                    *)
LEMMA BufferSteps ==
    ASSUME TypeOK, [Next]_vars, NEW s \in Subscriptions
    PROVE  /\ sinkClosed[s] => sinkClosed'[s]
           /\ buffered'[s] \subseteq buffered[s] \/ (Batched /\ ~sinkClosed[s])
<1>0. SubTypeOK /\ BatchTypeOK
  BY SubOfType, BatchOfType
<1> USE <1>0, WorkerFacts DEF SubTypeOK, sinkVars
<1>1. CASE UNCHANGED <<buffered, sinkClosed>>
  BY <1>1
<1>2. ASSUME NEW t \in Subscriptions, SubscribeStep(t) \/ UserCancels(t)
      PROVE  UNCHANGED <<buffered, sinkClosed>>
  BY <1>2 DEF SubscribeStep, SubscribeChecks, SubscribeFails, RegisterBatcher, StartWorkers,
              SubscribeReturns, Cleanup, UserCancels
<1>3. ASSUME NEW w \in Workers,
             \/ WorkerStep(w) /\ ~AckToBatcher(w)
             \/ ReceiveStep(w) \/ DeleteStep(w) \/ WatchClosing(w) \/ HandOff(w)
             \/ DrainTimerFires(w) \/ LateDeleteReturns(w)
      PROVE  UNCHANGED <<buffered, sinkClosed>>
  BY <1>3 DEF WorkerStep, Stop, CallReceive, DiscardBeforeSend, AckToDelete,
              Nacked, DiscardBeforeAck, StartDrain, DrainDeadline, ReceiveStep, ReceiveNothing,
              Receive, DeleteStep, DeleteSucceeds, DeleteFails, WatchClosing, HandOff,
              DrainTimerFires, LateDeleteReturns
<1>4. ASSUME NEW w \in Workers, AckToBatcher(w)
      PROVE  UNCHANGED sinkClosed /\ (buffered'[s] = buffered[s] \/ (Batched /\ ~sinkClosed[s]))
  <2>1. UNCHANGED sinkClosed /\ Batched
    BY <1>4 DEF AckToBatcher
  <2>2. CASE sinkClosed[w[1]]
    BY <1>4, <2>1, <2>2 DEF AckToBatcher
  <2>3. CASE ~sinkClosed[w[1]] /\ w[1] = s
    BY <2>1, <2>3
  <2>4. CASE ~sinkClosed[w[1]] /\ w[1] # s
    <3>1. buffered' = [buffered EXCEPT ![w[1]] = @ \cup {Current(w)}]
      BY <1>4, <2>4 DEF AckToBatcher
    <3> QED
      BY <2>1, <2>4, <3>1
  <2> QED
    BY <2>2, <2>3, <2>4
<1>5. ASSUME NEW d \in Deliveries, HandlerSettles(d) PROVE UNCHANGED <<buffered, sinkClosed>>
  BY <1>5 DEF HandlerSettles
<1>6. ASSUME NEW d \in Deliveries, NEW t \in Subscriptions, Flush(t, d)
      PROVE  UNCHANGED sinkClosed /\ buffered'[s] \subseteq buffered[s]
  BY <1>6 DEF Flush
<1>7. ASSUME NEW c \in Closers, CloseBatcher(c)
      PROVE  UNCHANGED buffered /\ (sinkClosed[s] => sinkClosed'[s])
  BY <1>7 DEF CloseBatcher
<1>8. ASSUME NEW c \in Closers, \/ CloseBegins(c) \/ CloseAgain(c) \/ CloseBlocks(c)
                                \/ ClosePanics(c) \/ CloseWaited(c) \/ CloseReturns(c)
      PROVE  UNCHANGED <<buffered, sinkClosed>>
  BY <1>8 DEF CloseBegins, CloseAgain, CloseBlocks, ClosePanics, CloseWaited, CloseReturns
<1>9. QueueStep \/ Terminated \/ UNCHANGED vars => UNCHANGED <<buffered, sinkClosed>>
  BY DEF QueueStep, Terminated, vars
<1> QED
  BY <1>1, <1>2, <1>3, <1>4, <1>5, <1>6, <1>7, <1>8, <1>9 DEF Next, CloseStep

(* What a list of batchers holds when one is registered or closed.         *)
LEMMA EmptyRange == Range(<<>>) = {}
  BY DEF Range

(* The elements of a list with one more.                                   *)
LEMMA AppendRange ==
    ASSUME NEW S, NEW s \in Seq(S), NEW e \in S
    PROVE  Range(Append(s, e)) = Range(s) \cup {e}
<1>1. /\ DOMAIN Append(s, e) = 1..(Len(s) + 1)
      /\ DOMAIN s = 1..Len(s)
      /\ \A i \in 1..Len(s) : Append(s, e)[i] = s[i]
      /\ Append(s, e)[Len(s) + 1] = e
      /\ Len(s) \in Nat
  OBVIOUS
<1> QED
  BY <1>1 DEF Range

(* The elements of a list without its first.                               *)
LEMMA TailRange ==
    ASSUME NEW S, NEW s \in Seq(S), s # <<>>
    PROVE  Range(s) = {Head(s)} \cup Range(Tail(s))
<1>1. /\ Len(s) \in Nat \ {0} /\ DOMAIN s = 1..Len(s)
      /\ Head(s) = s[1]
      /\ DOMAIN Tail(s) = 1..(Len(s) - 1)
      /\ \A i \in 1..(Len(s) - 1) : Tail(s)[i] = s[i + 1] /\ i + 1 \in 1..Len(s)
  BY HeadAndTail
<1>2. \A i \in 1..Len(s) : i = 1 \/ (i - 1 \in 1..(Len(s) - 1) /\ (i - 1) + 1 = i)
  BY <1>1
<1>3. \A i \in 1..Len(s) : i = 1 \/ (i - 1 \in 1..(Len(s) - 1) /\ Tail(s)[i - 1] = s[i])
  BY <1>1, <1>2
<1>4. ASSUME NEW x \in Range(s) PROVE x \in {Head(s)} \cup Range(Tail(s))
  BY <1>1, <1>3, <1>4 DEF Range
<1>5. ASSUME NEW x \in Range(Tail(s)) PROVE x \in Range(s)
  BY <1>1, <1>5 DEF Range
<1>6. Head(s) \in Range(s)
  BY <1>1 DEF Range
<1> QED
  BY <1>4, <1>5, <1>6

(* The list changes hands in three steps.                                  *)
LEMMA ListSteps ==
    ASSUME TypeOK, [Next]_vars
    PROVE  \/ UNCHANGED <<batchers, taken>>
           \/ \E s \in Subscriptions : RegisterBatcher(s)
           \/ \E c \in Closers : CloseWaited(c) \/ CloseBatcher(c)
<1> DEFINE Lists == UNCHANGED <<batchers, taken>>
<1> USE DEF subVars, closeVars
<1>1. ASSUME NEW s \in Subscriptions, SubscribeStep(s) \/ UserCancels(s)
      PROVE  Lists \/ RegisterBatcher(s)
  BY <1>1 DEF SubscribeStep, SubscribeChecks, SubscribeFails, StartWorkers,
              SubscribeReturns, Cleanup, UserCancels
<1>2. ASSUME NEW w \in Workers,
             \/ WorkerStep(w) \/ ReceiveStep(w) \/ DeleteStep(w) \/ WatchClosing(w) \/ HandOff(w)
             \/ DrainTimerFires(w) \/ LateDeleteReturns(w)
      PROVE  Lists
  BY <1>2 DEF WorkerStep, Stop, CallReceive, DiscardBeforeSend, AckToBatcher, AckToDelete,
              Nacked, DiscardBeforeAck, StartDrain, DrainDeadline, ReceiveStep, ReceiveNothing,
              Receive, DeleteStep, DeleteSucceeds, DeleteFails, WatchClosing, HandOff,
              DrainTimerFires, LateDeleteReturns
<1>3. ASSUME NEW d \in Deliveries, HandlerSettles(d) \/ \E s \in Subscriptions : Flush(s, d)
      PROVE  Lists
  BY <1>3 DEF HandlerSettles, Flush
<1>4. ASSUME NEW c \in Closers,
             CloseBegins(c) \/ CloseAgain(c) \/ CloseBlocks(c) \/ ClosePanics(c) \/ CloseReturns(c)
      PROVE  Lists
  BY <1>4 DEF CloseBegins, CloseAgain, CloseBlocks, ClosePanics, CloseReturns
<1>5. QueueStep \/ Terminated \/ UNCHANGED vars => Lists
  BY DEF QueueStep, Terminated, vars
<1> HIDE DEF Lists
<1>6. \/ Lists
      \/ \E s \in Subscriptions : RegisterBatcher(s)
      \/ \E c \in Closers : CloseWaited(c) \/ CloseBatcher(c)
  BY <1>1, <1>2, <1>3, <1>4, <1>5 DEF Next, CloseStep
<1> QED
  BY <1>6 DEF Lists

(* No registered batcher escapes Close: it is in the list, in its hands,   *)
(* or drained.                                                             *)
LEMMA BatchersStep ==
    ASSUME TypeOK, CloseOrder, BatchersTracked, [Next]_vars PROVE BatchersTracked'
<1>0. SubTypeOK /\ config' = config /\ Batched' = Batched
  BY SubOfType, ConfigStep DEF Batched
<1>1. ASSUME NEW s \in Subscriptions, ~Batched' PROVE buffered'[s] = {}
  BY <1>0, <1>1, BufferSteps DEF BatchersTracked
<1>2. ASSUME NEW s \in Subscriptions, Batched, Registered(s)'
      PROVE  s \in Range(batchers') \/ s \in Range(taken') \/ Drained(s)'
  <2>1. Drained(s) => Drained(s)'
    BY <1>0, BufferSteps DEF Drained, SubTypeOK
  <2>2. Registered(s) => s \in Range(batchers) \/ s \in Range(taken) \/ Drained(s)
    BY <1>2 DEF BatchersTracked
  <2>3. Registered(s) \/ RegisterBatcher(s)
    BY <1>2, SubAdvances
  <2>4. CASE UNCHANGED <<batchers, taken>> /\ ~\E t \in Subscriptions : RegisterBatcher(t)
    BY <2>1, <2>2, <2>3, <2>4
  <2>5. ASSUME NEW t \in Subscriptions, RegisterBatcher(t)
        PROVE  s \in Range(batchers') \/ s \in Range(taken') \/ Drained(s)'
    <3>1. batchers' = Append(batchers, t) /\ UNCHANGED taken
      BY <1>2, <2>5 DEF RegisterBatcher, closeVars
    <3>2. Range(batchers') = Range(batchers) \cup {t} /\ taken' = taken
      BY <1>0, <3>1, AppendRange DEF SubTypeOK
    <3>3. Registered(s) \/ s = t
      BY <1>0, <1>2, <2>5 DEF RegisterBatcher, Registered, SubTypeOK
    <3> QED
      BY <2>1, <2>2, <3>2, <3>3
  <2>6. ASSUME NEW c \in Closers, CloseWaited(c)
        PROVE  s \in Range(batchers') \/ s \in Range(taken') \/ Drained(s)'
    <3>1. taken' = batchers /\ UNCHANGED sub
      BY <2>6 DEF CloseWaited
    <3>2. taken = <<>>
      <4>1. ASSUME NEW d \in Closers PROVE closer[d] # "flushing"
        BY <2>6 DEF CloseWaited, CloseOrder, InClose
      <4> QED
        BY <4>1 DEF CloseOrder
    <3>3. Range(taken) = {}
      BY <3>2, EmptyRange
    <3>4. Registered(s)
      BY <1>2, <3>1 DEF Registered
    <3> QED
      BY <2>1, <2>2, <3>1, <3>3, <3>4
  <2>7. ASSUME NEW c \in Closers, CloseBatcher(c)
        PROVE  s \in Range(batchers') \/ s \in Range(taken') \/ Drained(s)'
    <3>1. UNCHANGED <<batchers, buffered, sub>> /\ taken # <<>>
      BY <2>7 DEF CloseBatcher, subVars
    <3>2. Registered(s)
      BY <1>2, <3>1 DEF Registered
    <3>3. CASE sinkClosed[Head(taken)]
      <4>1. taken' = Tail(taken) /\ buffered[Head(taken)] = {} /\ sinkClosed[Head(taken)]
        BY <2>7, <3>3 DEF CloseBatcher, Flushed
      <4>2. Range(taken) = {Head(taken)} \cup Range(taken')
        BY <1>0, <3>1, <4>1, TailRange DEF SubTypeOK
      <4>3. s = Head(taken) => Drained(s)
        BY <4>1 DEF Drained
      <4> QED
        BY <2>1, <2>2, <3>1, <3>2, <4>2, <4>3
    <3>4. CASE ~sinkClosed[Head(taken)]
      <4>1. UNCHANGED taken
        BY <2>7, <3>4 DEF CloseBatcher
      <4> QED
        BY <2>1, <2>2, <3>1, <3>2, <4>1
    <3> QED
      BY <3>3, <3>4
  <2> QED
    BY <2>4, <2>5, <2>6, <2>7, ListSteps
<1> QED
  BY <1>0, <1>1, <1>2 DEF BatchersTracked

(* A subscription that Close found when it began is finished when its Wait *)
(* is released, and stays so.                                              *)
LEMMA EarlyStep ==
    ASSUME TypeOK, CloseOrder, EarlyFinished, [Next]_vars PROVE EarlyFinished'
<1>0. SubTypeOK
  BY SubOfType
<1>1. ASSUME NEW s \in early, early' = early
      PROVE  /\ s \in Subscriptions /\ sub'[s] \in {"running", "finished"}
             /\ Released => sub'[s] = "finished"
             /\ TookBatchers => s \notin Range(batchers')
  <2>1. s \in Subscriptions /\ sub'[s] \in {"running", "finished"}
    BY <1>0, <1>1, SubAdvances DEF EarlyFinished, SubTypeOK
  <2>2. Released => sub'[s] = "finished"
    BY <2>1, SubAdvances DEF EarlyFinished
  <2>3. ASSUME TookBatchers PROVE s \notin Range(batchers')
    <3>1. sub[s] = "finished" /\ s \notin Range(batchers)
      BY <2>3 DEF EarlyFinished, TookBatchers, Released
    <3>2. CASE UNCHANGED batchers
      BY <3>1, <3>2
    <3>3. ASSUME NEW t \in Subscriptions, RegisterBatcher(t) PROVE s \notin Range(batchers')
      <4>1. t # s /\ (batchers' = Append(batchers, t) \/ batchers' = batchers)
        BY <3>1, <3>3 DEF RegisterBatcher
      <4>2. Range(Append(batchers, t)) = Range(batchers) \cup {t}
        BY <1>0, <3>3, AppendRange DEF SubTypeOK
      <4> QED
        BY <3>1, <4>1, <4>2
    <3>4. ASSUME NEW c \in Closers, CloseWaited(c) \/ CloseBatcher(c) PROVE s \notin Range(batchers')
      BY <3>1, <3>4, EmptyRange DEF CloseWaited, CloseBatcher, subVars
    <3> QED
      BY <3>2, <3>3, <3>4, ListSteps
  <2> QED
    BY <2>1, <2>2, <2>3
<1>2. ASSUME early' = early, Released' => Released, TookBatchers' => TookBatchers
      PROVE  EarlyFinished'
  BY <1>1, <1>2 DEF EarlyFinished
<1>3. CASE UNCHANGED <<early, closer>>
  BY <1>2, <1>3 DEF Released, TookBatchers, Panicked
<1>4. ASSUME NEW s \in Subscriptions, Cleanup(s) PROVE EarlyFinished'
  <2>1. /\ early' = early /\ sub' = [sub EXCEPT ![s] = "finished"]
        /\ \A c \in Closers :
              \/ closer'[c] = closer[c]
              \/ /\ closer[c] = "blocked" /\ closer'[c] = "released"
                 /\ \A r \in Subscriptions \ {s} : sub[r] # "running"
    BY <1>0, <1>4, DoneReleases DEF Cleanup
  <2>2. TookBatchers' => TookBatchers
    BY <2>1 DEF TookBatchers, Panicked
  <2>3. CASE Released' => Released
    BY <1>2, <2>1, <2>2, <2>3
  <2>4. CASE \A r \in Subscriptions \ {s} : sub[r] # "running"
    <3>1. \A r \in early : sub'[r] = "finished"
      BY <1>0, <1>1, <2>1, <2>4 DEF SubTypeOK
    <3> QED
      BY <1>1, <2>1, <2>2, <3>1 DEF EarlyFinished
  <2> QED
    BY <2>1, <2>3, <2>4 DEF Released
<1>5. ASSUME NEW c \in Closers, CloseBegins(c) PROVE EarlyFinished'
  <2>1. \A d \in Closers : closer[d] = "idle"
    BY <1>5 DEF CloseBegins, CloseOrder
  <2>2. /\ closer' = [closer EXCEPT ![c] = "waiting"]
        /\ early' = {s \in Subscriptions : sub[s] \in {"running", "finished"}}
        /\ sub' = sub
    BY <1>5 DEF CloseBegins, subVars
  <2>3. \A d \in Closers : closer'[d] \in {"idle", "waiting"}
    BY <1>0, <2>1, <2>2 DEF SubTypeOK
  <2> QED
    BY <2>2, <2>3 DEF EarlyFinished, Released, TookBatchers
<1>6. ASSUME NEW c \in Closers, CloseAgain(c) PROVE EarlyFinished'
  <2>1. PICK d \in Closers : closer[d] # "idle"
    BY <1>6 DEF CloseAgain, CloseOrder
  <2>2. closer[d] \in {"returned", "panic"} /\ closer[c] = "idle"
    BY <1>0, <1>6, <2>1 DEF CloseAgain, Unlocked, SubTypeOK
  <2>3. early' = early /\ \A e \in Closers : closer[e] # "idle" => closer'[e] = closer[e]
    BY <1>0, <1>6 DEF CloseAgain, SubTypeOK
  <2>4. Released /\ (TookBatchers' => TookBatchers)
    BY <2>1, <2>2, <2>3 DEF Released, TookBatchers, Panicked
  <2> QED
    BY <1>2, <2>3, <2>4
<1>7. ASSUME NEW c \in Closers, CloseBlocks(c) PROVE EarlyFinished'
  <2>1. early' = early /\ closer' = [closer EXCEPT ![c] = "blocked"] /\ closer[c] = "waiting"
    BY <1>7 DEF CloseBlocks
  <2> QED
    BY <1>0, <1>2, <2>1 DEF Released, TookBatchers, Panicked, SubTypeOK
<1>8. ASSUME NEW c \in Closers, ClosePanics(c) PROVE EarlyFinished'
  <2>1. early' = early /\ closer' = [closer EXCEPT ![c] = "panic"] /\ closer[c] = "released"
    BY <1>8 DEF ClosePanics
  <2> QED
    BY <1>0, <1>2, <2>1 DEF Released, TookBatchers, Panicked, SubTypeOK
<1>9. ASSUME NEW c \in Closers, CloseWaited(c) PROVE EarlyFinished'
  <2>1. /\ UNCHANGED <<early, sub>> /\ batchers' = <<>>
        /\ \A s \in Subscriptions : sub[s] # "running"
    BY <1>9 DEF CloseWaited, SubscribersDone
  <2>2. \A s \in early : sub[s] = "finished"
    BY <1>0, <2>1 DEF EarlyFinished, SubTypeOK
  <2> QED
    BY <2>1, <2>2, EmptyRange DEF EarlyFinished
<1>10. ASSUME NEW c \in Closers, CloseReturns(c) PROVE EarlyFinished'
  <2>1. /\ early' = early /\ closer' = [closer EXCEPT ![c] = "returned"]
        /\ closer[c] = "flushing"
    BY <1>10 DEF CloseReturns
  <2> QED
    BY <1>0, <1>2, <2>1 DEF Released, TookBatchers, Panicked, SubTypeOK
<1>11. \/ UNCHANGED <<early, closer>>
       \/ \E s \in Subscriptions : Cleanup(s)
       \/ \E c \in Closers : \/ CloseBegins(c) \/ CloseAgain(c) \/ CloseBlocks(c)
                             \/ ClosePanics(c) \/ CloseWaited(c) \/ CloseReturns(c)
  <2> USE DEF closeVars
  <2>1. ASSUME NEW s \in Subscriptions, SubscribeStep(s) \/ UserCancels(s)
        PROVE  UNCHANGED <<early, closer>> \/ Cleanup(s)
    BY <2>1 DEF SubscribeStep, SubscribeChecks, SubscribeFails, RegisterBatcher, StartWorkers,
                SubscribeReturns, UserCancels
  <2>2. ASSUME NEW w \in Workers,
               \/ WorkerStep(w) \/ ReceiveStep(w) \/ DeleteStep(w) \/ WatchClosing(w) \/ HandOff(w)
               \/ DrainTimerFires(w) \/ LateDeleteReturns(w)
        PROVE  UNCHANGED <<early, closer>>
    BY <2>2 DEF WorkerStep, Stop, CallReceive, DiscardBeforeSend, AckToBatcher, AckToDelete,
                Nacked, DiscardBeforeAck, StartDrain, DrainDeadline, ReceiveStep, ReceiveNothing,
                Receive, DeleteStep, DeleteSucceeds, DeleteFails, WatchClosing, HandOff,
                DrainTimerFires, LateDeleteReturns
  <2>3. ASSUME NEW d \in Deliveries, HandlerSettles(d) \/ \E s \in Subscriptions : Flush(s, d)
        PROVE  UNCHANGED <<early, closer>>
    BY <2>3 DEF HandlerSettles, Flush
  <2>4. ASSUME NEW c \in Closers, CloseBatcher(c) PROVE UNCHANGED <<early, closer>>
    BY <2>4 DEF CloseBatcher
  <2>5. QueueStep \/ Terminated \/ UNCHANGED vars => UNCHANGED <<early, closer>>
    BY DEF QueueStep, Terminated, vars
  <2> QED
    BY <2>1, <2>2, <2>3, <2>4, <2>5 DEF Next, CloseStep
<1> QED
  BY <1>3, <1>4, <1>5, <1>6, <1>7, <1>8, <1>9, <1>10, <1>11

(* The invariants of Close are enough for its promise.                     *)
LEMMA QuiescedWhenReturned ==
    ASSUME TypeOK, WorkersRun, CloseOrder, BatchersTracked, EarlyFinished
    PROVE  CloseQuiesces
<1> SUFFICES ASSUME CloseReturned, NEW s \in early
             PROVE  /\ sub[s] = "finished"
                    /\ \A w \in WorkersOf(s) : pc[w] = "stopped"
                    /\ buffered[s] = {} \/ Panicked
  BY DEF CloseQuiesces
<1>1. s \in Subscriptions /\ sub[s] = "finished" /\ (s \notin Range(batchers) \/ Panicked)
  BY DEF EarlyFinished, Released, TookBatchers, CloseReturned, TypeOK
<1>2. \A w \in WorkersOf(s) : pc[w] = "stopped"
  BY <1>1, WorkerFacts DEF WorkersRun
<1>3. taken = <<>>
  BY DEF CloseOrder, Unlocked
<1>4. buffered[s] = {} \/ Panicked
  <2>1. s \notin Range(taken)
    BY <1>3, EmptyRange
  <2> QED
    BY <1>1, <2>1 DEF BatchersTracked, Registered, Drained
<1> QED
  BY <1>1, <1>2, <1>4

-----------------------------------------------------------------------------
(* Deliveries. *)

(* What a step means for the receptions that are handled. A worker drops   *)
(* its batch, goes on to its next message, or calls SQS to delete one.     *)
Drops(w) == \/ DiscardBeforeSend(w) \/ DiscardBeforeAck(w) \/ DrainDeadline(w)
            \/ Nacked(w) \/ DeleteFails(w)

GoesOn(w) == \/ DeleteSucceeds(w) \/ LateDeleteReturns(w)
             \/ AckToBatcher(w) /\ ~sinkClosed[w[1]]

Attempts(w) == AckToDelete(w) \/ (AckToBatcher(w) /\ sinkClosed[w[1]])

Delivers(w) == \/ Drops(w) \/ GoesOn(w) \/ Attempts(w) \/ HandOff(w)
               \/ \E ms \in MessageLists : Receive(w, ms)

(* Every other step leaves them alone; workers without a batch may move.   *)
Quiet == /\ UNCHANGED <<batch, handler, buffered, tried, abandoned>>
         /\ \A w \in Workers : pc'[w] = pc[w] \/ (pc[w] \in Idle /\ pc'[w] \in Idle)

(* Every step is quiet, or a step of a worker with a batch, of a handler,  *)
(* or of a batcher.                                                        *)
LEMMA DeliverySteps ==
    ASSUME TypeOK, WorkersRun, [Next]_vars
    PROVE  \/ Quiet
           \/ \E w \in Workers : Delivers(w)
           \/ \E d \in Deliveries : HandlerSettles(d) \/ \E s \in Subscriptions : Flush(s, d)
<1>0. BatchTypeOK
  BY BatchOfType
<1> USE DEF Quiet, subVars, sinkVars, closeVars, history, workerVars
<1>1. CASE UNCHANGED <<pc, batch, handler, buffered, tried, abandoned>>
  BY <1>1
<1>2. ASSUME NEW s \in Subscriptions, SubscribeStep(s) \/ UserCancels(s) PROVE Quiet
  <2>1. CASE StartWorkers(s)
    <3>1. \A w \in WorkersOf(s) : pc[w] = "off"
      BY <2>1, WorkerFacts DEF StartWorkers, WorkersRun, NotStarted
    <3> QED
      BY <2>1, <3>1 DEF StartWorkers, Idle
  <2> QED
    BY <1>1, <1>2, <2>1 DEF SubscribeStep, SubscribeChecks, SubscribeFails, RegisterBatcher,
              SubscribeReturns, Cleanup, UserCancels
<1>3. ASSUME NEW w \in Workers, Stop(w) \/ CallReceive(w) \/ ReceiveNothing(w) PROVE Quiet
  <2>1. pc[w] \in Idle /\ UNCHANGED <<batch, handler, buffered, tried, abandoned>>
    BY <1>3 DEF Stop, CallReceive, ReceiveNothing, Idle
  <2>2. \E label \in Idle : pc' = [pc EXCEPT ![w] = label]
    BY <1>3 DEF Stop, CallReceive, ReceiveNothing, Enter, Idle
  <2> QED
    BY <1>0, <2>1, <2>2 DEF BatchTypeOK
<1>4. ASSUME NEW w \in Workers, StartDrain(w) \/ WatchClosing(w) \/ DrainTimerFires(w) PROVE Quiet
  BY <1>1, <1>4 DEF StartDrain, WatchClosing, DrainTimerFires
<1>5. ASSUME NEW c \in Closers, CloseBegins(c) \/ CloseAgain(c) \/ CloseStep(c) PROVE Quiet
  BY <1>1, <1>5 DEF CloseBegins, CloseAgain, CloseStep, CloseBlocks, ClosePanics, CloseWaited,
              CloseBatcher, CloseReturns
<1>6. QueueStep \/ Terminated \/ UNCHANGED vars => Quiet
  BY <1>1 DEF QueueStep, Terminated, vars
<1>7. ASSUME NEW w \in Workers,
             \/ WorkerStep(w) \/ ReceiveStep(w) \/ DeleteStep(w) \/ WatchClosing(w) \/ HandOff(w)
             \/ DrainTimerFires(w) \/ LateDeleteReturns(w)
      PROVE  \/ Delivers(w) \/ Stop(w) \/ CallReceive(w) \/ ReceiveNothing(w)
             \/ StartDrain(w) \/ WatchClosing(w) \/ DrainTimerFires(w)
  BY <1>7 DEF WorkerStep, ReceiveStep, DeleteStep, Delivers, Drops, GoesOn, Attempts
<1> HIDE DEF Quiet
<1> QED
  BY <1>2, <1>3, <1>4, <1>5, <1>6, <1>7 DEF Next

(* A handler's state changes when a reception is handed to it and when it  *)
(* settles.                                                                *)
LEMMA HandlerSteps ==
    ASSUME TypeOK, WorkersRun, [Next]_vars, NEW d \in Deliveries
    PROVE  \/ handler'[d] = handler[d]
           \/ handler[d] = "running" /\ handler'[d] \in {"acked", "nacked"}
           \/ \E w \in Workers : HandOff(w) /\ d = Current(w) /\ handler'[d] = "running"
<1>0. SubTypeOK /\ BatchTypeOK
  BY SubOfType, BatchOfType
<1>1. CASE Quiet
  BY <1>1 DEF Quiet
<1>2. ASSUME NEW w \in Workers, HandOff(w)
      PROVE  handler'[d] = handler[d] \/ (d = Current(w) /\ handler'[d] = "running")
  <2>1. handler' = [handler EXCEPT ![Current(w)] = "running"]
    BY <1>2 DEF HandOff
  <2> QED
    BY <1>0, <2>1 DEF SubTypeOK
<1>3. ASSUME NEW w \in Workers, Delivers(w), ~HandOff(w) PROVE handler'[d] = handler[d]
  BY <1>3 DEF Delivers, Drops, GoesOn, Attempts, Receive, DiscardBeforeSend, DiscardBeforeAck,
              DrainDeadline, Nacked, DeleteFails, DeleteSucceeds, LateDeleteReturns,
              AckToBatcher, AckToDelete
<1>4. ASSUME NEW e \in Deliveries, HandlerSettles(e)
      PROVE  \/ handler'[d] = handler[d]
             \/ handler[d] = "running" /\ handler'[d] \in {"acked", "nacked"}
  BY <1>0, <1>4 DEF HandlerSettles, SubTypeOK
<1>5. ASSUME NEW e \in Deliveries, NEW s \in Subscriptions, Flush(s, e)
      PROVE  handler'[d] = handler[d]
  BY <1>5 DEF Flush
<1> QED
  BY <1>1, <1>2, <1>3, <1>4, <1>5, DeliverySteps

(* A batch is received, or what is left of it was there before: a step     *)
(* takes its first message off, or all of them.                            *)
LEMMA BatchSteps ==
    ASSUME TypeOK, WorkersRun, [Next]_vars, NEW w \in Workers
    PROVE  \/ \E ms \in MessageLists : Receive(w, ms)
           \/ batch'[w] = batch[w] /\ (pc'[w] = "offer" => pc[w] = "offer")
           \/ batch'[w] = <<>>
           \/ GoesOn(w) /\ batch[w] # <<>> /\ batch'[w] = Tail(batch[w])
<1>0. BatchTypeOK
  BY BatchOfType
<1> DEFINE Kept == batch'[w] = batch[w] /\ (pc'[w] = "offer" => pc[w] = "offer")
<1>1. CASE Quiet
  BY <1>1 DEF Quiet, Idle
<1>2. ASSUME NEW v \in Workers, Drops(v) PROVE Kept \/ batch'[w] = <<>>
  <2>1. batch' = [batch EXCEPT ![v] = <<>>] /\ pc' = [pc EXCEPT ![v] = "select"]
    BY <1>2 DEF Enter, Drops, DiscardBeforeSend, DiscardBeforeAck, DrainDeadline, Nacked, DeleteFails,
                NotProcessed
  <2> QED
    BY <1>0, <2>1 DEF BatchTypeOK
<1>3. ASSUME NEW v \in Workers, GoesOn(v)
      PROVE  \/ Kept
             \/ GoesOn(w) /\ batch[w] # <<>> /\ batch'[w] = Tail(batch[w])
  <2>1. /\ batch' = [batch EXCEPT ![v] = Tail(batch[v])] /\ pc[v] \in Busy
        /\ pc' = [pc EXCEPT ![v] = AfterMessage(v)]
    BY <1>3 DEF GoesOn, DeleteSucceeds, LateDeleteReturns, AckToBatcher, SeesAck, Processed,
                Enter, Busy
  <2>2. batch[v] # <<>>
    BY <1>0, <2>1, CurrentType
  <2> QED
    BY <1>0, <1>3, <2>1, <2>2 DEF BatchTypeOK
<1>4. ASSUME NEW v \in Workers, Attempts(v) \/ HandOff(v) PROVE Kept
  <2>1. UNCHANGED batch /\ \E label \in {"late", "delete", "wait"} : pc' = [pc EXCEPT ![v] = label]
    BY <1>4 DEF Attempts, AckToDelete, AckToBatcher, HandOff, Enter
  <2> QED
    BY <1>0, <2>1 DEF BatchTypeOK
<1>5. ASSUME NEW v \in Workers, NEW ms \in MessageLists, Receive(v, ms)
      PROVE  Kept \/ v = w
  BY <1>0, <1>5 DEF Receive, Enter, BatchTypeOK
<1>6. ASSUME NEW d \in Deliveries, HandlerSettles(d) \/ \E s \in Subscriptions : Flush(s, d)
      PROVE  Kept
  BY <1>6 DEF HandlerSettles, Flush, workerVars
<1> QED
  BY <1>1, <1>2, <1>3, <1>4, <1>5, <1>6, DeliverySteps DEF Delivers

(* What is left of a batch was k places further on, k being 0 or 1.        *)
LEMMA BatchShifts ==
    ASSUME TypeOK, WorkersRun, [Next]_vars, NEW w \in Workers,
           ~\E ms \in MessageLists : Receive(w, ms)
    PROVE  \E k \in {0, 1} :
               /\ k = 1 => GoesOn(w) /\ batch'[w] = Tail(batch[w])
               /\ \A i \in DOMAIN batch'[w] :
                      /\ i \in Nat /\ i >= 1
                      /\ i + k \in DOMAIN batch[w] /\ batch'[w][i] = batch[w][i + k]
                      /\ pc'[w] = "offer" => pc[w] = "offer" \/ k = 1
<1>0. batch[w] \in Seq(Deliveries)
  BY DEF TypeOK
<1>1. CASE batch'[w] = batch[w] /\ (pc'[w] = "offer" => pc[w] = "offer")
  <2>1. DOMAIN batch[w] = 1..Len(batch[w]) /\ Len(batch[w]) \in Nat
    BY <1>0
  <2>2. \A i \in DOMAIN batch[w] : i \in Nat /\ i >= 1 /\ i + 0 = i
    BY <2>1
  <2> QED
    BY <1>1, <2>2
<1>2. CASE batch'[w] = <<>>
  <2>1. DOMAIN batch'[w] = {}
    BY <1>2
  <2> QED
    BY <2>1
<1>3. CASE GoesOn(w) /\ batch[w] # <<>> /\ batch'[w] = Tail(batch[w])
  <2>1. /\ Len(batch[w]) \in Nat /\ DOMAIN batch[w] = 1..Len(batch[w])
        /\ DOMAIN batch'[w] = 1..(Len(batch[w]) - 1)
        /\ \A i \in 1..(Len(batch[w]) - 1) : batch'[w][i] = batch[w][i + 1] /\ i + 1 \in 1..Len(batch[w])
    BY <1>0, <1>3, HeadAndTail
  <2>2. \A i \in DOMAIN batch'[w] : i \in Nat /\ i >= 1
    BY <2>1
  <2> QED
    BY <1>3, <2>1, <2>2
<1> QED
  BY <1>1, <1>2, <1>3, BatchSteps

(* What is in a batch.                                                     *)
LEMMA BatchElements ==
    ASSUME BatchTypeOK, NEW w \in Workers, NEW i \in DOMAIN batch[w]
    PROVE  /\ i \in Nat /\ i >= 1
           /\ batch[w][i] \in Deliveries /\ batch[w][i] \in Range(batch[w])
           /\ batch[w][i][1] \in Messages /\ batch[w][i][2] \in Nat
<1>1. batch[w] \in Seq(Deliveries)
  BY DEF BatchTypeOK
<1>2. i \in Nat /\ i >= 1 /\ batch[w][i] \in Deliveries
  BY <1>1
<1>3. \A d \in Deliveries : d[1] \in Messages /\ d[2] \in Nat
  BY QueueAssumption DEF Deliveries, QueueAssumption
<1> QED
  BY <1>2, <1>3 DEF Range

(* The receive count of a message only grows.                              *)
LEMMA ReceivedGrows ==
    ASSUME TypeOK, [Next]_vars, NEW m \in Messages
    PROVE  received[m] \in Nat /\ received'[m] \in Nat /\ received[m] <= received'[m]
<1>1. MaxReceiveCount \in Nat /\ received \in [Messages -> 0..MaxReceiveCount]
  BY QueueAssumption DEF TypeOK, QueueTypeOK, QueueAssumption, ConfigType, MaxReceiveCount
<1>2. received[m] \in Nat
  BY <1>1
<1>3. received'[m] = received[m] \/ received'[m] = received[m] + 1
  BY QueueEffects DEF QueueEffect, queueVars, GiveOut, Erase, QueueStep, VisibilityExpires, Redrive
<1> QED
  BY <1>2, <1>3

(* What has left the queue does not come back.                             *)
LEMMA GoneStays ==
    ASSUME TypeOK, [Next]_vars, NEW m \in Messages, Gone(m)
    PROVE  Gone(m)'
<1> USE DEF Gone
<1>0. loc \in [Messages -> {"visible", "inflight", "deleted", "dead"}]
  BY DEF TypeOK, QueueTypeOK
<1>1. ASSUME NEW ms \in MessageLists, GiveOut(ms) PROVE loc'[m] = loc[m]
  BY <1>1 DEF GiveOut, Receivable
<1>2. ASSUME NEW d \in Deliveries, Erase(d) PROVE loc'[m] \in {loc[m], "deleted"}
  BY <1>0, <1>2 DEF Erase
<1>3. CASE QueueStep
  BY <1>0, <1>3 DEF QueueStep, VisibilityExpires, Redrive
<1> QED
  BY <1>1, <1>2, <1>3, QueueEffects DEF QueueEffect, queueVars

(* A reception is given out once: it is in one place of one batch, and a   *)
(* handler sees it no earlier than it is handed off.                       *)
NotReceivedYet == \A d \in Deliveries : received[d[1]] < d[2] =>
    /\ handler[d] = "none"
    /\ \A w \in Workers : d \notin Range(batch[w])

BatchesApart == \A w, v \in Workers : \A i \in DOMAIN batch[w], j \in DOMAIN batch[v] :
    batch[w][i] = batch[v][j] => w = v /\ i = j

NotOfferedYet == \A w \in Workers : \A i \in DOMAIN batch[w] :
    i > 1 \/ pc[w] = "offer" => handler[batch[w][i]] = "none"

(* Nothing is known yet of a reception that SQS has not made.              *)
LEMMA NotReceivedStep ==
    ASSUME TypeOK, WorkersRun, NotReceivedYet, [Next]_vars PROVE NotReceivedYet'
<1>0. SubTypeOK /\ BatchTypeOK
  BY SubOfType, BatchOfType
<1> SUFFICES ASSUME NEW d \in Deliveries, received'[d[1]] < d[2]
             PROVE  /\ handler'[d] = "none"
                    /\ \A w \in Workers : d \notin Range(batch'[w])
  BY DEF NotReceivedYet
<1>1. d[1] \in Messages /\ d[2] \in Nat
  BY QueueAssumption DEF Deliveries, QueueAssumption
<1>2. received[d[1]] < d[2]
  BY <1>1, ReceivedGrows
<1>3. handler[d] = "none" /\ \A w \in Workers : d \notin Range(batch[w])
  BY <1>2 DEF NotReceivedYet
<1>4. handler'[d] = "none"
  <2>1. ASSUME NEW w \in Workers, HandOff(w) PROVE d # Current(w)
    <3>1. Current(w) \in Range(batch[w])
      BY <1>0, <2>1, CurrentType, BatchElements DEF HandOff, Busy
    <3> QED
      BY <1>3, <3>1
  <2> QED
    BY <1>3, <2>1, HandlerSteps
<1>5. ASSUME NEW w \in Workers PROVE d \notin Range(batch'[w])
  <2>1. ASSUME NEW ms \in MessageLists, Receive(w, ms) PROVE d \notin Range(batch'[w])
    <3>1. GiveOut(ms) /\ batch'[w] = ReceiptsOf(ms)
      BY <1>0, <2>1 DEF Receive, BatchTypeOK
    <3>2. ASSUME NEW i \in DOMAIN ReceiptsOf(ms) PROVE ReceiptsOf(ms)[i] # d
      <4>1. /\ ReceiptsOf(ms)[i] = <<ms[i], received[ms[i]] + 1>> /\ i \in DOMAIN ms
            /\ ms[i] \in Messages
        BY <3>1, <3>2, ReceiptFacts DEF GiveOut, TypeOK
      <4>2. received'[ms[i]] = received[ms[i]] + 1
        BY <3>1, <4>1 DEF GiveOut, Range
      <4>3. received'[ms[i]] \in Nat
        BY <4>1, ReceivedGrows
      <4>4. d[1] = ms[i] => d[2] # received[ms[i]] + 1
        BY <1>1, <4>2, <4>3
      <4> QED
        BY <4>1, <4>4
    <3> QED
      BY <3>1, <3>2 DEF Range
  <2>2. CASE batch'[w] = <<>>
    BY <2>2, EmptyRange
  <2>3. CASE batch[w] # <<>> /\ batch'[w] = Tail(batch[w])
    <3>1. Range(batch'[w]) \subseteq Range(batch[w])
      BY <1>0, <2>3, TailRange DEF BatchTypeOK
    <3> QED
      BY <1>3, <3>1
  <2> QED
    BY <1>3, <2>1, <2>2, <2>3, BatchSteps
<1> QED
  BY <1>4, <1>5

(* A worker that receives holds receptions nobody has seen.                *)
LEMMA FreshBatch ==
    ASSUME TypeOK, NotReceivedYet, NEW w \in Workers, NEW ms \in MessageLists, Receive(w, ms)
    PROVE  /\ batch'[w] = ReceiptsOf(ms)
           /\ \A v \in Workers : v # w => batch'[v] = batch[v] /\ pc'[v] = pc[v]
           /\ UNCHANGED handler
           /\ \A i, j \in DOMAIN batch'[w] : batch'[w][i] = batch'[w][j] => i = j
           /\ \A i \in DOMAIN batch'[w] :
                  /\ handler[batch'[w][i]] = "none"
                  /\ \A v \in Workers : batch'[w][i] \notin Range(batch[v])
<1>0. BatchTypeOK
  BY BatchOfType
<1>1. /\ batch'[w] = ReceiptsOf(ms)
      /\ \A v \in Workers : v # w => batch'[v] = batch[v] /\ pc'[v] = pc[v]
      /\ UNCHANGED handler
  BY <1>0 DEF Receive, Enter, BatchTypeOK
<1>2. /\ ReceiptsOf(ms) \in Seq(Deliveries) /\ DOMAIN ReceiptsOf(ms) = DOMAIN ms
      /\ \A i \in DOMAIN ms : /\ received[ms[i]] \in Nat
                              /\ ReceiptsOf(ms)[i] = <<ms[i], received[ms[i]] + 1>>
      /\ \A i, j \in DOMAIN ms : ms[i] = ms[j] => i = j
  BY ReceiptFacts DEF Receive, GiveOut, TypeOK
<1>3. \A i, j \in DOMAIN ms : ReceiptsOf(ms)[i] = ReceiptsOf(ms)[j] => i = j
  BY <1>2
<1>4. ASSUME NEW i \in DOMAIN ms
      PROVE  /\ handler[ReceiptsOf(ms)[i]] = "none"
             /\ \A v \in Workers : ReceiptsOf(ms)[i] \notin Range(batch[v])
  <2>1. ReceiptsOf(ms)[i] \in Deliveries
    BY <1>2
  <2>2. ReceiptsOf(ms)[i][1] = ms[i] /\ ReceiptsOf(ms)[i][2] = received[ms[i]] + 1
    BY <1>2
  <2>3. received[ms[i]] < received[ms[i]] + 1
    BY <1>2
  <2> QED
    BY <2>1, <2>2, <2>3 DEF NotReceivedYet
<1> QED
  BY <1>1, <1>2, <1>3, <1>4

(* A reception is in one place of one batch.                               *)
LEMMA ApartStep ==
    ASSUME TypeOK, WorkersRun, NotReceivedYet, BatchesApart, [Next]_vars PROVE BatchesApart'
<1>0. BatchTypeOK /\ BatchTypeOK'
  BY BatchOfType, BatchTypes
<1> SUFFICES ASSUME NEW w \in Workers, NEW v \in Workers,
                    NEW i \in DOMAIN batch'[w], NEW j \in DOMAIN batch'[v],
                    batch'[w][i] = batch'[v][j]
             PROVE  w = v /\ i = j
  BY DEF BatchesApart
<1>1. ASSUME NEW u \in Workers, NEW ms \in MessageLists, Receive(u, ms) PROVE w = v /\ i = j
  <2>1. /\ \A x \in Workers : x # u => batch'[x] = batch[x]
        /\ \A k, l \in DOMAIN batch'[u] : batch'[u][k] = batch'[u][l] => k = l
        /\ \A k \in DOMAIN batch'[u] : \A x \in Workers : batch'[u][k] \notin Range(batch[x])
    BY <1>1, FreshBatch
  <2>2. \A x \in Workers : \A k \in DOMAIN batch[x] : batch[x][k] \in Range(batch[x])
    BY <1>0, BatchElements
  <2>3. CASE w = u /\ v = u
    BY <2>1, <2>3
  <2>4. CASE w = u /\ v # u
    BY <2>1, <2>2, <2>4
  <2>5. CASE w # u /\ v = u
    BY <2>1, <2>2, <2>5
  <2>6. CASE w # u /\ v # u
    BY <2>1, <2>6 DEF BatchesApart
  <2> QED
    BY <2>3, <2>4, <2>5, <2>6
<1>2. CASE ~\E u \in Workers, ms \in MessageLists : Receive(u, ms)
  <2>1. PICK k \in {0, 1} : \A n \in DOMAIN batch'[w] :
            n \in Nat /\ n + k \in DOMAIN batch[w] /\ batch'[w][n] = batch[w][n + k]
    BY <1>2, BatchShifts
  <2>2. PICK l \in {0, 1} : \A n \in DOMAIN batch'[v] :
            n \in Nat /\ n + l \in DOMAIN batch[v] /\ batch'[v][n] = batch[v][n + l]
    BY <1>2, BatchShifts
  <2>3. w = v
    BY <2>1, <2>2 DEF BatchesApart
  <2>4. i + k = j + k /\ i \in Nat /\ j \in Nat
    BY <2>1, <2>3 DEF BatchesApart
  <2>5. i = j
    BY <2>4
  <2> QED
    BY <2>3, <2>5
<1> QED
  BY <1>1, <1>2

(* A reception still to be offered has no handler and is in no batcher.    *)
LEMMA NotOfferedStep ==
    ASSUME TypeOK, WorkersRun, NotReceivedYet, BatchesApart, NotOfferedYet, [Next]_vars
    PROVE  NotOfferedYet'
<1>0. SubTypeOK /\ BatchTypeOK /\ BatchTypeOK'
  BY SubOfType, BatchOfType, BatchTypes
<1> SUFFICES ASSUME NEW w \in Workers, NEW i \in DOMAIN batch'[w], i > 1 \/ pc'[w] = "offer"
             PROVE  handler'[batch'[w][i]] = "none"
  BY DEF NotOfferedYet
<1>1. ASSUME NEW ms \in MessageLists, Receive(w, ms) PROVE handler'[batch'[w][i]] = "none"
  BY <1>1, FreshBatch
<1>2. CASE ~\E ms \in MessageLists : Receive(w, ms)
  <2> DEFINE d == batch'[w][i]
  <2>1. PICK k \in {0, 1} :
            /\ k = 1 => GoesOn(w) /\ batch'[w] = Tail(batch[w])
            /\ \A n \in DOMAIN batch'[w] :
                  /\ n \in Nat /\ n >= 1
                  /\ n + k \in DOMAIN batch[w] /\ batch'[w][n] = batch[w][n + k]
                  /\ pc'[w] = "offer" => pc[w] = "offer" \/ k = 1
    BY <1>2, BatchShifts
  <2>2. i \in Nat /\ i >= 1 /\ i + k \in DOMAIN batch[w] /\ d = batch[w][i + k]
    BY <2>1
  <2>3. d \in Deliveries
    BY <1>0, <2>2, BatchElements
  <2>4. i + k > 1 \/ pc[w] = "offer"
    <3>1. i > 1 \/ k = 1 => i + k > 1
      BY <2>2
    <3> QED
      BY <2>1, <3>1
  <2>5. handler[d] = "none"
    BY <2>2, <2>4 DEF NotOfferedYet
  <2>6. ASSUME NEW v \in Workers, HandOff(v), d = Current(v) PROVE FALSE
    <3>1. /\ pc[v] = "offer" /\ pc'[v] = "wait" /\ UNCHANGED batch
      BY <1>0, <2>6 DEF HandOff, Enter, BatchTypeOK
    <3>2. 1 \in DOMAIN batch[v] /\ d = batch[v][1]
      BY <1>0, <2>6, <3>1, CurrentType DEF Busy
    <3>3. \A n \in DOMAIN batch[w] : batch[w][n] = batch[v][1] => w = v /\ n = 1
      BY <3>2 DEF BatchesApart
    <3>4. w = v /\ i + k = 1
      BY <2>2, <3>2, <3>3
    <3>5. i = 1
      BY <2>2, <3>4
    <3> QED
      BY <3>1, <3>4, <3>5
  <2> QED
    BY <2>3, <2>5, <2>6, HandlerSteps
<1> QED
  BY <1>1, <1>2

(* An ack is final: nobody hands the reception out again.                  *)
LEMMA AckedStays ==
    ASSUME TypeOK, WorkersRun, NotOfferedYet, [Next]_vars,
           NEW d \in Deliveries, handler[d] = "acked"
    PROVE  handler'[d] = "acked"
<1>0. BatchTypeOK
  BY BatchOfType
<1>1. ASSUME NEW w \in Workers, HandOff(w), d = Current(w) PROVE FALSE
  <2>1. pc[w] = "offer" /\ 1 \in DOMAIN batch[w] /\ d = batch[w][1]
    BY <1>0, <1>1, CurrentType DEF HandOff, Busy
  <2>2. handler[d] = "none"
    BY <2>1 DEF NotOfferedYet
  <2> QED
    BY <2>2
<1> QED
  BY <1>1, HandlerSteps

(* Nothing but an acked reception gets as far as a delete.                 *)
AckedFirst ==
    /\ \A w \in Workers : pc[w] \in {"delete", "late"} => handler[Current(w)] = "acked"
    /\ \A s \in Subscriptions : \A d \in buffered[s] : handler[d] = "acked"

(* A worker comes to a delete from the wait for its handler, and a handle  *)
(* to a batcher from there, too.                                           *)
LEMMA DeleteSteps ==
    ASSUME TypeOK, WorkersRun, [Next]_vars
    PROVE  /\ \A w \in Workers : pc'[w] \in {"delete", "late"} =>
                  /\ batch'[w] = batch[w]
                  /\ pc[w] \in {"delete", "late"} \/ (SeesAck(w) /\ Current(w) \in tried')
           /\ \A s \in Subscriptions : \A d \in buffered'[s] :
                  d \in buffered[s] \/ \E w \in Workers : SeesAck(w) /\ d = Current(w)
<1>0. SubTypeOK /\ BatchTypeOK
  BY SubOfType, BatchOfType
<1> DEFINE Deletes(w) == pc'[w] \in {"delete", "late"} =>
               /\ batch'[w] = batch[w]
               /\ pc[w] \in {"delete", "late"} \/ (SeesAck(w) /\ Current(w) \in tried')
           Buffers(s) == \A d \in buffered'[s] :
               d \in buffered[s] \/ \E w \in Workers : SeesAck(w) /\ d = Current(w)
<1>1. CASE Quiet
  BY <1>1 DEF Quiet, Idle
<1>2. ASSUME NEW v \in Workers, NEW label, pc' = [pc EXCEPT ![v] = label],
             label \in {"select", "offer", "wait"},
             \A w \in Workers : w # v => batch'[w] = batch[w],
             NEW w \in Workers
      PROVE  Deletes(w)
  BY <1>0, <1>2 DEF BatchTypeOK
<1>3. ASSUME NEW v \in Workers, Drops(v)
      PROVE  (\A w \in Workers : Deletes(w)) /\ UNCHANGED buffered
  <2>1. /\ batch' = [batch EXCEPT ![v] = <<>>] /\ pc' = [pc EXCEPT ![v] = "select"]
        /\ UNCHANGED buffered
    BY <1>3 DEF Drops, DiscardBeforeSend, DiscardBeforeAck, DrainDeadline, Nacked, DeleteFails,
                NotProcessed, Enter, sinkVars
  <2>2. \A w \in Workers : w # v => batch'[w] = batch[w]
    BY <1>0, <2>1 DEF BatchTypeOK
  <2> QED
    BY <1>2, <2>1, <2>2
<1>4. ASSUME NEW v \in Workers, GoesOn(v)
      PROVE  (\A w \in Workers : Deletes(w)) /\ (\A s \in Subscriptions : Buffers(s))
  <2>1. /\ batch' = [batch EXCEPT ![v] = Tail(batch[v])]
        /\ pc' = [pc EXCEPT ![v] = AfterMessage(v)]
    BY <1>4 DEF GoesOn, DeleteSucceeds, LateDeleteReturns, AckToBatcher, Processed, Enter
  <2>2. \A w \in Workers : w # v => batch'[w] = batch[w]
    BY <1>0, <2>1 DEF BatchTypeOK
  <2>3. AfterMessage(v) \in {"select", "offer", "wait"}
    BY DEF AfterMessage
  <2>4. \A w \in Workers : Deletes(w)
    BY <1>2, <2>1, <2>2, <2>3
  <2>5. CASE DeleteSucceeds(v) \/ LateDeleteReturns(v)
    BY <2>4, <2>5 DEF DeleteSucceeds, LateDeleteReturns, sinkVars
  <2>6. CASE AckToBatcher(v) /\ ~sinkClosed[v[1]]
    <3>1. /\ buffered' = [buffered EXCEPT ![v[1]] = @ \cup {Current(v)}]
          /\ SeesAck(v) /\ v[1] \in Subscriptions
      BY <2>6, WorkerFacts DEF AckToBatcher
    <3>2. ASSUME NEW s \in Subscriptions PROVE Buffers(s)
      BY <1>0, <3>1 DEF SubTypeOK
    <3> QED
      BY <2>4, <3>2
  <2> QED
    BY <1>4, <2>5, <2>6 DEF GoesOn
<1>5. ASSUME NEW v \in Workers, Attempts(v)
      PROVE  (\A w \in Workers : Deletes(w)) /\ UNCHANGED buffered
  <2>1. /\ UNCHANGED <<batch, buffered>> /\ SeesAck(v) /\ Current(v) \in tried'
        /\ \E label \in {"delete", "late"} : pc' = [pc EXCEPT ![v] = label]
    BY <1>5 DEF Attempts, AckToDelete, AckToBatcher, Enter, sinkVars
  <2> QED
    BY <1>0, <2>1 DEF BatchTypeOK
<1>6. ASSUME NEW v \in Workers, HandOff(v) \/ \E ms \in MessageLists : Receive(v, ms)
      PROVE  (\A w \in Workers : Deletes(w)) /\ UNCHANGED buffered
  <2>1. /\ \A w \in Workers : w # v => batch'[w] = batch[w]
        /\ \E label \in {"wait", "offer"} : pc' = [pc EXCEPT ![v] = label]
        /\ UNCHANGED buffered
    BY <1>0, <1>6 DEF HandOff, Receive, Enter, BatchTypeOK, sinkVars
  <2> QED
    BY <1>2, <2>1
<1>7. ASSUME NEW d \in Deliveries, HandlerSettles(d) \/ \E s \in Subscriptions : Flush(s, d)
      PROVE  /\ UNCHANGED <<pc, batch>>
             /\ \A s \in Subscriptions : buffered'[s] \subseteq buffered[s]
  BY <1>0, <1>7 DEF HandlerSettles, Flush, workerVars, sinkVars, SubTypeOK
<1> QED
  BY <1>1, <1>3, <1>4, <1>5, <1>6, <1>7, DeliverySteps DEF Delivers

(* Only an acked reception is deleted or buffered for deletion: the heart  *)
(* of NoLoss.                                                              *)
LEMMA AckedFirstStep ==
    ASSUME TypeOK, WorkersRun, NotOfferedYet, AckedFirst, [Next]_vars PROVE AckedFirst'
<1>0. SubTypeOK /\ BatchTypeOK
  BY SubOfType, BatchOfType
<1>1. ASSUME NEW w \in Workers, pc'[w] \in {"delete", "late"}
      PROVE  handler'[Head(batch'[w])] = "acked"
  <2>1. batch'[w] = batch[w] /\ (pc[w] \in {"delete", "late"} \/ SeesAck(w))
    BY <1>1, DeleteSteps
  <2>2. pc[w] \in Busy
    BY <2>1 DEF SeesAck, Busy
  <2>3. Current(w) \in Deliveries
    BY <1>0, <2>2, CurrentType
  <2>4. handler[Current(w)] = "acked"
    BY <2>1 DEF SeesAck, AckedFirst
  <2> QED
    BY <2>1, <2>3, <2>4, AckedStays DEF Current
<1>2. ASSUME NEW s \in Subscriptions, NEW d \in buffered'[s] PROVE handler'[d] = "acked"
  <2>1. d \in buffered[s] \/ \E w \in Workers : SeesAck(w) /\ d = Current(w)
    BY <1>2, DeleteSteps
  <2>2. handler[d] = "acked"
    BY <2>1 DEF AckedFirst, SeesAck
  <2>3. d \in Deliveries
    BY <1>0, <2>1, CurrentType DEF SeesAck, Busy, SubTypeOK
  <2> QED
    BY <2>2, <2>3, AckedStays
<1> QED
  BY <1>1, <1>2 DEF AckedFirst, Current

(* A message that is newly deleted is one whose handler acked it.          *)
LEMMA NoLossStep ==
    ASSUME TypeOK, WorkersRun, NotReceivedYet, NotOfferedYet, AckedFirst, NoLoss, [Next]_vars
    PROVE  NoLoss'
<1>0. SubTypeOK /\ BatchTypeOK
  BY SubOfType, BatchOfType
<1>1. /\ MaxReceiveCount' = MaxReceiveCount /\ MaxReceiveCount \in 1..MaxReceives
      /\ MaxReceives \in Nat
  BY ConfigStep, QueueAssumption
     DEF MaxReceiveCount, TypeOK, QueueTypeOK, QueueAssumption, ConfigType
<1> SUFFICES ASSUME NEW m \in Messages, loc'[m] = "deleted"
             PROVE  \E n \in 1..MaxReceiveCount : handler'[<<m, n>>] = "acked"
  BY <1>1 DEF NoLoss
<1>2. CASE loc[m] = "deleted"
  <2>1. PICK n \in 1..MaxReceiveCount : handler[<<m, n>>] = "acked"
    BY <1>2 DEF NoLoss
  <2>2. <<m, n>> \in Deliveries
    BY <1>1, <2>1 DEF Deliveries
  <2> QED
    BY <2>1, <2>2, AckedStays
<1>3. CASE loc[m] # "deleted"
  <2>1. PICK d \in Deliveries : Erasable(d) /\ Erase(d) /\ d[1] = m
    <3>1. loc \in [Messages -> {"visible", "inflight", "deleted", "dead"}]
      BY DEF TypeOK, QueueTypeOK
    <3>2. ASSUME NEW ms \in MessageLists, GiveOut(ms) PROVE loc'[m] \in {loc[m], "inflight"}
      BY <3>2 DEF GiveOut
    <3>3. QueueStep => loc'[m] \in {loc[m], "visible", "dead"}
      BY <3>1 DEF QueueStep, VisibilityExpires, Redrive
    <3>4. ASSUME NEW d \in Deliveries, Erase(d) PROVE loc'[m] = loc[m] \/ d[1] = m
      BY <3>1, <3>4 DEF Erase
    <3> QED
      BY <1>3, <3>2, <3>3, <3>4, QueueEffects DEF QueueEffect, queueVars
  <2>2. handler[d] = "acked"
    BY <2>1 DEF Erasable, AckedFirst
  <2>3. handler'[d] = "acked"
    BY <2>2, AckedStays
  <2>4. d = <<m, d[2]>> /\ d[2] \in 1..MaxReceives
    BY <2>1 DEF Deliveries
  <2>5. ~(received[m] < d[2])
    BY <2>1, <2>2 DEF NotReceivedYet
  <2>6. received[m] \in 0..MaxReceiveCount
    BY DEF TypeOK, QueueTypeOK
  <2>7. d[2] \in 1..MaxReceiveCount
    BY <1>1, <2>4, <2>5, <2>6
  <2> QED
    BY <2>3, <2>4, <2>7
<1> QED
  BY <1>2, <1>3

-----------------------------------------------------------------------------
(* Draining. *)

(* With draining, a reception whose handler runs or has acked is awaited,  *)
(* or buffered, or its delete was attempted, or it was given up.           *)
Awaited(d) == \E w \in Workers : pc[w] = "wait" /\ Current(w) = d

HandlersTracked == Drain => \A d \in Deliveries :
    handler[d] \in {"running", "acked"} =>
        \/ d \in tried \cup abandoned
        \/ \E s \in Subscriptions : d \in buffered[s]
        \/ Awaited(d)

(* How a worker's wait for a handler ends.                                 *)
LEMMA WaitEnds ==
    ASSUME TypeOK, WorkersRun, [Next]_vars, NEW w \in Workers, pc[w] = "wait"
    PROVE  \/ pc'[w] = "wait" /\ batch'[w] = batch[w]
           \/ Current(w) \in abandoned'
           \/ ~Drain
           \/ handler[Current(w)] = "nacked"
           \/ /\ handler[Current(w)] = "acked"
              /\ Current(w) \in tried' \/ \E s \in Subscriptions : Current(w) \in buffered'[s]
<1>0. SubTypeOK /\ BatchTypeOK
  BY SubOfType, BatchOfType
<1> DEFINE Waits == pc'[w] = "wait" /\ batch'[w] = batch[w]
<1>1. CASE Quiet
  BY <1>1 DEF Quiet, Idle
<1>2. ASSUME NEW d \in Deliveries, HandlerSettles(d) \/ \E s \in Subscriptions : Flush(s, d)
      PROVE  Waits
  BY <1>2 DEF HandlerSettles, Flush, workerVars
<1>3. ASSUME NEW v \in Workers, Delivers(v), v # w PROVE Waits
  <2>1. /\ \E label : pc' = [pc EXCEPT ![v] = label]
        /\ \E b : batch' = [batch EXCEPT ![v] = b]
    <3>1. CASE Drops(v) \/ GoesOn(v)
      BY <3>1 DEF Drops, GoesOn, DiscardBeforeSend, DiscardBeforeAck, DrainDeadline, Nacked,
                  DeleteFails, DeleteSucceeds, LateDeleteReturns, AckToBatcher,
                  Processed, NotProcessed, Enter
    <3>2. CASE Attempts(v) \/ HandOff(v)
      <4>1. UNCHANGED batch /\ \E label : pc' = [pc EXCEPT ![v] = label]
        BY <3>2 DEF Attempts, AckToDelete, AckToBatcher, HandOff, Enter
      <4>2. batch' = [batch EXCEPT ![v] = batch[v]]
        BY <1>0, <4>1 DEF BatchTypeOK
      <4> QED
        BY <4>1, <4>2
    <3>3. ASSUME NEW ms \in MessageLists, Receive(v, ms)
          PROVE  /\ \E label : pc' = [pc EXCEPT ![v] = label]
                 /\ \E b : batch' = [batch EXCEPT ![v] = b]
      BY <3>3 DEF Receive, Enter
    <3> QED
      BY <1>3, <3>1, <3>2, <3>3 DEF Delivers
  <2> QED
    BY <1>0, <1>3, <2>1 DEF BatchTypeOK
<1>4. CASE Drops(w)
  BY <1>4 DEF Drops, DiscardBeforeSend, DiscardBeforeAck, DrainDeadline, Nacked, DeleteFails
<1>5. CASE GoesOn(w)
  <2>1. AckToBatcher(w) /\ ~sinkClosed[w[1]]
    BY <1>5 DEF GoesOn, DeleteSucceeds, LateDeleteReturns
  <2>2. /\ buffered' = [buffered EXCEPT ![w[1]] = @ \cup {Current(w)}]
        /\ handler[Current(w)] = "acked" /\ w[1] \in Subscriptions
    BY <2>1, WorkerFacts DEF AckToBatcher, SeesAck
  <2>3. Current(w) \in buffered'[w[1]]
    BY <1>0, <2>2 DEF SubTypeOK
  <2> QED
    BY <2>2, <2>3
<1>6. CASE Attempts(w)
  BY <1>6 DEF Attempts, AckToDelete, AckToBatcher, SeesAck
<1>7. ~HandOff(w) /\ ~\E ms \in MessageLists : Receive(w, ms)
  BY DEF HandOff, Receive
<1> QED
  BY <1>1, <1>2, <1>3, <1>4, <1>5, <1>6, <1>7, DeliverySteps DEF Delivers

(* The histories keep what they recorded, and a handle leaves a batcher    *)
(* only for SQS.                                                           *)
LEMMA HistoryGrows ==
    ASSUME TypeOK, WorkersRun, [Next]_vars
    PROVE  /\ tried \subseteq tried' /\ abandoned \subseteq abandoned'
           /\ \A s \in Subscriptions : \A d \in buffered[s] : d \in buffered'[s] \cup tried'
<1>0. SubTypeOK
  BY SubOfType
<1>1. CASE Quiet
  BY <1>1 DEF Quiet
<1>2. ASSUME NEW d \in Deliveries, HandlerSettles(d)
      PROVE  UNCHANGED <<tried, abandoned, buffered>>
  BY <1>2 DEF HandlerSettles, sinkVars, history
<1>3. ASSUME NEW d \in Deliveries, NEW s \in Subscriptions, Flush(s, d)
      PROVE  /\ tried \subseteq tried' /\ UNCHANGED abandoned
             /\ \A r \in Subscriptions : \A e \in buffered[r] : e \in buffered'[r] \cup tried'
  BY <1>0, <1>3 DEF Flush, SubTypeOK
<1>4. ASSUME NEW w \in Workers, Drops(w) \/ HandOff(w) \/ \E ms \in MessageLists : Receive(w, ms)
      PROVE  abandoned \subseteq abandoned' /\ UNCHANGED <<tried, buffered>>
  BY <1>4 DEF Drops, HandOff, Receive, DiscardBeforeSend, DiscardBeforeAck, DrainDeadline, Nacked,
              DeleteFails, sinkVars, history
<1>5. ASSUME NEW w \in Workers, GoesOn(w) \/ Attempts(w)
      PROVE  /\ tried \subseteq tried' /\ UNCHANGED abandoned
             /\ UNCHANGED buffered \/ buffered' = [buffered EXCEPT ![w[1]] = @ \cup {Current(w)}]
  BY <1>5 DEF GoesOn, Attempts, DeleteSucceeds, LateDeleteReturns, AckToBatcher, AckToDelete,
              sinkVars, history
<1>6. ASSUME NEW w \in Workers, buffered' = [buffered EXCEPT ![w[1]] = @ \cup {Current(w)}],
             NEW s \in Subscriptions
      PROVE  buffered[s] \subseteq buffered'[s]
  BY <1>0, <1>6 DEF SubTypeOK
<1> QED
  BY <1>1, <1>2, <1>3, <1>4, <1>5, <1>6, DeliverySteps DEF Delivers

(* A handler that runs or has acked has its worker waiting, or was         *)
(* abandoned, or its ack was passed on.                                    *)
LEMMA HandlersStep ==
    ASSUME TypeOK, WorkersRun, HandlersTracked, [Next]_vars PROVE HandlersTracked'
<1>0. SubTypeOK /\ BatchTypeOK /\ Drain' = Drain
  BY SubOfType, BatchOfType, ConfigStep DEF Drain
<1> SUFFICES ASSUME Drain, NEW d \in Deliveries, handler'[d] \in {"running", "acked"}
             PROVE  \/ d \in tried' \cup abandoned'
                    \/ \E s \in Subscriptions : d \in buffered'[s]
                    \/ Awaited(d)'
  BY <1>0 DEF HandlersTracked
<1>1. ASSUME NEW w \in Workers, HandOff(w), d = Current(w) PROVE Awaited(d)'
  BY <1>0, <1>1 DEF HandOff, Enter, Awaited, Current, BatchTypeOK
<1>2. CASE handler[d] \in {"running", "acked"}
  <2>1. \/ d \in tried \cup abandoned
        \/ \E s \in Subscriptions : d \in buffered[s]
        \/ Awaited(d)
    BY <1>2 DEF HandlersTracked
  <2>2. ASSUME NEW w \in Workers, pc[w] = "wait", Current(w) = d
        PROVE  \/ d \in tried' \cup abandoned'
               \/ \E s \in Subscriptions : d \in buffered'[s]
               \/ Awaited(d)'
    <3>1. pc'[w] = "wait" /\ batch'[w] = batch[w] => Awaited(d)'
      BY <2>2 DEF Awaited, Current
    <3> QED
      BY <1>2, <2>2, <3>1, WaitEnds
  <2> QED
    BY <2>1, <2>2, HistoryGrows DEF Awaited
<1> QED
  BY <1>1, <1>2, HandlerSteps

(* After a quiet Close, an ack that was not used belongs to a handler that *)
(* was abandoned.                                                          *)
LEMMA NothingWasted ==
    ASSUME TypeOK, CloseQuiesces, HandlersTracked
    PROVE  NoAckWasted
<1>0. SubTypeOK /\ BatchTypeOK
  BY SubOfType, BatchOfType
<1> SUFFICES ASSUME Drain, CloseReturned, NEW d \in Deliveries, handler[d] = "acked",
                    d \notin tried \cup abandoned
             PROVE  StillHeld(d)
  BY DEF NoAckWasted
<1>1. (\E s \in Subscriptions : d \in buffered[s]) \/ Awaited(d)
  BY DEF HandlersTracked
<1>2. ASSUME NEW s \in Subscriptions, d \in buffered[s] PROVE StillHeld(d)
  <2>1. s \in early => Panicked
    BY <1>2 DEF CloseQuiesces
  <2> QED
    BY <1>2, <2>1 DEF StillHeld
<1>3. ASSUME NEW w \in Workers, pc[w] = "wait", Current(w) = d PROVE StillHeld(d)
  <2>1. w[1] \in Subscriptions /\ w \in WorkersOf(w[1])
    BY WorkerFacts
  <2>2. w[1] \notin early
    BY <1>3, <2>1 DEF CloseQuiesces
  <2>3. batch[w] # <<>>
    BY <1>0, <1>3, CurrentType DEF Busy
  <2> QED
    BY <1>3, <2>1, <2>2, <2>3 DEF StillHeld
<1> QED
  BY <1>1, <1>2, <1>3 DEF Awaited

-----------------------------------------------------------------------------
(* FIFO. *)

(* FIFO, synchronous deletes: what is older than a message in a batch is   *)
(* gone, or before it in the batch.                                        *)
OlderFirst == Fifo /\ ~Batched => \A w \in Workers :
    /\ pc[w] # "late"
    /\ \A i \in DOMAIN batch[w], m \in Messages : m < batch[w][i][1] =>
           Gone(m) \/ \E j \in 1..(i - 1) : batch[w][j][1] = m

(* A FIFO queue gives out a list in which nothing older is missing.        *)
LEMMA OlderReceived ==
    ASSUME Fifo, NEW ms \in MessageLists, Receivable(ms),
           NEW i \in DOMAIN ms, NEW m \in Messages, m < ms[i]
    PROVE  Gone(m) \/ \E j \in 1..(i - 1) : ms[j] = m
<1>0. \A x \in Messages : x \in Int
  BY QueueAssumption DEF QueueAssumption, Messages
<1> HIDE DEF Messages
<1>1. /\ ms \in Seq(Messages) /\ Len(ms) \in Nat \ {0} /\ DOMAIN ms = 1..Len(ms)
      /\ i \in Nat /\ m \in Int
  BY <1>0, MessageListFacts
<1>2. Last(ms) = ms[Len(ms)] /\ Len(ms) \in DOMAIN ms
  BY <1>1 DEF Last
<1>3. \A j \in DOMAIN ms : ms[j] \in Int
  <2>1. ASSUME NEW j \in DOMAIN ms PROVE ms[j] \in Messages
    BY <1>1
  <2> QED
    BY <1>0, <2>1
<1>4. \A j, k \in DOMAIN ms : j < k => ms[j] < ms[k]
  BY DEF Receivable
<1>5. ms[i] <= ms[Len(ms)]
  <2>1. i = Len(ms) \/ i < Len(ms)
    BY <1>1
  <2>2. i < Len(ms) => ms[i] < ms[Len(ms)]
    BY <1>2, <1>4
  <2> QED
    BY <1>2, <1>3, <2>1, <2>2
<1>6. m < Last(ms)
  BY <1>1, <1>2, <1>3, <1>5
<1>7. Gone(m) \/ m \in Range(ms)
  BY <1>6 DEF Receivable
<1>8. ASSUME NEW j \in DOMAIN ms, ms[j] = m PROVE j \in 1..(i - 1)
  <2>1. ~(i < j) /\ i # j
    BY <1>1, <1>3, <1>4, <1>8
  <2> QED
    BY <1>1, <2>1
<1> QED
  BY <1>7, <1>8 DEF Range

(* On a FIFO queue, a worker gets or keeps a message only when every older *)
(* one is gone, or in front of it in the same batch: the heart of          *)
(* FIFOOrder.                                                              *)
LEMMA OlderFirstStep ==
    ASSUME TypeOK, WorkersRun, OlderFirst, [Next]_vars PROVE OlderFirst'
<1>0. BatchTypeOK /\ BatchTypeOK' /\ Fifo' = Fifo /\ Batched' = Batched
  BY BatchOfType, BatchTypes, ConfigStep DEF Fifo, Batched
<1> SUFFICES ASSUME Fifo, ~Batched, NEW w \in Workers
             PROVE  /\ pc'[w] # "late"
                    /\ \A i \in DOMAIN batch'[w], m \in Messages : m < batch'[w][i][1] =>
                           Gone(m)' \/ \E j \in 1..(i - 1) : batch'[w][j][1] = m
  BY <1>0 DEF OlderFirst
<1>1. /\ pc[w] # "late"
      /\ \A i \in DOMAIN batch[w], m \in Messages : m < batch[w][i][1] =>
             Gone(m) \/ \E j \in 1..(i - 1) : batch[w][j][1] = m
  BY DEF OlderFirst
<1>2. pc'[w] # "late"
  <2>1. ASSUME NEW v \in Workers, NEW label, label # "late", pc' = [pc EXCEPT ![v] = label]
        PROVE  pc'[w] # "late"
    BY <1>0, <1>1, <2>1 DEF BatchTypeOK
  <2>2. ASSUME NEW v \in Workers, Delivers(v)
        PROVE  \E label \in {"select", "offer", "wait", "delete"} : pc' = [pc EXCEPT ![v] = label]
    <3>1. CASE Drops(v) \/ GoesOn(v)
      BY <3>1 DEF Drops, GoesOn, DiscardBeforeSend, DiscardBeforeAck, DrainDeadline, Nacked,
                  DeleteFails, DeleteSucceeds, LateDeleteReturns, AckToBatcher,
                  Processed, NotProcessed, Enter, AfterMessage
    <3>2. CASE ~Drops(v) /\ ~GoesOn(v)
      BY <2>2, <3>2 DEF Delivers, Attempts, AckToDelete, AckToBatcher, HandOff, Receive, Enter
    <3> QED
      BY <3>1, <3>2
  <2>3. ASSUME NEW d \in Deliveries, HandlerSettles(d) \/ \E s \in Subscriptions : Flush(s, d)
        PROVE  UNCHANGED pc
    BY <2>3 DEF HandlerSettles, Flush, workerVars
  <2>4. Quiet => pc'[w] # "late"
    BY <1>1 DEF Quiet, Idle
  <2> QED
    BY <1>1, <2>1, <2>2, <2>3, <2>4, DeliverySteps
<1>3. ASSUME NEW i \in DOMAIN batch'[w], NEW m \in Messages, m < batch'[w][i][1]
      PROVE  Gone(m)' \/ \E j \in 1..(i - 1) : batch'[w][j][1] = m
  <2>1. ASSUME NEW ms \in MessageLists, Receive(w, ms)
        PROVE  Gone(m)' \/ \E j \in 1..(i - 1) : batch'[w][j][1] = m
    <3>1. Receivable(ms) /\ batch'[w] = ReceiptsOf(ms)
      BY <1>0, <2>1 DEF Receive, GiveOut, BatchTypeOK
    <3>2. /\ DOMAIN batch'[w] = DOMAIN ms
          /\ \A j \in DOMAIN ms : batch'[w][j][1] = ms[j]
      BY <3>1, ReceiptFacts DEF TypeOK
    <3>3. Gone(m) \/ \E j \in 1..(i - 1) : ms[j] = m
      BY <1>3, <3>1, <3>2, OlderReceived
    <3>4. 1..(i - 1) \subseteq DOMAIN ms
      BY <3>2, MessageListFacts
    <3> QED
      BY <3>2, <3>3, <3>4, GoneStays
  <2>2. CASE ~\E ms \in MessageLists : Receive(w, ms)
    <3>1. PICK k \in {0, 1} :
              /\ k = 1 => GoesOn(w) /\ batch'[w] = Tail(batch[w])
              /\ \A n \in DOMAIN batch'[w] :
                    /\ n \in Nat /\ n >= 1
                    /\ n + k \in DOMAIN batch[w] /\ batch'[w][n] = batch[w][n + k]
      BY <2>2, BatchShifts
    <3>2. i \in Nat /\ i >= 1 /\ i + k \in DOMAIN batch[w] /\ batch'[w][i] = batch[w][i + k]
      BY <3>1
    <3>3. Gone(m) \/ \E j \in 1..((i + k) - 1) : batch[w][j][1] = m
      BY <1>1, <1>3, <3>2
    <3>4. ASSUME NEW j \in 1..((i + k) - 1), batch[w][j][1] = m, j > k
          PROVE  \E l \in 1..(i - 1) : batch'[w][l][1] = m
      <4>1. batch'[w] \in Seq(Deliveries)
        BY <1>0 DEF BatchTypeOK
      <4>2. j - k \in 1..(i - 1) /\ (j - k) + k = j
        BY <3>2, <3>4
      <4>3. j - k \in DOMAIN batch'[w]
        BY <3>2, <4>1, <4>2
      <4>4. batch'[w][j - k] = batch[w][j]
        BY <3>1, <4>2, <4>3
      <4> QED
        BY <3>4, <4>2, <4>4
    <3>5. ASSUME NEW j \in 1..((i + k) - 1), batch[w][j][1] = m, ~(j > k) PROVE Gone(m)'
      <4>1. j = 1 /\ k = 1
        BY <3>2, <3>5
      <4>2. DeleteSucceeds(w)
        BY <1>1, <3>1, <4>1 DEF GoesOn, LateDeleteReturns, AckToBatcher
      <4>3. Current(w)[1] = m /\ Current(w) \in Deliveries
        BY <1>0, <3>5, <4>1, <4>2, CurrentType DEF DeleteSucceeds, Busy
      <4>4. Erase(Current(w)) => Gone(m)'
        BY <4>3 DEF Erase, Gone, TypeOK, QueueTypeOK
      <4>5. Ignorable(Current(w)) => Gone(m)
        BY <4>3 DEF Ignorable
      <4> QED
        BY <4>2, <4>4, <4>5, GoneStays DEF DeleteSucceeds
    <3> QED
      BY <3>3, <3>4, <3>5, GoneStays
  <2> QED
    BY <2>1, <2>2
<1> QED
  BY <1>2, <1>3

(* The order of batches gives the order of handlers.                       *)
LEMMA OldestHandled == ASSUME TypeOK, OlderFirst PROVE FIFOOrder
<1> SUFFICES ASSUME Fifo, ~Batched, NEW w \in Workers, pc[w] = "wait",
                    NEW m \in Messages, m < Current(w)[1]
             PROVE  Gone(m)
  BY DEF FIFOOrder
<1>1. Current(w) = batch[w][1] /\ 1 \in DOMAIN batch[w]
  BY BatchOfType, CurrentType DEF Busy
<1>2. Gone(m) \/ \E j \in 1..(1 - 1) : batch[w][j][1] = m
  BY <1>1 DEF OlderFirst
<1> QED
  BY <1>2

-----------------------------------------------------------------------------
(* The inductive invariant. *)

IInv == /\ TypeOK /\ WorkersRun
        /\ CloseOrder /\ BatchersTracked /\ EarlyFinished
        /\ NotReceivedYet /\ BatchesApart /\ NotOfferedYet /\ AckedFirst /\ NoLoss
        /\ HandlersTracked /\ OlderFirst

(* Nothing is received, and no call has begun.                             *)
LEMMA InitInv == Init => IInv
<1> SUFFICES ASSUME Init PROVE IInv
  OBVIOUS
<1> USE DEF Init, QueueInit
<1>1. TypeOK
  <2>1. MaxReceiveCount \in Nat
    BY QueueAssumption DEF QueueAssumption, ConfigType, MaxReceiveCount
  <2>2. QueueTypeOK
    BY <2>1 DEF QueueTypeOK
  <2>3. BatchTypeOK
    <3>1. \A w \in Workers : batch[w] = <<>> /\ pc[w] = "off" /\ batch[w] \in Seq(Deliveries)
      OBVIOUS
    <3> QED
      BY <3>1 DEF BatchTypeOK, Idle, Busy
  <2>4. SubTypeOK
    <3>1. <<>> \in Seq(Subscriptions)
      OBVIOUS
    <3> QED
      BY <3>1 DEF SubTypeOK
  <2> QED
    BY <2>2, <2>3, <2>4 DEF TypeOK, BatchTypeOK, SubTypeOK, Idle, Busy
<1>2. WorkersRun
  BY WorkerFacts DEF WorkersRun, NotStarted
<1>3. CloseOrder /\ EarlyFinished
  BY DEF CloseOrder, EarlyFinished, InClose, CloseReturned, Panicked, Unlocked, Released,
         TookBatchers
<1>4. BatchersTracked
  BY DEF BatchersTracked, Registered
<1>5. \A w \in Workers : Range(batch[w]) = {} /\ DOMAIN batch[w] = {} /\ pc[w] = "off"
  BY EmptyRange
<1>6. NotReceivedYet /\ BatchesApart /\ NotOfferedYet /\ AckedFirst
  BY <1>5 DEF NotReceivedYet, BatchesApart, NotOfferedYet, AckedFirst
<1>7. NoLoss /\ HandlersTracked /\ OlderFirst
  BY <1>5 DEF NoLoss, HandlersTracked, OlderFirst
<1> QED
  BY <1>1, <1>2, <1>3, <1>4, <1>6, <1>7 DEF IInv

(* The invariant is inductive.                                             *)
LEMMA NextInv == IInv /\ [Next]_vars => IInv'
  BY TypeStep, WorkersStep, CloseOrderStep, BatchersStep, EarlyStep, NotReceivedStep, ApartStep,
     NotOfferedStep, AckedFirstStep, NoLossStep, HandlersStep, OlderFirstStep DEF IInv

(* IInv is an inductive invariant of the subscriber.                       *)
THEOREM Invariance == Spec => []IInv
  BY InitInv, NextInv, PTL DEF Spec

(* Every variable keeps its type, and a worker has a batch exactly while   *)
(* it is processing one.                                                   *)
THEOREM TypeCorrect == Spec => []TypeOK
<1>1. IInv => TypeOK
  BY DEF IInv
<1> QED
  BY <1>1, Invariance, PTL

(* No message leaves the queue for good unless a handler has acked it.     *)
THEOREM NothingLost == Spec => []NoLoss
<1>1. IInv => NoLoss
  BY DEF IInv
<1> QED
  BY <1>1, Invariance, PTL

(* Handlers of a FIFO queue with synchronous deletes see its messages in   *)
(* order.                                                                  *)
THEOREM FIFOHandled == Spec => []FIFOOrder
<1>1. IInv => FIFOOrder
  BY OldestHandled DEF IInv
<1> QED
  BY <1>1, Invariance, PTL

(* When Close has returned, what it found running is at rest.              *)
THEOREM CloseIsQuiet == Spec => []CloseQuiesces
<1>1. IInv => CloseQuiesces
  BY QuiescedWhenReturned DEF IInv
<1> QED
  BY <1>1, Invariance, PTL

(* With draining, Close returns only after every ack has led to a delete,  *)
(* save for those of receptions given up at the drain deadline.            *)
THEOREM AcksAreUsed == Spec => []NoAckWasted
<1>1. IInv => NoAckWasted
  BY QuiescedWhenReturned, NothingWasted DEF IInv
<1> QED
  BY <1>1, Invariance, PTL

(* With draining, only the drain deadline takes a running handler's        *)
(* message from it.                                                        *)
THEOREM DrainShields == Spec => DrainShieldsHandler
<1> DEFINE Shields == Drain => \A w \in Workers :
               pc[w] = "wait" /\ pc'[w] # "wait" /\ handler[Current(w)] = "running"
                   => Current(w) \in abandoned'
<1>1. IInv /\ [Next]_vars => [Shields]_vars
  BY WaitEnds DEF IInv
<1> QED
  BY <1>1, Invariance, PTL DEF Spec, DrainShieldsHandler
=============================================================================
