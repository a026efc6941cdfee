------------------------------ MODULE SqsQueue ------------------------------
(***************************************************************************)
(* The SQS queue a Subscriber consumes, as far as the code under sqs/ can  *)
(* tell: messages become invisible when they are received and visible      *)
(* again when their visibility timeout passes, a receipt handle stands for *)
(* one reception, and a message received MaxReceiveCount times moves to    *)
(* the dead-letter queue. External: SQS is not part of the repository.     *)
(***************************************************************************)
EXTENDS Integers, Sequences, FiniteSets, SequencesExt

CONSTANTS MessageCount,         \* messages in the queue, in the order sent
          MaxReceives,          \* bound on MaxReceiveCount
          MaxNumberOfMessages,  \* ReceiveMessageInput.MaxNumberOfMessages
          Configs               \* the configurations to choose from

(* QueueConfigAttributes.FifoQueue: a FIFO queue with one message group;   *)
(* DeadLetterQueue.MaxReceiveCount; CloseTimeout > 0; DeleteBatch # nil.   *)
ConfigType == [fifo : BOOLEAN, maxReceiveCount : 1..MaxReceives,
               drain : BOOLEAN, batched : BOOLEAN]

ASSUME QueueAssumption ==
    /\ MessageCount \in Nat
    /\ MaxReceives \in Nat \ {0}
    /\ MaxNumberOfMessages \in Nat \ {0}
    /\ Configs \subseteq ConfigType

Messages == 1..MessageCount

(* The n-th reception of message m, which is also its receipt handle.      *)
Deliveries == Messages \X (1..MaxReceives)

VARIABLES config,    \* SubscriberConfig, which never changes
          loc,       \* where each message is
          received   \* ApproximateReceiveCount of each message

Fifo == config.fifo
MaxReceiveCount == config.maxReceiveCount

queueVars == <<loc, received>>

QueueTypeOK == /\ config \in Configs
               /\ loc \in [Messages -> {"visible", "inflight", "deleted", "dead"}]
               /\ received \in [Messages -> 0..MaxReceiveCount]

QueueInit == /\ config \in Configs
             /\ loc = [m \in Messages |-> "visible"]
             /\ received = [m \in Messages |-> 0]

Gone(m) == loc[m] \in {"deleted", "dead"}

-----------------------------------------------------------------------------
(* The sequences of messages one ReceiveMessage may return.                *)
MessageLists == {ms \in SeqOf(Messages, MaxNumberOfMessages) : ms # <<>> /\ IsInjective(ms)}

(* A FIFO queue gives out nothing while a message of the group is in       *)
(* flight, and otherwise the oldest messages in order.                     *)
Receivable(ms) ==
    /\ \A m \in Range(ms) : loc[m] = "visible" /\ received[m] < MaxReceiveCount
    /\ Fifo => /\ \A m \in Messages : loc[m] # "inflight"
               /\ \A m \in Messages : m < Last(ms) => Gone(m) \/ m \in Range(ms)
               /\ \A i, j \in DOMAIN ms : i < j => ms[i] < ms[j]

GiveOut(ms) ==
    /\ Receivable(ms)
    /\ loc' = [m \in Messages |-> IF m \in Range(ms) THEN "inflight" ELSE loc[m]]
    /\ received' = [m \in Messages |-> IF m \in Range(ms) THEN received[m] + 1 ELSE received[m]]

ReceiptsOf(ms) == [i \in 1..Len(ms) |-> <<ms[i], received[ms[i]] + 1>>]

VisibilityExpires(m) ==
    /\ loc[m] = "inflight"
    /\ loc' = [loc EXCEPT ![m] = "visible"]
    /\ UNCHANGED received

Redrive(m) ==
    /\ loc[m] = "visible"
    /\ received[m] = MaxReceiveCount
    /\ loc' = [loc EXCEPT ![m] = "dead"]
    /\ UNCHANGED received

-----------------------------------------------------------------------------
(* A FIFO queue refuses the handle of a reception that has timed out; a    *)
(* standard queue may still honour it, or accept it and do nothing.        *)
Newest(d) == received[d[1]] = d[2]

Deletable(d) == /\ ~Gone(d[1])
                /\ Fifo => Newest(d) /\ loc[d[1]] = "inflight"

Erase(d) == /\ Deletable(d)
             /\ loc' = [loc EXCEPT ![d[1]] = "deleted"]
             /\ UNCHANGED received

(* A delete whose caller does not learn, or does not care, what it did.    *)
EraseOrNot(d) == Erase(d) \/ UNCHANGED queueVars

(* A delete answered without an error that removes nothing.                *)
Ignorable(d) == Gone(d[1]) \/ (~Fifo /\ ~Newest(d))
=============================================================================
