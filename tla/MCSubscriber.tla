---------------------------- MODULE MCSubscriber ----------------------------
(* Instances of Subscriber for TLC. *)
EXTENDS Subscriber, TLC

NoPoison == {}
FirstIsPoison == {1}

Config(fifo, receives, drain, batched) ==
    [fifo |-> fifo, maxReceiveCount |-> receives, drain |-> drain, batched |-> batched]

(* Safety: a standard queue that is drained, with Close called, and FIFO   *)
(* queues with redeliveries, where Close would only add states.            *)
DrainingOrFifo == {Config(FALSE, 1, TRUE, FALSE), Config(TRUE, 2, FALSE, FALSE), Config(TRUE, 2, FALSE, TRUE)}
NoCloseOnFifo == Fifo => ~closed

DrainingOnly == {Config(FALSE, 1, TRUE, FALSE)}
DrainingBatched == {Config(FALSE, 1, TRUE, TRUE)}
NotDraining == {Config(FALSE, MaxReceives, FALSE, FALSE)}

(* Calls of Subscribe are interchangeable, and so are callers of Close.    *)
Symmetry == Permutations(Subscriptions) \cup Permutations(Closers)
=============================================================================
