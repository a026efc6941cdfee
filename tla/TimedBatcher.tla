---------------------------- MODULE TimedBatcher ----------------------------
(***************************************************************************)
(* The delete batcher (DeleteBatcher) with time: how long a handle waits   *)
(* in the buffer, and how long close takes. Time is counted in units; the  *)
(* linger ticker fires every Linger units, flushTimeout ends a call of     *)
(* DeleteMessageBatch, and what a goroutine does between two waits takes   *)
(* no time. Workers, callers of close and SQS act when they like.          *)
(***************************************************************************)
EXTENDS DeleteBatcher, FiniteSetsExt

CONSTANTS Linger,       \* DeleteBatchConfig.Linger
          FlushTimeout  \* deleteBatcher.flushTimeout

ASSUME TimedAssumption ==
    /\ Linger \in Nat \ {0}
    /\ FlushTimeout \in Nat \ {0}

VARIABLES sinceTick,  \* time since the ticker last fired
          inCall,     \* how long each actor's call of DeleteMessageBatch lasts
          waited,     \* history: how long a handle has been in pending
          ahead,      \* history: handles that were in pending before it
          closing,    \* history: how long each call of close has lasted
          owed        \* history: handles in pending when that call began

timers == <<sinceTick, inCall, waited, ahead, closing, owed>>

TimedInit ==
    /\ Init
    /\ sinceTick = 0
    /\ inCall = [a \in Actors |-> 0]
    /\ waited = [h \in Handles |-> 0]
    /\ ahead = [h \in Handles |-> 0]
    /\ closing = [c \in Closers |-> 0]
    /\ owed = [c \in Closers |-> 0]

(* Some goroutine of the batcher has a step that it need not wait for.     *)
Runnable ==
    \/ \E w \in Workers : pc[w] = "signal"
    \/ pc[Flusher] = "flush"
    \/ pc[Flusher] = "select" /\ (kick \/ tick \/ done)
    \/ \E c \in Closers : \/ closer[c] = "signal"
                          \/ closer[c] = "wait" /\ pc[Flusher] = "exited"

Calling(a) == pc[a] = "delete"
InClose(c) == closer[c] \in {"signal", "wait"}

\* Mutant: the call has a context without a deadline.
WithoutDeadline(a) == TRUE

(* context.WithTimeout(context.Background(), b.flushTimeout)               *)
BeforeDeadline(a) == inCall[a] < FlushTimeout

(* Time passes: not past a tick, not past the deadline of a call.          *)
Elapse ==
    /\ ~Runnable
    /\ sinceTick < Linger \/ pc[Flusher] = "exited"
    /\ \A a \in Actors : Calling(a) => BeforeDeadline(a)
    /\ sinceTick' = IF pc[Flusher] = "exited" THEN sinceTick ELSE sinceTick + 1
    /\ inCall' = [a \in Actors |-> IF Calling(a) THEN inCall[a] + 1 ELSE 0]
    /\ waited' = [h \in Handles |-> IF h \in Range(pending) THEN waited[h] + 1 ELSE 0]
    /\ closing' = [c \in Closers |-> IF InClose(c) THEN closing[c] + 1 ELSE closing[c]]
    /\ UNCHANGED <<vars, ahead, owed>>

(* The ticker fires; the tick is dropped if the last one is still unread.  *)
LingerElapses ==
    /\ sinceTick = Linger
    /\ Tick \/ (tick /\ pc[Flusher] # "exited" /\ UNCHANGED vars)
    /\ sinceTick' = 0
    /\ UNCHANGED <<inCall, waited, ahead, closing, owed>>

(* Any other step of DeleteBatcher happens at an instant.                  *)
Instant ==
    /\ Next
    /\ tick' => tick
    /\ inCall' = [a \in Actors |-> IF Calling(a) /\ Calling(a)' THEN inCall[a] ELSE 0]
    /\ waited' = [h \in Handles |-> IF h \in Range(pending') THEN waited[h] ELSE 0]
    /\ ahead' = [h \in Handles |->
                   IF h \notin Range(pending') THEN 0
                   ELSE IF h \in Range(pending) THEN ahead[h] ELSE Len(pending)]
    /\ owed' = [c \in Closers |-> IF InClose(c)' /\ ~InClose(c) THEN Len(pending) ELSE owed[c]]
    /\ UNCHANGED <<sinceTick, closing>>

TimedNext == Elapse \/ LingerElapses \/ Instant

TimedSpec == TimedInit /\ [][TimedNext]_<<vars, timers>>

-----------------------------------------------------------------------------
(* Safety. *)

(* What Linger really bounds: a handle is in a call within Linger, or, if  *)
(* the flusher is busy, after the call in progress and the batches that    *)
(* were in front of it, each of which may take flushTimeout.               *)
WaitBound == \A h \in Range(pending) :
    waited[h] <= Max({Linger, FlushTimeout * (1 + (ahead[h] \div MaxSize))})

(* "a hung flush cannot stall [...] shutdown indefinitely": close lasts no *)
(* longer than the call in progress and one call per remaining batch, even *)
(* if all of them hang.                                                    *)
CloseBound == \A c \in Closers :
    closing[c] <= FlushTimeout * (1 + ((owed[c] + MaxSize - 1) \div MaxSize))

(* "Linger is the longest a buffered receipt handle waits before being     *)
(* flushed [...] (worst case ~2x this [...])": the comment on Linger.      *)
LingerIsLongest == \A h \in Range(pending) : waited[h] <= 2 * Linger
=============================================================================
