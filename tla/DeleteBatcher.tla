---------------------------- MODULE DeleteBatcher ----------------------------
(***************************************************************************)
(* sqs/delete_batcher.go: the buffer of receipt handles of acked messages, *)
(* the goroutine that flushes it (run), the workers that call add and the  *)
(* callers of close.                                                       *)
(*                                                                         *)
(* Every critical section of b.mu is one action, because pending and       *)
(* closed are read and written only under it. Everything between two       *)
(* critical sections (the send on kick, a DeleteMessageBatch call, closing *)
(* the done channel) is a step of its own.                                 *)
(***************************************************************************)
EXTENDS Integers, Sequences, FiniteSets, Functions

CONSTANTS Handles,            \* receipt handles; each is acked at most once
          Workers,            \* goroutines that call add
          Flusher,            \* the goroutine started by newDeleteBatcher
          Closers,            \* callers of close
          ConfiguredMaxSize,  \* DeleteBatchConfig.MaxSize as the user set it
          SqsMaxBatchSize     \* entries SQS accepts in a call (10 in the code)

ASSUME BatcherAssumption ==
    /\ Flusher \notin Workers
    /\ ConfiguredMaxSize \in Int
    /\ SqsMaxBatchSize \in Nat \ {0}

\* Mutant: the upper clamp is missing.
MaxSizeNotCapped == IF ConfiguredMaxSize <= 0 THEN SqsMaxBatchSize ELSE ConfiguredMaxSize

(* DeleteBatchConfig.setDefaults *)
MaxSize == IF ConfiguredMaxSize <= 0 \/ ConfiguredMaxSize > SqsMaxBatchSize
           THEN SqsMaxBatchSize
           ELSE ConfiguredMaxSize

Actors == Workers \cup {Flusher}

VARIABLES pending,   \* b.pending
          closed,    \* b.closed
          kick,      \* b.kick holds its one token
          done,      \* b.done is closed
          tick,      \* the ticker's channel holds a tick
          stopping,  \* run took the done case: its flush is the last one
          pc,        \* where each worker (in add) and the flusher (in run) is
          call,      \* the handles of each actor's DeleteMessageBatch call
          closer,    \* where each caller of close is
          accepted,  \* history: the handles add was called with
          calls,     \* history: in how many calls a handle was an entry
          settled    \* history: the handles whose call has returned

vars == <<pending, closed, kick, done, tick, stopping, pc, call, closer,
          accepted, calls, settled>>

TypeOK == /\ pending \in Seq(Handles)
          /\ closed \in BOOLEAN
          /\ kick \in BOOLEAN
          /\ done \in BOOLEAN
          /\ tick \in BOOLEAN
          /\ stopping \in BOOLEAN
          /\ pc \in [Actors -> {"idle", "signal", "delete", "select", "flush", "exited"}]
          /\ \A w \in Workers : pc[w] \in {"idle", "signal", "delete"}
          /\ pc[Flusher] \in {"select", "flush", "delete", "exited"}
          /\ call \in [Actors -> Seq(Handles)]
          /\ closer \in [Closers -> {"idle", "signal", "wait", "returned"}]
          /\ accepted \in SUBSET Handles
          /\ calls \in [Handles -> Nat]
          /\ settled \in SUBSET Handles

Init == /\ pending = <<>>
        /\ closed = FALSE
        /\ kick = FALSE
        /\ done = FALSE
        /\ tick = FALSE
        /\ stopping = FALSE
        /\ pc = [a \in Actors |-> IF a = Flusher THEN "select" ELSE "idle"]
        /\ call = [a \in Actors |-> <<>>]
        /\ closer = [c \in Closers |-> "idle"]
        /\ accepted = {}
        /\ calls = [h \in Handles |-> 0]
        /\ settled = {}

Goto(a, label) == pc' = [pc EXCEPT ![a] = label]

-----------------------------------------------------------------------------
(* deleteNow: the DeleteMessageBatch call of actor a goes out...           *)
DeleteNow(a, handles) ==
    /\ call' = [call EXCEPT ![a] = handles]
    /\ calls' = [h \in Handles |-> IF h \in Range(handles) THEN calls[h] + 1 ELSE calls[h]]
    /\ Goto(a, "delete")

\* Mutant: whoever made the call goes on with flush.
AlwaysToFlush(a) == "flush"

AfterDelete(a) == IF a = Flusher THEN "flush" ELSE "idle"

(* ... and comes back: with all entries deleted, with some in out.Failed,  *)
(* with an error, or because flushTimeout elapsed. The code only logs the  *)
(* difference, so one action stands for every outcome.                     *)
DeleteReturns(a) ==
    /\ pc[a] = "delete"
    /\ settled' = settled \cup Range(call[a])
    /\ call' = [call EXCEPT ![a] = <<>>]
    /\ Goto(a, AfterDelete(a))
    /\ UNCHANGED <<pending, closed, kick, done, tick, stopping, closer, accepted, calls>>

-----------------------------------------------------------------------------
\* Mutant: a full buffer is one handle more than MaxSize.
FullOffByOne(handles) == Len(handles) > MaxSize

Full(handles) == Len(handles) >= MaxSize

(* add, batcher open: buffer the handle, note whether the buffer is full.  *)
AddBuffered(w, h) ==
    /\ pc[w] = "idle"
    /\ h \notin accepted
    /\ ~closed
    /\ accepted' = accepted \cup {h}
    /\ pending' = Append(pending, h)
    /\ Goto(w, IF Full(pending') THEN "signal" ELSE "idle")
    /\ UNCHANGED <<closed, kick, done, tick, stopping, call, closer, calls, settled>>

(* add, batcher closed: the worker deletes the handle in its own call.     *)
AddLate(w, h) ==
    /\ pc[w] = "idle"
    /\ h \notin accepted
    /\ closed
    /\ accepted' = accepted \cup {h}
    /\ DeleteNow(w, <<h>>)
    /\ UNCHANGED <<pending, closed, kick, done, tick, stopping, closer, settled>>

(* add, after the unlock: the non-blocking send on kick.                   *)
Signal(w) ==
    /\ pc[w] = "signal"
    /\ kick' = TRUE
    /\ Goto(w, "idle")
    /\ UNCHANGED <<pending, closed, done, tick, stopping, call, closer, accepted, calls, settled>>

-----------------------------------------------------------------------------
(* run: the three cases of its select. A tick that finds the last one      *)
(* unread is dropped by the ticker, hence the one-place channel.           *)
Tick ==
    /\ pc[Flusher] # "exited"
    /\ ~tick
    /\ tick' = TRUE
    /\ UNCHANGED <<pending, closed, kick, done, stopping, pc, call, closer, accepted, calls, settled>>

RecvKick ==
    /\ pc[Flusher] = "select"
    /\ kick
    /\ kick' = FALSE
    /\ Goto(Flusher, "flush")
    /\ UNCHANGED <<pending, closed, done, tick, stopping, call, closer, accepted, calls, settled>>

RecvTick ==
    /\ pc[Flusher] = "select"
    /\ tick
    /\ tick' = FALSE
    /\ Goto(Flusher, "flush")
    /\ UNCHANGED <<pending, closed, kick, done, stopping, call, closer, accepted, calls, settled>>

\* Mutant: run returns on done without a last flush.
RecvDoneNoFlush ==
    /\ pc[Flusher] = "select"
    /\ done
    /\ stopping' = TRUE
    /\ Goto(Flusher, "exited")
    /\ UNCHANGED <<pending, closed, kick, done, tick, call, closer, accepted, calls, settled>>

RecvDone ==
    /\ pc[Flusher] = "select"
    /\ done
    /\ stopping' = TRUE
    /\ Goto(Flusher, "flush")
    /\ UNCHANGED <<pending, closed, kick, done, tick, call, closer, accepted, calls, settled>>

\* Mutant: the slice that is kept starts one handle too early.
RestOverlaps(n) == SubSeq(pending, n, Len(pending))

Rest(n) == SubSeq(pending, n + 1, Len(pending))

(* flush: one round of its loop takes at most MaxSize handles off pending. *)
FlushTake ==
    /\ pc[Flusher] = "flush"
    /\ pending # <<>>
    /\ LET n == IF Len(pending) > MaxSize THEN MaxSize ELSE Len(pending)
       IN /\ pending' = Rest(n)
          /\ DeleteNow(Flusher, SubSeq(pending, 1, n))
    /\ UNCHANGED <<closed, kick, done, tick, stopping, closer, accepted, settled>>

FlushEmpty ==
    /\ pc[Flusher] = "flush"
    /\ pending = <<>>
    /\ Goto(Flusher, IF stopping THEN "exited" ELSE "select")
    /\ UNCHANGED <<pending, closed, kick, done, tick, stopping, call, closer, accepted, calls, settled>>

-----------------------------------------------------------------------------
(* close: the first caller marks the batcher closed, then closes done, and *)
(* waits for run; every later caller only waits.                           *)
Close(c) ==
    /\ closer[c] = "idle"
    /\ closed' = TRUE
    /\ closer' = [closer EXCEPT ![c] = IF closed THEN "wait" ELSE "signal"]
    /\ UNCHANGED <<pending, kick, done, tick, stopping, pc, call, accepted, calls, settled>>

\* Mutant: done is never closed.
NeverDone(c) == FALSE

CloseDone(c) ==
    /\ closer[c] = "signal"
    /\ done' = TRUE
    /\ closer' = [closer EXCEPT ![c] = "wait"]
    /\ UNCHANGED <<pending, closed, kick, tick, stopping, pc, call, accepted, calls, settled>>

CloseReturns(c) ==
    /\ closer[c] = "wait"
    /\ pc[Flusher] = "exited"
    /\ closer' = [closer EXCEPT ![c] = "returned"]
    /\ UNCHANGED <<pending, closed, kick, done, tick, stopping, pc, call, accepted, calls, settled>>

-----------------------------------------------------------------------------
(* Every call has returned and nothing is left to add: the only state in   *)
(* which all goroutines may be at rest for good.                           *)
Terminated ==
    /\ accepted = Handles
    /\ \A c \in Closers : closer[c] = "returned"
    /\ \A w \in Workers : pc[w] = "idle"
    /\ UNCHANGED vars

Next == \/ \E w \in Workers, h \in Handles : AddBuffered(w, h) \/ AddLate(w, h)
        \/ \E w \in Workers : Signal(w)
        \/ \E a \in Actors : DeleteReturns(a)
        \/ Tick
        \/ RecvKick \/ RecvTick \/ RecvDone
        \/ FlushTake \/ FlushEmpty
        \/ \E c \in Closers : Close(c) \/ CloseDone(c) \/ CloseReturns(c)
        \/ Terminated

Spec == Init /\ [][Next]_vars

(* The scheduler runs every runnable goroutine, and flushTimeout ends a    *)
(* call that hangs. Go's select chooses uniformly among the ready cases,   *)
(* so a case that is ready again and again is taken: hence SF for done.    *)
(* Whether add and close are ever called is up to the environment.         *)
GoroutineFairness ==
    /\ WF_vars(RecvKick \/ RecvTick \/ RecvDone \/ FlushTake \/ FlushEmpty)
    /\ SF_vars(RecvDone)
    /\ \A a \in Actors : WF_vars(DeleteReturns(a))
    /\ \A w \in Workers : WF_vars(Signal(w))
    /\ \A c \in Closers : WF_vars(CloseDone(c)) /\ WF_vars(CloseReturns(c))

(* The ticker may never fire, as with the Linger of one hour in the        *)
(* repository's tests: only a property that needs ticks assumes them.      *)
FairSpec == Spec /\ GoroutineFairness

(* Linger elapses again and again.                                         *)
TickerFairness == WF_vars(Tick)

-----------------------------------------------------------------------------
(* Safety. *)

(* "Every receipt handle delivered exactly once": a handle add was given   *)
(* is either still pending, once, or was an entry of exactly one call. No  *)
(* interleaving of add, flush and close drops or repeats it.               *)
ExactlyOnce ==
    /\ IsInjective(pending)
    /\ \A h \in Handles :
          calls[h] = IF h \in accepted \ Range(pending) THEN 1 ELSE 0

(* A full buffer is never left waiting for the next tick: a token is in    *)
(* kick, or a worker is about to put one there, or the flusher is inside   *)
(* flush and reads pending again before it goes back to its select.        *)
NoLostWakeup ==
    Len(pending) >= MaxSize =>
        \/ kick
        \/ \E w \in Workers : pc[w] = "signal"
        \/ pc[Flusher] \in {"flush", "delete"}

(* When any call of close has returned, the flusher has stopped and every  *)
(* handle has been through its call, except one that a worker is deleting  *)
(* itself because its add came after the close.                            *)
CloseFlushesPending ==
    (\E c \in Closers : closer[c] = "returned") =>
        /\ pc[Flusher] = "exited"
        /\ accepted = settled \cup UNION {Range(call[w]) : w \in Workers}

-----------------------------------------------------------------------------
(* Liveness. *)

(* With no tick at all, a full buffer is still flushed: the size trigger   *)
(* does not depend on the linger trigger.                                  *)
SizeTriggersFlush == Len(pending) >= MaxSize ~> Len(pending) < MaxSize

(* If Linger elapses again and again, every handle given to add gets       *)
(* through its call, be the batch full or not, the batcher open, closing   *)
(* or closed.                                                              *)
EveryHandleSettles ==
    TickerFairness => \A h \in Handles : h \in accepted ~> h \in settled

(* close always returns, whatever its callers and the workers race with.   *)
CloseTerminates == \A c \in Closers : closer[c] # "idle" ~> closer[c] = "returned"

-----------------------------------------------------------------------------
(* Refinement: the batcher implements DeleteSink. *)

PhaseOf(h) == CASE h \notin accepted -> "new"
                [] h \in Range(pending) -> "buffered"
                [] h \in Range(call[Flusher]) -> "sent"
                [] \E w \in Workers : h \in Range(call[w]) -> "late"
                [] OTHER -> "settled"

Sink == INSTANCE DeleteSink WITH
            MaxSize <- SqsMaxBatchSize,
            phase <- [h \in Handles |-> PhaseOf(h)],
            sinkClosed <- closed,
            drained <- \E c \in Closers : closer[c] = "returned"

(* Every step of the batcher is a step of the sink it promises to be, or   *)
(* invisible to it: in particular no call carries more entries than SQS    *)
(* accepts, whatever MaxSize the user configured.                          *)
ImplementsSink == Sink!SinkSpec
=============================================================================
