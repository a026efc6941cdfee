------------------------- MODULE TimedBatcherProofs -------------------------
(***************************************************************************)
(* The bounds of TimedBatcher, for any Linger, flushTimeout and MaxSize,   *)
(* and any handles, workers and callers of close. A batcher with time does *)
(* only what DeleteBatcher does, so the invariant of DeleteBatcherProofs   *)
(* holds of it; the bounds need to know besides how far the flusher has    *)
(* got with what was in front of a handle, or of a close.                  *)
(***************************************************************************)
EXTENDS TimedBatcher, DeleteBatcherProofs

-----------------------------------------------------------------------------
(* Turns of the flusher. *)

(* How long the full batches among x handles take, and all batches.        *)
Turns(x) == FlushTimeout * (x \div MaxSize)
Batches(x) == Turns(x + MaxSize - 1)

(* Division by a positive number, as the bounds use it.                    *)
LEMMA DivFacts ==
    ASSUME NEW m \in Nat \ {0}, NEW x \in Nat
    PROVE  /\ x \div m \in Nat
           /\ (x + m) \div m = (x \div m) + 1
           /\ x < m => x \div m = 0
  OBVIOUS

(* A full batch more is a turn more.                                       *)
LEMMA TurnFacts ==
    /\ FlushTimeout \in Nat
    /\ \A x \in Nat : Turns(x) \in Nat
    /\ \A x \in Nat : Turns(x + MaxSize) = Turns(x) + FlushTimeout
    /\ \A x \in 0..(MaxSize - 1) : Turns(x) = 0
    /\ \A x \in Nat : FlushTimeout * (1 + (x \div MaxSize)) = Turns(x) + FlushTimeout
<1>1. FlushTimeout \in Nat /\ MaxSize \in Nat \ {0}
  BY TimedAssumption, MaxSizeType DEF TimedAssumption
<1>2. ASSUME NEW x \in Nat
      PROVE  /\ Turns(x) \in Nat
             /\ Turns(x + MaxSize) = Turns(x) + FlushTimeout
             /\ x < MaxSize => Turns(x) = 0
             /\ FlushTimeout * (1 + (x \div MaxSize)) = Turns(x) + FlushTimeout
  <2>1. /\ x \div MaxSize \in Nat
        /\ (x + MaxSize) \div MaxSize = (x \div MaxSize) + 1
        /\ x < MaxSize => x \div MaxSize = 0
    BY <1>1, DivFacts
  <2>2. \A q \in Nat : /\ FlushTimeout * q \in Nat
                       /\ FlushTimeout * (q + 1) = FlushTimeout * q + FlushTimeout
                       /\ FlushTimeout * (1 + q) = FlushTimeout * q + FlushTimeout
                       /\ FlushTimeout * 0 = 0
    BY <1>1
  <2> QED
    BY <2>1, <2>2 DEF Turns
<1>3. \A x \in 0..(MaxSize - 1) : x \in Nat /\ x < MaxSize
  BY <1>1
<1> QED
  BY <1>1, <1>2, <1>3

(* The same of batches, of which the last one need not be full.            *)
LEMMA BatchFacts ==
    ASSUME NEW x \in Nat
    PROVE  /\ Batches(x) \in Nat
           /\ x = 0 => Batches(x) = 0
           /\ x > 0 /\ x <= MaxSize => Batches(x) = FlushTimeout
           /\ x > MaxSize => Batches(x) = Batches(x - MaxSize) + FlushTimeout
           /\ FlushTimeout * (1 + ((x + MaxSize - 1) \div MaxSize)) = Batches(x) + FlushTimeout
<1>1. MaxSize \in Nat \ {0}
  BY MaxSizeType
<1> DEFINE y == x + MaxSize - 1
<1>2. y \in Nat
  BY <1>1
<1>3. Batches(x) = Turns(y)
  BY DEF Batches
<1>4. x = 0 => y \in 0..(MaxSize - 1)
  BY <1>1
<1>5. x > 0 /\ x <= MaxSize => (x - 1) \in 0..(MaxSize - 1) /\ y = (x - 1) + MaxSize
  BY <1>1
<1>6. x > MaxSize => (y - MaxSize) \in Nat /\ y = (y - MaxSize) + MaxSize
  BY <1>1
<1>7. y - MaxSize = (x - MaxSize) + MaxSize - 1
  BY <1>1
<1>8. x > MaxSize => Batches(x - MaxSize) = Turns(y - MaxSize)
  BY <1>7 DEF Batches
<1> HIDE DEF y
<1>9. x > 0 /\ x <= MaxSize => Turns(y) = FlushTimeout
  <2> SUFFICES ASSUME x > 0, x <= MaxSize PROVE Turns(y) = FlushTimeout
    OBVIOUS
  <2>1. (x - 1) \in 0..(MaxSize - 1) /\ (x - 1) \in Nat /\ y = (x - 1) + MaxSize
    BY <1>5
  <2>2. Turns(y) = Turns(x - 1) + FlushTimeout /\ Turns(x - 1) = 0
    BY <2>1, TurnFacts
  <2> QED
    BY <2>2, TurnFacts
<1>10. x > MaxSize => Turns(y) = Turns(y - MaxSize) + FlushTimeout
  BY <1>6, TurnFacts
<1>11. FlushTimeout * (1 + (y \div MaxSize)) = Turns(y) + FlushTimeout /\ Turns(y) \in Nat
  BY <1>2, TurnFacts
<1> QED
  BY <1>3, <1>4, <1>8, <1>9, <1>10, <1>11, TurnFacts DEF y

(* The larger of the two bounds of WaitBound.                              *)
LEMMA MaxOfTwo ==
    ASSUME NEW a \in Int, NEW b \in Int
    PROVE  Max({a, b}) \in Int /\ Max({a, b}) >= a /\ Max({a, b}) >= b
<1>1. \E x \in {a, b} : \A y \in {a, b} : x >= y
  OBVIOUS
<1>2. Max({a, b}) \in {a, b} /\ \A y \in {a, b} : Max({a, b}) >= y
  BY <1>1 DEF Max
<1> QED
  BY <1>2

-----------------------------------------------------------------------------
(* The inductive invariant. *)

TimersOK ==
    /\ sinceTick \in 0..Linger
    /\ inCall \in [Actors -> 0..FlushTimeout]
    /\ waited \in [Handles -> Nat]
    /\ ahead \in [Handles -> Nat]
    /\ closing \in [Closers -> Nat]
    /\ owed \in [Closers -> Nat]
    /\ \A h \in Handles : h \notin Range(pending) => waited[h] = 0
    /\ \A c \in Closers : closer[c] = "idle" => closing[c] = 0

(* Between the two steps of the first close, its caller is on the way.     *)
CloserOrder ==
    /\ \A c \in Closers : closer[c] # "idle" => closed
    /\ closed => done \/ \E c \in Closers : closer[c] = "signal"

(* How long the handle at place i may have waited. In the select it has    *)
(* not waited past a tick, and if it has waited at all, a round of flush   *)
(* takes it. After that, each turn of the flusher has brought it MaxSize   *)
(* places forward.                                                         *)
InTurn(h, i) ==
    /\ pc[Flusher] = "select" =>
          /\ ahead[h] = i - 1
          /\ waited[h] <= Linger
          /\ waited[h] = 0 \/ i < MaxSize
          /\ ~tick => waited[h] <= sinceTick
    /\ pc[Flusher] = "flush" =>
          \/ waited[h] + Turns(i - 1) <= Turns(ahead[h]) + FlushTimeout
          \/ waited[h] <= Linger /\ i <= MaxSize
    /\ pc[Flusher] = "delete" =>
          waited[h] + Turns(i - 1) <= Turns(ahead[h]) + inCall[Flusher]

WaitsInTurn == \A i \in DOMAIN pending : InTurn(pending[i], i)

(* The time a close has taken and the time the batches still to be sent    *)
(* may take are the time of the batches it found, and of a call before.    *)
Spent == IF pc[Flusher] = "delete" THEN inCall[Flusher] ELSE FlushTimeout

ClosesInTurn == \A c \in Closers :
    InClose(c) => closing[c] + Batches(Len(pending)) <= Batches(owed[c]) + Spent

TimedInv == /\ IInv
            /\ TimersOK
            /\ CloserOrder
            /\ WaitsInTurn
            /\ ClosesInTurn
            /\ CloseBound

-----------------------------------------------------------------------------
(* Steps. *)

(* A step with time is a step of the batcher, or leaves it as it is.       *)
LEMMA TimedStep == [TimedNext]_<<vars, timers>> => [Next]_vars
  BY DEF TimedNext, Elapse, LingerElapses, Instant, Next

(* What an instant step does to the buffer, to the flusher and to ticks.   *)
Elsewhere == /\ UNCHANGED <<pending, tick>>
             /\ pc'[Flusher] = pc[Flusher]

LEMMA InstantSteps ==
    ASSUME TypeOK, Next, tick' => tick
    PROVE  \/ Elsewhere
           \/ \E w \in Workers, h \in Handles : AddBuffered(w, h)
           \/ RecvKick \/ RecvTick \/ RecvDone
           \/ FlushTake \/ FlushEmpty \/ DeleteReturns(Flusher)
<1>0. pc \in [Actors -> {"idle", "signal", "delete", "select", "flush", "exited"}]
  BY DEF TypeOK
<1> USE <1>0, ActorFacts DEF Elsewhere, Goto
<1>1. ASSUME NEW w \in Workers, NEW h \in Handles, AddLate(w, h) PROVE Elsewhere
  BY <1>1 DEF AddLate, DeleteNow
<1>2. ASSUME NEW w \in Workers, Signal(w) PROVE Elsewhere
  BY <1>2 DEF Signal
<1>3. ASSUME NEW a \in Actors, a # Flusher, DeleteReturns(a) PROVE Elsewhere
  BY <1>3 DEF DeleteReturns
<1>4. ~Tick
  BY DEF Tick
<1>5. ASSUME NEW c \in Closers, Close(c) \/ CloseDone(c) \/ CloseReturns(c) PROVE Elsewhere
  BY <1>5 DEF Close, CloseDone, CloseReturns
<1>6. Terminated => Elsewhere
  BY DEF Terminated, vars
<1> QED
  BY <1>1, <1>2, <1>3, <1>4, <1>5, <1>6 DEF Next

(* The clocks run from zero to what ends them.                             *)
LEMMA TimersStep == ASSUME TimedInv, TimedNext PROVE TimersOK'
<1> USE TimedAssumption DEF TimedAssumption
<1>0. TypeOK /\ TimersOK
  BY DEF TimedInv, IInv
<1>1. CASE Elapse
  <2>1. UNCHANGED <<pending, closer>>
    BY <1>1 DEF Elapse, vars
  <2>2. sinceTick' \in 0..Linger
    BY <1>0, <1>1 DEF Elapse, TimersOK
  <2>3. inCall' \in [Actors -> 0..FlushTimeout]
    BY <1>0, <1>1 DEF Elapse, TimersOK, BeforeDeadline
  <2>4. waited' \in [Handles -> Nat] /\ \A h \in Handles : h \notin Range(pending') => waited'[h] = 0
    BY <1>0, <1>1, <2>1 DEF Elapse, TimersOK
  <2>5. /\ closing' \in [Closers -> Nat]
        /\ \A c \in Closers : closer'[c] = "idle" => closing'[c] = 0
    BY <1>0, <1>1, <2>1 DEF Elapse, TimersOK, InClose
  <2> QED
    BY <1>0, <1>1, <2>2, <2>3, <2>4, <2>5 DEF Elapse, TimersOK
<1>2. CASE LingerElapses
  <2>1. UNCHANGED <<pending, closer>>
    BY <1>2 DEF LingerElapses, Tick, vars
  <2> QED
    BY <1>0, <1>2, <2>1 DEF LingerElapses, TimersOK
<1>3. CASE Instant
  <2>1. Len(pending) \in Nat
    BY <1>0 DEF TypeOK
  <2>2. inCall' \in [Actors -> 0..FlushTimeout]
    BY <1>0, <1>3 DEF Instant, TimersOK
  <2>3. waited' \in [Handles -> Nat] /\ \A h \in Handles : h \notin Range(pending') => waited'[h] = 0
    BY <1>0, <1>3 DEF Instant, TimersOK
  <2>4. ahead' \in [Handles -> Nat] /\ owed' \in [Closers -> Nat]
    BY <1>0, <1>3, <2>1 DEF Instant, TimersOK
  <2>5. ASSUME NEW c \in Closers, closer'[c] = "idle" PROVE closer[c] = "idle"
    <3>1. \A d \in Closers : closer[d] = "idle" \/ closer'[d] = closer[d] \/ closer'[d] # "idle"
      BY <1>0, <1>3 DEF Instant, Next, TypeOK, Terminated, vars, AddBuffered, AddLate, DeleteNow, Signal,
            DeleteReturns, Tick, RecvKick, RecvTick, RecvDone, FlushTake, FlushEmpty, Close,
            CloseDone, CloseReturns
    <3> QED
      BY <2>5, <3>1
  <2> QED
    BY <1>0, <1>3, <2>2, <2>3, <2>4, <2>5 DEF Instant, TimersOK
<1> QED
  BY <1>1, <1>2, <1>3 DEF TimedNext

(* The first close closes done next.                                       *)
LEMMA CloserStep == ASSUME TypeOK, CloserOrder, [Next]_vars PROVE CloserOrder'
<1>0. closer \in [Closers -> {"idle", "signal", "wait", "returned"}]
  BY DEF TypeOK
<1>1. CASE \E c \in Closers : Close(c)
  <2>1. PICK c \in Closers : Close(c)
    BY <1>1
  <2>2. closed' /\ done' = done /\ closer' = [closer EXCEPT ![c] = IF closed THEN "wait" ELSE "signal"]
        /\ closer[c] = "idle"
    BY <2>1 DEF Close
  <2>3. CASE closed
    <3>1. ASSUME NEW d \in Closers, closer[d] = "signal" PROVE closer'[d] = "signal"
      BY <1>0, <2>2, <3>1
    <3> QED
      BY <2>2, <2>3, <3>1 DEF CloserOrder
  <2>4. CASE ~closed
    <3>1. closer'[c] = "signal"
      BY <1>0, <2>2, <2>4
    <3> QED
      BY <2>2, <3>1 DEF CloserOrder
  <2> QED
    BY <2>3, <2>4
<1>2. CASE \E c \in Closers : CloseDone(c)
  BY <1>0, <1>2 DEF CloseDone, CloserOrder
<1>3. CASE \E c \in Closers : CloseReturns(c)
  <2>1. PICK c \in Closers : CloseReturns(c)
    BY <1>3
  <2>2. /\ closer[c] = "wait" /\ closer' = [closer EXCEPT ![c] = "returned"]
        /\ UNCHANGED <<closed, done>>
    BY <2>1 DEF CloseReturns
  <2>3. \A d \in Closers : closer[d] = "signal" => closer'[d] = "signal"
    BY <1>0, <2>2
  <2>4. \A d \in Closers : closer'[d] # "idle" => closer[d] # "idle"
    BY <1>0, <2>2
  <2> QED
    BY <2>2, <2>3, <2>4 DEF CloserOrder
<1>4. CASE UNCHANGED <<closer, closed, done>>
  BY <1>4 DEF CloserOrder
<1> QED
  BY <1>1, <1>2, <1>3, <1>4 DEF Next, Terminated, vars, AddBuffered, AddLate, DeleteNow, Signal,
     DeleteReturns, Tick, RecvKick, RecvTick, RecvDone, FlushTake, FlushEmpty

(* Time passes in the select only if the buffer is not full, and never     *)
(* while the flusher has something to do.                                  *)
LEMMA WhenTimePasses ==
    ASSUME TimedInv, ~Runnable
    PROVE  /\ pc[Flusher] # "flush"
           /\ pc[Flusher] = "select" => ~tick /\ ~done /\ Len(pending) < MaxSize
           /\ \A c \in Closers : InClose(c) => pc[Flusher] = "delete"
<1>0. TypeOK /\ NoLostWakeup /\ CloserOrder /\ MaxSize \in Nat /\ Len(pending) \in Nat
  BY MaxSizeType DEF TimedInv, IInv, TypeOK
<1>1. pc[Flusher] # "flush" /\ (pc[Flusher] = "select" => ~tick /\ ~done /\ ~kick)
  BY DEF Runnable
<1>2. pc[Flusher] = "select" => Len(pending) < MaxSize
  <2>1. pc[Flusher] = "select" => ~(Len(pending) >= MaxSize)
    BY <1>0, <1>1 DEF NoLostWakeup, Runnable
  <2> QED
    BY <1>0, <2>1
<1>3. ASSUME NEW c \in Closers, InClose(c) PROVE pc[Flusher] = "delete"
  <2>1. closer[c] = "wait" /\ pc[Flusher] # "exited"
    BY <1>3 DEF InClose, Runnable
  <2>2. done
    BY <1>0, <2>1 DEF CloserOrder, Runnable
  <2>3. pc[Flusher] \in {"select", "flush", "delete", "exited"}
    BY <1>0 DEF TypeOK
  <2> QED
    BY <1>1, <2>1, <2>2, <2>3
<1> QED
  BY <1>1, <1>2, <1>3

(* The numbers InTurn is about.                                            *)
LEMMA PlaceFacts ==
    ASSUME TimedInv, NEW i \in DOMAIN pending
    PROVE  /\ i \in Nat /\ i >= 1 /\ i <= Len(pending) /\ i - 1 \in Nat
           /\ pending[i] \in Handles /\ pending[i] \in Range(pending)
           /\ waited[pending[i]] \in Nat /\ ahead[pending[i]] \in Nat
           /\ Turns(i - 1) \in Nat /\ Turns(ahead[pending[i]]) \in Nat
           /\ pc[Flusher] \in {"select", "flush", "delete"}
<1>1. pending \in Seq(Handles) /\ DOMAIN pending = 1..Len(pending) /\ Len(pending) \in Nat
  BY DEF TimedInv, IInv, TypeOK
<1>2. i \in Nat /\ i >= 1 /\ i <= Len(pending) /\ i - 1 \in Nat /\ pending[i] \in Handles
  BY <1>1
<1>3. pending[i] \in Range(pending)
  BY DEF Range
<1>4. waited[pending[i]] \in Nat /\ ahead[pending[i]] \in Nat
  BY <1>2 DEF TimedInv, TimersOK
<1>5. pending # <<>>
  BY <1>1, <1>2
<1>6. pc[Flusher] \in {"select", "flush", "delete"}
  BY <1>5 DEF TimedInv, IInv, TypeOK, ShutdownOrder
<1> QED
  BY <1>2, <1>3, <1>4, <1>6, TurnFacts

LEMMA NumberFacts ==
    ASSUME TimedInv
    PROVE  /\ sinceTick \in Nat /\ sinceTick <= Linger /\ Linger \in Nat
           /\ inCall[Flusher] \in Nat /\ inCall[Flusher] <= FlushTimeout /\ FlushTimeout \in Nat
           /\ MaxSize \in Nat /\ MaxSize >= 1 /\ Len(pending) \in Nat
<1>1. Flusher \in Actors
  BY ActorFacts
<1>2. sinceTick \in 0..Linger /\ inCall[Flusher] \in 0..FlushTimeout
  BY <1>1 DEF TimedInv, TimersOK
<1>3. Linger \in Nat /\ FlushTimeout \in Nat /\ MaxSize \in Nat \ {0}
  BY TimedAssumption, MaxSizeType DEF TimedAssumption
<1>4. Len(pending) \in Nat
  BY DEF TimedInv, IInv, TypeOK
<1> QED
  BY <1>2, <1>3, <1>4

(* Time: in the select, up to the tick; in a call, up to its deadline.     *)
LEMMA WaitsElapse == ASSUME TimedInv, Elapse PROVE WaitsInTurn'
<1>0. UNCHANGED <<pending, pc, tick, ahead>> /\ ~Runnable
  BY DEF Elapse, vars
<1> SUFFICES ASSUME NEW i \in DOMAIN pending, NEW h, h = pending[i] PROVE InTurn(h, i)'
  BY <1>0 DEF WaitsInTurn
<1>1. h \in Handles /\ h \in Range(pending) /\ InTurn(h, i)
  BY PlaceFacts DEF TimedInv, WaitsInTurn
<1>2. waited'[h] = waited[h] + 1
  BY <1>1 DEF Elapse
<1>3. pc[Flusher] = "select" => sinceTick' = sinceTick + 1 /\ sinceTick < Linger
  BY DEF Elapse
<1>4. pc[Flusher] = "delete" => inCall'[Flusher] = inCall[Flusher] + 1
  BY ActorFacts DEF Elapse, Calling
<1>5. pc[Flusher] # "flush"
  BY <1>0, WhenTimePasses
<1>6. pc[Flusher] = "select" => ~tick /\ i < MaxSize
  BY <1>0, WhenTimePasses, PlaceFacts, NumberFacts
<1>7. /\ waited[h] \in Nat /\ ahead[h] \in Nat /\ Turns(i - 1) \in Nat /\ Turns(ahead[h]) \in Nat
      /\ i \in Nat
  BY PlaceFacts
<1>8. CASE pc[Flusher] = "select"
  <2>1. ahead[h] = i - 1 /\ waited[h] <= sinceTick
    BY <1>1, <1>6, <1>8 DEF InTurn
  <2>2. waited'[h] <= sinceTick' /\ waited'[h] <= Linger
    <3>1. waited'[h] = waited[h] + 1 /\ sinceTick' = sinceTick + 1 /\ sinceTick < Linger
      BY <1>2, <1>3, <1>8
    <3>2. waited[h] \in Nat /\ sinceTick \in Nat /\ Linger \in Nat
      BY <1>7, NumberFacts
    <3> QED
      BY <2>1, <3>1, <3>2
  <2>3. /\ pc'[Flusher] = "select" /\ ahead'[h] = i - 1
        /\ i < MaxSize
    BY <1>0, <1>6, <1>8, <2>1
  <2> QED
    BY <2>2, <2>3 DEF InTurn
<1>9. CASE pc[Flusher] = "delete"
  <2>1. waited[h] + Turns(i - 1) <= Turns(ahead[h]) + inCall[Flusher]
    BY <1>1, <1>9 DEF InTurn
  <2> DEFINE t == Turns(i - 1)
             u == Turns(ahead[h])
  <2>2. t \in Nat /\ u \in Nat /\ waited[h] \in Nat /\ inCall[Flusher] \in Nat
    BY <1>7, NumberFacts
  <2>3. waited[h] + t <= u + inCall[Flusher]
    BY <2>1
  <2> HIDE DEF t, u
  <2>4. (waited[h] + 1) + t <= u + (inCall[Flusher] + 1)
    BY <2>2, <2>3
  <2>5. waited'[h] + t <= u + inCall'[Flusher]
    BY <1>2, <1>4, <1>9, <2>4
  <2>6. pc'[Flusher] = "delete" /\ ahead' = ahead
    BY <1>0, <1>9
  <2>7. waited'[h] + Turns(i - 1) <= Turns(ahead'[h]) + inCall'[Flusher]
    BY <2>5, <2>6 DEF t, u
  <2> QED
    BY <2>6, <2>7 DEF InTurn
<1> QED
  BY <1>5, <1>8, <1>9, PlaceFacts

(* A step that leaves the buffer and the flusher alone keeps the bound.     *)
LEMMA WaitsKept ==
    ASSUME TimedInv, UNCHANGED <<pending, ahead, waited>>, pc'[Flusher] = pc[Flusher],
           pc[Flusher] = "delete" => inCall'[Flusher] = inCall[Flusher],
           tick' \/ (tick' = tick /\ sinceTick' = sinceTick)
    PROVE  WaitsInTurn'
<1> SUFFICES ASSUME NEW i \in DOMAIN pending, NEW h, h = pending[i] PROVE InTurn(h, i)'
  BY DEF WaitsInTurn
<1>1. InTurn(h, i)
  BY DEF TimedInv, WaitsInTurn
<1> QED
  BY <1>1 DEF InTurn

(* The clocks of the handles that stay in the buffer stand still.          *)
LEMMA Stays ==
    ASSUME TimedInv, Instant, NEW h \in Handles, h \in Range(pending), h \in Range(pending')
    PROVE  waited'[h] = waited[h] /\ ahead'[h] = ahead[h]
  BY DEF Instant

(* A handle outside the buffer has no time.                                *)
LEMMA SameBuffer ==
    ASSUME TimedInv, Instant, pending' = pending, NEW i \in DOMAIN pending
    PROVE  waited'[pending[i]] = waited[pending[i]] /\ ahead'[pending[i]] = ahead[pending[i]]
  BY PlaceFacts, Stays

(* A call that goes on keeps its clock.                                    *)
LEMMA CallGoesOn ==
    ASSUME TimedInv, Instant, pc[Flusher] = "delete", pc'[Flusher] = "delete"
    PROVE  inCall'[Flusher] = inCall[Flusher]
  BY ActorFacts DEF Instant, Calling

(* add: a handle comes behind those that are there.                        *)
LEMMA WaitsAdd ==
    ASSUME TimedInv, Instant, NEW w \in Workers, NEW k \in Handles, AddBuffered(w, k)
    PROVE  WaitsInTurn'
<1>0. /\ pending \in Seq(Handles) /\ Len(pending) \in Nat
      /\ pending' = Append(pending, k) /\ k \notin Range(pending) /\ ~closed
      /\ tick' = tick /\ sinceTick' = sinceTick
  BY DEF TimedInv, IInv, TypeOK, AddBuffered, Instant, HandlesTracked
<1>1. /\ Len(pending') = Len(pending) + 1 /\ DOMAIN pending' = 1..(Len(pending) + 1)
      /\ \A i \in 1..Len(pending) : pending'[i] = pending[i]
      /\ pending'[Len(pending) + 1] = k
      /\ DOMAIN pending = 1..Len(pending)
  BY <1>0
<1>2. Range(pending') = Range(pending) \cup {k}
  BY <1>0, AppendRange
<1>3. pc'[Flusher] = pc[Flusher]
  BY ActorFacts DEF TimedInv, IInv, TypeOK, AddBuffered, Goto
<1>4. pc[Flusher] = "delete" => inCall'[Flusher] = inCall[Flusher]
  BY <1>3, CallGoesOn
<1>5. pc[Flusher] # "exited"
  BY <1>0 DEF TimedInv, IInv, ShutdownOrder
<1> SUFFICES ASSUME NEW i \in DOMAIN pending', NEW h, h = pending'[i] PROVE InTurn(h, i)'
  BY DEF WaitsInTurn
<1>6. CASE i \in DOMAIN pending
  <2>1. h = pending[i] /\ h \in Handles /\ h \in Range(pending) /\ InTurn(h, i)
    BY <1>1, <1>6, PlaceFacts DEF TimedInv, WaitsInTurn
  <2>2. waited'[h] = waited[h] /\ ahead'[h] = ahead[h]
    BY <1>2, <2>1, Stays
  <2> QED
    BY <1>0, <1>3, <1>4, <2>1, <2>2 DEF InTurn
<1>7. CASE i \notin DOMAIN pending
  <2>1. i = Len(pending) + 1 /\ h = k /\ i - 1 = Len(pending)
    BY <1>0, <1>1, <1>7
  <2>2. h \notin Range(pending) /\ h \in Range(pending') /\ h \in Handles
    BY <1>0, <1>2, <2>1
  <2>3. waited'[h] = 0 /\ ahead'[h] = i - 1
    BY <2>1, <2>2 DEF Instant, TimedInv, TimersOK
  <2> DEFINE t == Turns(i - 1)
  <2>4. t \in Nat
    BY <1>0, <2>1, TurnFacts
  <2>5. Turns(i - 1) = t /\ Turns(ahead'[h]) = t
    BY <2>3
  <2> HIDE DEF t
  <2>6. 0 + t <= t + FlushTimeout /\ 0 + t <= t + inCall[Flusher] /\ 0 <= Linger /\ 0 <= sinceTick
    BY <2>4, NumberFacts
  <2> QED
    BY <1>0, <1>3, <1>4, <2>3, <2>5, <2>6 DEF InTurn
<1> QED
  BY <1>6, <1>7

(* The select ends: what has waited is in the first batch.                 *)
LEMMA WaitsReceive == ASSUME TimedInv, Instant, RecvKick \/ RecvTick \/ RecvDone PROVE WaitsInTurn'
<1>0. pending' = pending /\ pc[Flusher] = "select" /\ pc'[Flusher] = "flush"
  BY ActorFacts DEF TimedInv, IInv, TypeOK, RecvKick, RecvTick, RecvDone, Goto
<1> SUFFICES ASSUME NEW i \in DOMAIN pending, NEW h, h = pending[i] PROVE InTurn(h, i)'
  BY <1>0 DEF WaitsInTurn
<1>1. InTurn(h, i)
  BY DEF TimedInv, WaitsInTurn
<1>2. waited'[h] = waited[h] /\ ahead'[h] = ahead[h]
  BY <1>0, SameBuffer
<1>3. ahead[h] = i - 1 /\ waited[h] <= Linger /\ (waited[h] = 0 \/ i < MaxSize)
  BY <1>0, <1>1 DEF InTurn
<1>4. Turns(i - 1) \in Nat /\ i \in Nat
  BY PlaceFacts
<1>5. CASE waited[h] = 0
  <2> DEFINE t == Turns(i - 1)
  <2>1. t \in Nat /\ Turns(ahead'[h]) = t /\ Turns(i - 1) = t
    BY <1>2, <1>3, <1>4
  <2> HIDE DEF t
  <2>2. 0 + t <= t + FlushTimeout
    BY <2>1, NumberFacts
  <2> QED
    BY <1>0, <1>2, <1>5, <2>1, <2>2 DEF InTurn
<1>6. CASE i < MaxSize
  <2>1. i <= MaxSize
    BY <1>4, <1>6, NumberFacts
  <2> QED
    BY <1>0, <1>2, <1>3, <2>1 DEF InTurn
<1> QED
  BY <1>3, <1>5, <1>6

(* What a round of flush leaves in the buffer: nothing, or all that was    *)
(* behind the first MaxSize handles.                                       *)
LEMMA TakeFacts ==
    ASSUME TimedInv, FlushTake
    PROVE  /\ pc[Flusher] = "flush" /\ pc'[Flusher] = "delete"
           /\ Len(pending) <= MaxSize => pending' = <<>>
           /\ Len(pending) > MaxSize =>
                 /\ Len(pending') = Len(pending) - MaxSize
                 /\ DOMAIN pending' = 1..(Len(pending) - MaxSize)
                 /\ \A i \in DOMAIN pending' :
                       i + MaxSize \in DOMAIN pending /\ pending'[i] = pending[i + MaxSize]
<1> DEFINE n == IF Len(pending) > MaxSize THEN MaxSize ELSE Len(pending)
           m == n + 1
<1>1. /\ pending \in Seq(Handles) /\ pending' = SubSeq(pending, m, Len(pending))
      /\ pc[Flusher] = "flush" /\ pc'[Flusher] = "delete"
  BY ActorFacts DEF TimedInv, IInv, TypeOK, FlushTake, DeleteNow, Goto, Rest
<1>2. n \in Nat /\ n <= Len(pending) /\ Len(pending) \in Nat /\ MaxSize \in Nat
  BY NumberFacts
<1>3. n = IF Len(pending) > MaxSize THEN MaxSize ELSE Len(pending)
  OBVIOUS
<1>4. m = n + 1
  OBVIOUS
<1> HIDE DEF n, m
<1>5. m \in Int /\ Len(pending) \in Int /\ \A i \in m..Len(pending) : pending[i] \in Handles
  BY <1>1, <1>2, <1>4
<1>6. /\ Len(pending') = IF m <= Len(pending) THEN Len(pending) - m + 1 ELSE 0
      /\ pending' \in Seq(Handles)
      /\ \A i \in 1..(Len(pending) - m + 1) : pending'[i] = pending[m + i - 1]
  BY <1>1, <1>5, SubSeqProperties
<1>7. ASSUME Len(pending) <= MaxSize PROVE pending' = <<>>
  <2>1. n = Len(pending)
    BY <1>2, <1>3, <1>7
  <2>2. Len(pending') = 0
    BY <1>2, <1>4, <1>6, <2>1
  <2> QED
    BY <1>6, <2>2
<1>8. ASSUME Len(pending) > MaxSize
      PROVE  /\ Len(pending') = Len(pending) - MaxSize
             /\ DOMAIN pending' = 1..(Len(pending) - MaxSize)
             /\ \A i \in DOMAIN pending' :
                   i + MaxSize \in DOMAIN pending /\ pending'[i] = pending[i + MaxSize]
  <2>1. m = MaxSize + 1 /\ Len(pending) - m + 1 = Len(pending) - MaxSize /\ m <= Len(pending)
    BY <1>2, <1>3, <1>4, <1>8
  <2>2. Len(pending') = Len(pending) - MaxSize /\ DOMAIN pending' = 1..(Len(pending) - MaxSize)
    BY <1>6, <2>1
  <2>3. ASSUME NEW i \in DOMAIN pending'
        PROVE  i + MaxSize \in DOMAIN pending /\ pending'[i] = pending[i + MaxSize]
    <3>1. i \in 1..(Len(pending) - MaxSize)
      BY <2>2
    <3>2. m + i - 1 = i + MaxSize /\ i + MaxSize \in 1..Len(pending)
      BY <1>2, <2>1, <3>1
    <3>3. pending'[i] = pending[m + i - 1]
      BY <1>6, <2>1, <3>1
    <3> QED
      BY <1>1, <3>2, <3>3
  <2> QED
    BY <2>2, <2>3
<1> QED
  BY <1>1, <1>7, <1>8

(* flush: whoever is not in the first batch has one turn fewer to wait.    *)
LEMMA WaitsTake == ASSUME TimedInv, Instant, FlushTake PROVE WaitsInTurn'
<1>0. pc[Flusher] = "flush" /\ pc'[Flusher] = "delete" /\ inCall'[Flusher] = 0
  BY TakeFacts, ActorFacts DEF Instant, Calling
<1>1. CASE Len(pending) <= MaxSize
  BY <1>1, TakeFacts DEF WaitsInTurn
<1>2. CASE Len(pending) > MaxSize
  <2> SUFFICES ASSUME NEW i \in DOMAIN pending', NEW h, h = pending'[i] PROVE InTurn(h, i)'
    BY DEF WaitsInTurn
  <2> DEFINE j == i + MaxSize
  <2>1. /\ j \in DOMAIN pending /\ h = pending[j] /\ i \in Nat /\ i >= 1
        /\ MaxSize \in Nat /\ j = i + MaxSize
    BY <1>2, TakeFacts, NumberFacts
  <2>2. h \in Handles /\ h \in Range(pending) /\ h \in Range(pending') /\ InTurn(h, j)
    BY <2>1, PlaceFacts DEF TimedInv, WaitsInTurn, Range
  <2>3. waited'[h] = waited[h] /\ ahead'[h] = ahead[h]
    BY <2>2, Stays
  <2>4. /\ waited[h] \in Nat /\ Turns(ahead[h]) \in Nat
        /\ ~(j <= MaxSize)
    BY <2>1, PlaceFacts
  <2>5. Turns(j - 1) = Turns(i - 1) + FlushTimeout /\ Turns(i - 1) \in Nat
    <3>1. j - 1 = (i - 1) + MaxSize /\ i - 1 \in Nat
      BY <2>1
    <3> QED
      BY <3>1, TurnFacts
  <2> HIDE DEF j
  <2>6. waited[h] + Turns(j - 1) <= Turns(ahead[h]) + FlushTimeout
    BY <1>0, <2>2, <2>4 DEF InTurn
  <2> DEFINE t == Turns(i - 1)
             u == Turns(ahead[h])
  <2>7. /\ t \in Nat /\ u \in Nat /\ waited[h] \in Nat /\ FlushTimeout \in Nat
        /\ waited[h] + (t + FlushTimeout) <= u + FlushTimeout
    BY <2>4, <2>5, <2>6, NumberFacts
  <2> HIDE DEF t, u
  <2>8. waited[h] + t <= u + 0
    BY <2>7
  <2>9. waited'[h] + Turns(i - 1) <= Turns(ahead'[h]) + inCall'[Flusher]
    BY <1>0, <2>3, <2>8 DEF t, u
  <2> QED
    BY <1>0, <2>9 DEF InTurn
<1> QED
  BY <1>1, <1>2, NumberFacts

(* A call ends by its deadline.                                            *)
LEMMA WaitsReturn == ASSUME TimedInv, Instant, DeleteReturns(Flusher) PROVE WaitsInTurn'
<1>0. pending' = pending /\ pc[Flusher] = "delete" /\ pc'[Flusher] = "flush"
  BY ActorFacts DEF TimedInv, IInv, TypeOK, DeleteReturns, AfterDelete, Goto
<1> SUFFICES ASSUME NEW i \in DOMAIN pending, NEW h, h = pending[i] PROVE InTurn(h, i)'
  BY <1>0 DEF WaitsInTurn
<1>1. waited[h] + Turns(i - 1) <= Turns(ahead[h]) + inCall[Flusher]
  BY <1>0 DEF TimedInv, WaitsInTurn, InTurn
<1>2. waited'[h] = waited[h] /\ ahead'[h] = ahead[h]
  BY <1>0, SameBuffer
<1> DEFINE t == Turns(i - 1)
           u == Turns(ahead[h])
<1>3. /\ t \in Nat /\ u \in Nat /\ waited[h] \in Nat
      /\ waited[h] + t <= u + inCall[Flusher]
  BY <1>1, PlaceFacts
<1> HIDE DEF t, u
<1>4. waited[h] + t <= u + FlushTimeout
  <2>1. inCall[Flusher] \in Nat /\ inCall[Flusher] <= FlushTimeout /\ FlushTimeout \in Nat
    BY NumberFacts
  <2> QED
    BY <1>3, <2>1
<1>5. waited'[h] + Turns(i - 1) <= Turns(ahead'[h]) + FlushTimeout
  BY <1>2, <1>4 DEF t, u
<1> QED
  BY <1>0, <1>5 DEF InTurn

(* The bound on waiting, step by step.                                     *)
LEMMA WaitsStep == ASSUME TimedInv, TimedNext PROVE WaitsInTurn'
<1>1. CASE LingerElapses
  <2>1. tick' /\ UNCHANGED <<pending, pc, waited, ahead, inCall>>
    BY <1>1 DEF LingerElapses, Tick, vars
  <2> QED
    BY <2>1, WaitsKept
<1>2. CASE Instant
  <2>1. CASE Elsewhere
    <3> SUFFICES ASSUME NEW i \in DOMAIN pending, NEW h, h = pending[i] PROVE InTurn(h, i)'
      BY <2>1 DEF Elsewhere, WaitsInTurn
    <3>1. InTurn(h, i) /\ waited'[h] = waited[h] /\ ahead'[h] = ahead[h]
      BY <1>2, <2>1, SameBuffer DEF Elsewhere, TimedInv, WaitsInTurn
    <3>2. pc[Flusher] = "delete" => inCall'[Flusher] = inCall[Flusher]
      BY <1>2, <2>1, CallGoesOn DEF Elsewhere
    <3>3. tick' = tick /\ sinceTick' = sinceTick /\ pc'[Flusher] = pc[Flusher]
      BY <1>2, <2>1 DEF Elsewhere, Instant
    <3> QED
      BY <3>1, <3>2, <3>3 DEF InTurn
  <2>2. CASE FlushEmpty
    BY <2>2 DEF FlushEmpty, WaitsInTurn
  <2>3. TypeOK /\ Next /\ (tick' => tick)
    BY <1>2 DEF TimedInv, IInv, Instant
  <2> QED
    BY <1>2, <2>1, <2>2, <2>3, InstantSteps, WaitsAdd, WaitsReceive, WaitsTake, WaitsReturn
<1> QED
  BY <1>1, <1>2, WaitsElapse DEF TimedNext

-----------------------------------------------------------------------------
(* Close. *)

(* The numbers ClosesInTurn is about.                                      *)
LEMMA CloseFacts ==
    ASSUME TimedInv, NEW c \in Closers
    PROVE  /\ closing[c] \in Nat /\ owed[c] \in Nat
           /\ Batches(Len(pending)) \in Nat /\ Batches(owed[c]) \in Nat
           /\ Spent \in Nat /\ Spent <= FlushTimeout
           /\ InClose(c) => closing[c] + Batches(Len(pending)) <= Batches(owed[c]) + Spent
<1>1. closing[c] \in Nat /\ owed[c] \in Nat /\ Len(pending) \in Nat
  BY NumberFacts DEF TimedInv, TimersOK
<1>2. Batches(Len(pending)) \in Nat /\ Batches(owed[c]) \in Nat
  BY <1>1, BatchFacts
<1>3. Spent \in Nat /\ Spent <= FlushTimeout
  BY NumberFacts DEF Spent
<1> QED
  BY <1>1, <1>2, <1>3 DEF TimedInv, ClosesInTurn

(* What a close has found is there, or has been sent since: a round of     *)
(* flush takes a batch, and its call takes no longer than flushTimeout.    *)
LEMMA SpentStep ==
    ASSUME TimedInv, Instant, closed
    PROVE  /\ Batches(Len(pending)') + Spent <= Batches(Len(pending)) + Spent'
           /\ Spent' \in Nat /\ Batches(Len(pending)') \in Nat
<1> DEFINE b == Batches(Len(pending))
           e == Batches(Len(pending)')
<1>0. TypeOK /\ Next /\ (tick' => tick) /\ b \in Nat /\ FlushTimeout \in Nat
  BY BatchFacts, NumberFacts DEF TimedInv, IInv, Instant
<1>1. Spent \in Nat /\ Spent <= FlushTimeout
  BY NumberFacts DEF Spent
<1>2. CASE Elsewhere
  <2>1. e = b /\ Spent' = Spent
    BY <1>2, CallGoesOn DEF Elsewhere, Spent
  <2> HIDE DEF b, e
  <2> QED
    BY <1>0, <1>1, <2>1 DEF b, e
<1>3. CASE FlushTake
  <2>1. pc[Flusher] = "flush" /\ pc'[Flusher] = "delete" /\ inCall'[Flusher] = 0
    BY <1>3, TakeFacts, ActorFacts DEF Instant, Calling
  <2>2. Spent' = 0 /\ Spent = FlushTimeout
    BY <2>1 DEF Spent
  <2>3. e + FlushTimeout <= b /\ e \in Nat
    <3>1. Len(pending) \in Nat /\ MaxSize \in Nat /\ MaxSize >= 1
      BY NumberFacts
    <3>2. CASE Len(pending) > MaxSize
      <4>1. Len(pending') = Len(pending) - MaxSize /\ Len(pending) - MaxSize \in Nat
        BY <1>3, <3>1, <3>2, TakeFacts
      <4>2. e \in Nat /\ b = e + FlushTimeout
        BY <3>1, <3>2, <4>1, BatchFacts
      <4> HIDE DEF b, e
      <4> QED
        BY <1>0, <4>2
    <3>3. CASE Len(pending) <= MaxSize
      <4>1. Len(pending) > 0
        BY <1>3, <3>1, <1>0 DEF FlushTake, TypeOK
      <4>2. b = FlushTimeout
        BY <3>1, <3>3, <4>1, BatchFacts
      <4>3. Len(pending') = 0
        BY <1>3, <3>3, TakeFacts
      <4>4. e = 0
        BY <4>3, BatchFacts
      <4> HIDE DEF b, e
      <4> QED
        BY <1>0, <4>2, <4>4
    <3> QED
      BY <3>1, <3>2, <3>3
  <2> HIDE DEF b, e
  <2>4. e + Spent <= b + Spent' /\ Spent' \in Nat
    BY <1>0, <2>2, <2>3
  <2> QED
    BY <2>3, <2>4 DEF b, e
<1>4. CASE RecvKick \/ RecvTick \/ RecvDone \/ FlushEmpty \/ DeleteReturns(Flusher)
  <2>1. pending' = pending /\ pc'[Flusher] # "delete"
    BY <1>0, <1>4, ActorFacts DEF TypeOK, RecvKick, RecvTick, RecvDone, FlushEmpty,
       DeleteReturns, AfterDelete, Goto
  <2>2. e = b /\ Spent' = FlushTimeout
    BY <2>1 DEF Spent
  <2> HIDE DEF b, e
  <2> QED
    BY <1>0, <1>1, <2>2 DEF b, e
<1>5. ASSUME NEW w \in Workers, NEW h \in Handles, AddBuffered(w, h) PROVE FALSE
  BY <1>5 DEF AddBuffered
<1> QED
  BY <1>0, <1>2, <1>3, <1>4, <1>5, InstantSteps

(* Only its own steps move a caller of close.                              *)
LEMMA CloserMoves ==
    ASSUME TypeOK, Next, NEW c \in Closers
    PROVE  \/ closer'[c] = closer[c]
           \/ closer[c] = "idle" /\ pending' = pending /\ UNCHANGED pc /\ Close(c)
           \/ closer[c] = "signal" /\ closer'[c] = "wait"
           \/ closer[c] = "wait" /\ closer'[c] = "returned"
  BY DEF TypeOK, Next, Terminated, vars, AddBuffered, AddLate, DeleteNow, Signal,
     DeleteReturns, Tick, RecvKick, RecvTick, RecvDone, FlushTake, FlushEmpty, Close,
     CloseDone, CloseReturns

(* The bound on close, step by step.                                       *)
LEMMA ClosesStep == ASSUME TimedInv, TimedNext PROVE ClosesInTurn'
<1> SUFFICES ASSUME NEW c \in Closers, InClose(c)'
             PROVE  closing'[c] + Batches(Len(pending)') <= Batches(owed'[c]) + Spent'
  BY DEF ClosesInTurn, Batches, Turns
<1> DEFINE b == Batches(Len(pending))
           o == Batches(owed[c])
<1>0. /\ closing[c] \in Nat /\ b \in Nat /\ o \in Nat /\ Spent \in Nat
      /\ InClose(c) => closing[c] + b <= o + Spent
  BY CloseFacts
<1>1. CASE Elapse
  <2>1. InClose(c) /\ UNCHANGED <<pending, pc, owed>> /\ ~Runnable
    BY <1>1 DEF Elapse, InClose, vars
  <2>2. pc[Flusher] = "delete"
    BY <2>1, WhenTimePasses
  <2>3. Spent' = Spent + 1
    BY <1>1, <2>1, <2>2, ActorFacts DEF Spent, Elapse, Calling
  <2>4. closing'[c] = closing[c] + 1 /\ Batches(Len(pending)') = b /\ Batches(owed'[c]) = o
    BY <1>1, <2>1 DEF Elapse
  <2> HIDE DEF b, o
  <2>5. (closing[c] + 1) + b <= o + (Spent + 1)
    BY <1>0, <2>1
  <2> QED
    BY <2>3, <2>4, <2>5
<1>2. CASE LingerElapses
  <2>1. UNCHANGED <<pending, pc, closer, inCall, closing, owed>>
    BY <1>2 DEF LingerElapses, Tick, vars
  <2>2. Spent' = Spent /\ InClose(c)
    BY <2>1 DEF Spent, InClose
  <2> QED
    BY <1>0, <2>1, <2>2
<1>3. CASE Instant
  <2>1. closing'[c] = closing[c]
    BY <1>3 DEF Instant
  <2>2. CASE InClose(c)
    <3> DEFINE e == Batches(Len(pending)')
    <3>1. closed
      BY <2>2 DEF TimedInv, CloserOrder, InClose
    <3>2. e + Spent <= b + Spent' /\ Spent' \in Nat /\ e \in Nat
      BY <1>3, <3>1, SpentStep
    <3>3. owed'[c] = owed[c]
      BY <1>3, <2>2 DEF Instant
    <3>4. Batches(owed'[c]) = o
      BY <3>3
    <3> HIDE DEF b, o, e
    <3>5. closing[c] + e <= o + Spent'
      <4> DEFINE x == closing[c]
                 y == Spent
                 z == Spent'
      <4>1. /\ x \in Nat /\ y \in Nat /\ z \in Nat /\ b \in Nat /\ o \in Nat /\ e \in Nat
            /\ x + b <= o + y /\ e + y <= b + z
        BY <1>0, <2>2, <3>2
      <4> HIDE DEF x, y, z
      <4>2. x + e <= o + z
        BY <4>1
      <4> QED
        BY <4>2 DEF x, z
    <3> QED
      BY <2>1, <3>4, <3>5 DEF e
  <2>3. CASE ~InClose(c)
    <3>1. closer[c] = "idle" /\ pending' = pending /\ UNCHANGED pc
      BY <1>3, <2>3, CloserMoves DEF Instant, TimedInv, IInv, InClose
    <3>2. closing[c] = 0 /\ owed'[c] = Len(pending)
      BY <1>3, <2>3, <3>1 DEF TimedInv, TimersOK, Instant
    <3>3. Spent' = Spent
      BY <1>3, <3>1, CallGoesOn DEF Spent
    <3>4. Batches(owed'[c]) = b /\ Batches(Len(pending)') = b
      BY <3>1, <3>2
    <3> HIDE DEF b, o
    <3>5. 0 + b <= b + Spent
      BY <1>0
    <3> QED
      BY <2>1, <3>2, <3>3, <3>4, <3>5
  <2> QED
    BY <2>2, <2>3
<1> QED
  BY <1>1, <1>2, <1>3 DEF TimedNext

(* What is left for a close to wait for is at most what it may still take. *)
LEMMA BoundStep == ASSUME TimedInv, TimedNext, TimersOK', IInv', ClosesInTurn' PROVE CloseBound'
<1> SUFFICES ASSUME NEW c \in Closers
             PROVE  closing'[c] <= FlushTimeout * (1 + ((owed'[c] + MaxSize - 1) \div MaxSize))
  BY DEF CloseBound
<1>0. /\ closing'[c] \in Nat /\ owed'[c] \in Nat /\ Len(pending') \in Nat /\ FlushTimeout \in Nat
      /\ inCall'[Flusher] \in Nat /\ inCall'[Flusher] <= FlushTimeout
  BY TurnFacts, ActorFacts DEF TimersOK, IInv, TypeOK
<1>1. /\ FlushTimeout * (1 + ((owed'[c] + MaxSize - 1) \div MaxSize)) = Batches(owed'[c]) + FlushTimeout
      /\ Batches(owed'[c]) \in Nat /\ Batches(Len(pending')) \in Nat
  BY <1>0, BatchFacts
<1>2. CASE InClose(c)'
  <2>1. Spent' \in Nat /\ Spent' <= FlushTimeout
    BY <1>0 DEF Spent
  <2>2. closing'[c] + Batches(Len(pending')) <= Batches(owed'[c]) + Spent'
    BY <1>2 DEF ClosesInTurn, Batches, Turns
  <2>3. closing'[c] <= Batches(owed'[c]) + FlushTimeout
    BY <1>0, <1>1, <2>1, <2>2
  <2> QED
    BY <1>1, <2>3
<1>3. CASE closer'[c] = "idle"
  <2>1. closing'[c] = 0
    BY <1>3 DEF TimersOK
  <2> QED
    BY <1>0, <1>1, <2>1
<1>4. CASE closer'[c] = "returned"
  <2>1. ~InClose(c)'
    BY <1>4 DEF InClose
  <2>2. CASE Elapse
    BY <2>1, <2>2 DEF Elapse, InClose, vars, TimedInv, CloseBound, TimersOK
  <2>3. CASE LingerElapses \/ Instant
    BY <2>1, <2>3 DEF LingerElapses, Instant, TimedInv, CloseBound, TimersOK
  <2> QED
    BY <2>2, <2>3 DEF TimedNext
<1> QED
  BY <1>2, <1>3, <1>4 DEF IInv, TypeOK, InClose

-----------------------------------------------------------------------------
(* The theorems. *)

(* The clocks start with an empty buffer and no call of close.             *)
LEMMA InitInv == TimedInit => TimersOK /\ CloserOrder /\ WaitsInTurn /\ ClosesInTurn /\ CloseBound
<1> SUFFICES ASSUME TimedInit PROVE TimersOK /\ CloserOrder /\ WaitsInTurn /\ ClosesInTurn /\ CloseBound
  OBVIOUS
<1>1. Linger \in Nat /\ FlushTimeout \in Nat /\ MaxSize \in Nat
  BY TimedAssumption, MaxSizeType DEF TimedAssumption
<1>2. TimersOK
  BY <1>1 DEF TimedInit, TimersOK
<1>3. CloserOrder /\ WaitsInTurn /\ ClosesInTurn
  BY DEF TimedInit, Init, CloserOrder, WaitsInTurn, ClosesInTurn, InClose
<1>4. CloseBound
  <2> SUFFICES ASSUME NEW c \in Closers
               PROVE  closing[c] <= FlushTimeout * (1 + ((owed[c] + MaxSize - 1) \div MaxSize))
    BY DEF CloseBound
  <2>1. closing[c] = 0 /\ owed[c] \in Nat
    BY DEF TimedInit
  <2>2. /\ FlushTimeout * (1 + ((owed[c] + MaxSize - 1) \div MaxSize)) = Batches(owed[c]) + FlushTimeout
        /\ Batches(owed[c]) \in Nat
    BY <2>1, BatchFacts
  <2> QED
    BY <1>1, <2>1, <2>2
<1> QED
  BY <1>2, <1>3, <1>4

(* With time, the batcher still does only what it does without.            *)
LEMMA Untimed == TimedSpec => Spec
<1>1. TimedInit => Init
  BY DEF TimedInit
<1> QED
  BY <1>1, TimedStep, PTL DEF TimedSpec, Spec

(* The inductive invariant: where in the flusher's turns each handle and   *)
(* each close is, and how much of its time has gone by then.               *)
THEOREM TimedInvariance == TimedSpec => []TimedInv
<1> DEFINE Inv == TimersOK /\ CloserOrder /\ WaitsInTurn /\ ClosesInTurn /\ CloseBound
<1>1. TimedInv <=> IInv /\ Inv
  BY DEF TimedInv
<1>2. ASSUME IInv, IInv', Inv, [TimedNext]_<<vars, timers>> PROVE Inv'
  <2>1. CASE TimedNext
    <3>1. TimedInv /\ TypeOK /\ [Next]_vars
      BY <1>1, <1>2, TimedStep DEF IInv
    <3>2. TimersOK' /\ CloserOrder' /\ WaitsInTurn' /\ ClosesInTurn'
      BY <1>2, <2>1, <3>1, TimersStep, CloserStep, WaitsStep, ClosesStep
    <3> QED
      BY <1>2, <2>1, <3>1, <3>2, BoundStep
  <2>2. CASE UNCHANGED <<vars, timers>>
    BY <1>2, <2>2 DEF vars, timers, TimersOK, CloserOrder, WaitsInTurn, InTurn, ClosesInTurn,
       InClose, Spent, CloseBound, Turns, Batches
  <2> QED
    BY <1>2, <2>1, <2>2
<1>3. TimedInit => Inv
  BY InitInv
<1>4. TimedSpec => []IInv
  BY Untimed, Invariance, PTL
<1> HIDE DEF Inv
<1>5. TimedSpec => []Inv
  BY <1>2, <1>3, <1>4, PTL DEF TimedSpec
<1> QED
  BY <1>1, <1>4, <1>5, PTL

(* sqs/delete_batcher.go: a handle waits for the ticker, or, if the        *)
(* flusher is busy, for the call in progress and for the full batches that *)
(* were in front of it, no longer than flushTimeout each.                  *)
THEOREM WaitBoundHolds == TimedSpec => []WaitBound
<1>1. ASSUME TimedInv PROVE WaitBound
  <2> SUFFICES ASSUME NEW h \in Range(pending)
               PROVE  waited[h] <= Max({Linger, FlushTimeout * (1 + (ahead[h] \div MaxSize))})
    BY DEF WaitBound
  <2>1. PICK i \in DOMAIN pending : h = pending[i]
    BY DEF Range
  <2>2. InTurn(h, i)
    BY <1>1, <2>1 DEF TimedInv, WaitsInTurn
  <2>3. /\ waited[h] \in Nat /\ ahead[h] \in Nat /\ Turns(i - 1) \in Nat /\ Turns(ahead[h]) \in Nat
        /\ pc[Flusher] \in {"select", "flush", "delete"}
    BY <1>1, <2>1, PlaceFacts
  <2>4. FlushTimeout * (1 + (ahead[h] \div MaxSize)) = Turns(ahead[h]) + FlushTimeout
    BY <2>3, TurnFacts
  <2> DEFINE t == Turns(i - 1)
             u == Turns(ahead[h])
  <2>5. /\ t \in Nat /\ u \in Nat
        /\ inCall[Flusher] \in Nat /\ inCall[Flusher] <= FlushTimeout
        /\ FlushTimeout \in Nat /\ Linger \in Nat
    BY <1>1, <2>3, NumberFacts
  <2>6. \/ waited[h] <= Linger
        \/ waited[h] + t <= u + FlushTimeout
        \/ waited[h] + t <= u + inCall[Flusher]
    BY <2>2, <2>3 DEF InTurn
  <2> HIDE DEF t, u
  <2>7. waited[h] <= Linger \/ waited[h] <= u + FlushTimeout
    BY <2>3, <2>5, <2>6
  <2> DEFINE m == Max({Linger, u + FlushTimeout})
  <2>8. m \in Int /\ m >= Linger /\ m >= u + FlushTimeout
    BY <2>5, MaxOfTwo
  <2>9. m = Max({Linger, FlushTimeout * (1 + (ahead[h] \div MaxSize))})
    BY <2>4 DEF u
  <2> HIDE DEF m
  <2>10. waited[h] <= m
    BY <2>3, <2>5, <2>7, <2>8
  <2> QED
    BY <2>9, <2>10
<1> QED
  BY <1>1, TimedInvariance, PTL

(* sqs/delete_batcher.go, "a hung flush cannot stall the flusher goroutine *)
(* (or shutdown) indefinitely": close lasts one flushTimeout for the call  *)
(* in progress and one for each batch it finds in the buffer.              *)
THEOREM CloseBoundHolds == TimedSpec => []CloseBound
<1>1. TimedInv => CloseBound
  BY DEF TimedInv
<1> QED
  BY <1>1, TimedInvariance, PTL

=============================================================================
