------------------------- MODULE DeleteBatcherProofs -------------------------
(***************************************************************************)
(* What is proved of DeleteBatcher for any set of handles, workers and     *)
(* callers of close, and any MaxSize: the type invariant, and the three    *)
(* safety properties by way of one inductive invariant.                    *)
(***************************************************************************)
EXTENDS DeleteBatcher, SequenceTheorems, TLAPS

-----------------------------------------------------------------------------
(* Lemmas about the sequences pending and call hold. *)

(* The clamp of setDefaults yields a size of at least one, whatever the    *)
(* user configured, and never more than SQS accepts.                       *)
LEMMA MaxSizeType == MaxSize \in Nat \ {0} /\ MaxSize <= SqsMaxBatchSize
  BY BatcherAssumption DEF MaxSize, BatcherAssumption

(* Buffering one handle adds it to the buffer's handles, and only it.      *)
LEMMA AppendRange ==
    ASSUME NEW S, NEW s \in Seq(S), NEW e \in S
    PROVE  /\ Append(s, e) \in Seq(S)
           /\ Len(Append(s, e)) = Len(s) + 1
           /\ Range(Append(s, e)) = Range(s) \cup {e}
           /\ IsInjective(s) /\ e \notin Range(s) => IsInjective(Append(s, e))
<1> DEFINE t == Append(s, e)
<1>1. t \in Seq(S) /\ Len(t) = Len(s) + 1
  OBVIOUS
<1>2. /\ DOMAIN t = 1..(Len(s) + 1)
      /\ DOMAIN s = 1..Len(s)
      /\ \A i \in 1..Len(s) : t[i] = s[i]
      /\ t[Len(s) + 1] = e
      /\ Len(s) \in Nat
  OBVIOUS
<1>3. Range(t) = Range(s) \cup {e}
  BY <1>2 DEF Range
<1>4. IsInjective(s) /\ e \notin Range(s) => IsInjective(t)
  BY <1>2 DEF Range, IsInjective
<1> QED
  BY <1>1, <1>3, <1>4

(* Cutting the buffer after n handles divides its handles in two.          *)
LEMMA SplitRange ==
    ASSUME NEW S, NEW s \in Seq(S), NEW n \in 0..Len(s)
    PROVE  LET front == SubSeq(s, 1, n)
               back == SubSeq(s, n + 1, Len(s))
           IN /\ front \in Seq(S) /\ back \in Seq(S)
              /\ Len(front) = n /\ Len(back) = Len(s) - n
              /\ Range(s) = Range(front) \cup Range(back)
              /\ IsInjective(s) => /\ IsInjective(back)
                                   /\ Range(front) \cap Range(back) = {}
<1> DEFINE front == SubSeq(s, 1, n)
           back == SubSeq(s, n + 1, Len(s))
<1>0. Len(s) \in Nat /\ n \in Nat /\ n <= Len(s)
  OBVIOUS
<1>1. /\ DOMAIN s = 1..Len(s)
      /\ \A i \in 1..Len(s) : s[i] \in S
  OBVIOUS
<1>2. /\ front \in Seq(S) /\ Len(front) = n
      /\ \A i \in 1..n : front[i] = s[i]
  BY <1>0, <1>1, SubSeqProperties
<1>3. /\ back \in Seq(S) /\ Len(back) = Len(s) - n
      /\ \A i \in 1..(Len(s) - n) : back[i] = s[n + i]
  <2> DEFINE m == n + 1
  <2>1. m \in Int /\ Len(s) \in Int /\ \A i \in m..Len(s) : s[i] \in S
    BY <1>0, <1>1
  <2> HIDE DEF m
  <2>2. /\ SubSeq(s, m, Len(s)) \in Seq(S)
        /\ Len(SubSeq(s, m, Len(s))) = IF m <= Len(s) THEN Len(s) - m + 1 ELSE 0
        /\ \A i \in 1..(Len(s) - m + 1) : SubSeq(s, m, Len(s))[i] = s[m + i - 1]
    BY <2>1, SubSeqProperties
  <2>3. m = n + 1 /\ back = SubSeq(s, m, Len(s))
    BY DEF m
  <2> HIDE DEF back
  <2>4. back \in Seq(S) /\ Len(back) = Len(s) - n
    <3>1. (IF m <= Len(s) THEN Len(s) - m + 1 ELSE 0) = Len(s) - n
      BY <1>0, <2>3
    <3>2. back \in Seq(S) /\ Len(back) = IF m <= Len(s) THEN Len(s) - m + 1 ELSE 0
      BY <2>2, <2>3
    <3> QED
      BY <3>1, <3>2
  <2>5. ASSUME NEW i \in 1..(Len(s) - n) PROVE back[i] = s[n + i]
    <3>1. i \in 1..(Len(s) - m + 1) /\ m + i - 1 = n + i
      BY <1>0, <1>1, <2>3
    <3>2. back[i] = s[m + i - 1]
      BY <3>1, <2>2, <2>3
    <3> QED
      BY <3>1, <3>2
  <2> QED
    BY <2>4, <2>5
<1> HIDE DEF front, back
<1>4. /\ DOMAIN front = 1..n
      /\ DOMAIN back = 1..(Len(s) - n)
  BY <1>2, <1>3
<1>5. Range(front) = {s[i] : i \in 1..n}
  BY <1>2, <1>4 DEF Range
<1>6. Range(back) = {s[i] : i \in (n + 1)..Len(s)}
  <2>1. \A i \in 1..(Len(s) - n) : n + i \in (n + 1)..Len(s)
    BY <1>0, <1>1
  <2>2. \A i \in (n + 1)..Len(s) : i - n \in 1..(Len(s) - n) /\ n + (i - n) = i
    BY <1>0, <1>1
  <2>3. \A i \in (n + 1)..Len(s) : back[i - n] = s[i]
    BY <2>2, <1>3
  <2>4. ASSUME NEW x \in Range(back)
        PROVE  x \in {s[i] : i \in (n + 1)..Len(s)}
    <3>1. PICK i \in 1..(Len(s) - n) : x = back[i]
      BY <1>4 DEF Range
    <3>2. x = s[n + i] /\ n + i \in (n + 1)..Len(s)
      BY <3>1, <1>3, <2>1
    <3> QED
      BY <3>2
  <2>5. ASSUME NEW i \in (n + 1)..Len(s)
        PROVE  s[i] \in Range(back)
    <3>1. i - n \in DOMAIN back /\ back[i - n] = s[i]
      BY <1>4, <2>2, <2>3
    <3> QED
      BY <3>1 DEF Range
  <2> QED
    BY <2>4, <2>5
<1>7. Range(s) = Range(front) \cup Range(back)
  <2>1. 1..Len(s) = 1..n \cup (n + 1)..Len(s)
    BY <1>0, <1>1
  <2> QED
    BY <2>1, <1>0, <1>1, <1>5, <1>6 DEF Range
<1>8. ASSUME IsInjective(s)
      PROVE  IsInjective(back) /\ Range(front) \cap Range(back) = {}
  <2>1. \A i, j \in 1..(Len(s) - n) :
            n + i \in 1..Len(s) /\ n + j \in 1..Len(s) /\ (n + i = n + j => i = j)
    BY <1>0, <1>1
  <2>2. IsInjective(back)
    <3>1. ASSUME NEW i \in DOMAIN back, NEW j \in DOMAIN back, back[i] = back[j] PROVE i = j
      <4>1. i \in 1..(Len(s) - n) /\ j \in 1..(Len(s) - n)
        BY <1>4
      <4>2. s[n + i] = s[n + j]
        BY <1>3, <3>1, <4>1
      <4>3. n + i \in DOMAIN s /\ n + j \in DOMAIN s
        BY <1>1, <2>1, <4>1
      <4>4. n + i = n + j
        BY <1>8, <4>2, <4>3 DEF IsInjective
      <4> QED
        BY <2>1, <4>1, <4>4
    <3> QED
      BY <3>1 DEF IsInjective
  <2>3. \A i \in 1..n, j \in (n + 1)..Len(s) :
            i \in 1..Len(s) /\ j \in 1..Len(s) /\ i # j
    BY <1>0, <1>1
  <2>4. Range(front) \cap Range(back) = {}
    BY <2>3, <1>8, <1>0, <1>1, <1>5, <1>6 DEF IsInjective
  <2> QED
    BY <2>2, <2>4
<1> QED
  BY <1>2, <1>3, <1>7, <1>8 DEF front, back

-----------------------------------------------------------------------------
(* The inductive invariant. *)

(* Where an accepted handle is: pending, or else in a call that is under   *)
(* way or has returned.                                                    *)
InCall(h) == \E a \in Actors : h \in Range(call[a])

HandlesTracked == \A h \in Handles :
    h \in accepted <=> h \in Range(pending) \/ h \in settled \/ InCall(h)

CallsInProgress == \A a \in Actors : pc[a] # "delete" => call[a] = <<>>

(* The order of a shutdown: closed, done, the last flush, the return.      *)
ShutdownOrder ==
    /\ \A c \in Closers : closer[c] = "signal" => closed
    /\ done => closed
    /\ stopping => done
    /\ pc[Flusher] = "exited" => stopping /\ pending = <<>>
    /\ \A c \in Closers : closer[c] = "returned" => pc[Flusher] = "exited"

IInv == /\ TypeOK
        /\ ExactlyOnce
        /\ NoLostWakeup
        /\ HandlesTracked
        /\ CallsInProgress
        /\ ShutdownOrder

-----------------------------------------------------------------------------
(* The flusher is an actor, and no worker is the flusher.                  *)
LEMMA ActorFacts ==
    /\ Flusher \in Actors
    /\ \A w \in Workers : w \in Actors /\ w # Flusher
  BY BatcherAssumption DEF BatcherAssumption, Actors

(* Every variable keeps its type.                                          *)
LEMMA TypeStep == TypeOK /\ [Next]_vars => TypeOK'
<1> SUFFICES ASSUME TypeOK, [Next]_vars PROVE TypeOK'
  OBVIOUS
<1> USE ActorFacts DEF TypeOK
<1>1. ASSUME NEW w \in Workers, NEW h \in Handles, AddBuffered(w, h) PROVE TypeOK'
  BY <1>1, AppendRange DEF AddBuffered, Full, Goto
<1>2. ASSUME NEW w \in Workers, NEW h \in Handles, AddLate(w, h) PROVE TypeOK'
  BY <1>2 DEF AddLate, DeleteNow, Goto
<1>3. ASSUME NEW w \in Workers, Signal(w) PROVE TypeOK'
  BY <1>3 DEF Signal, Goto
<1>4. ASSUME NEW a \in Actors, DeleteReturns(a) PROVE TypeOK'
  <2>1. Range(call[a]) \subseteq Handles
    BY <1>4 DEF DeleteReturns, Range
  <2> QED
    BY <1>4, <2>1 DEF DeleteReturns, AfterDelete, Goto, Actors
<1>5. CASE Tick
  BY <1>5 DEF Tick
<1>6. CASE RecvKick
  BY <1>6 DEF RecvKick, Goto
<1>7. CASE RecvTick
  BY <1>7 DEF RecvTick, Goto
<1>8. CASE RecvDone
  BY <1>8 DEF RecvDone, Goto
<1>9. CASE FlushTake
  <2> DEFINE n == IF Len(pending) > MaxSize THEN MaxSize ELSE Len(pending)
  <2>1. n \in 0..Len(pending)
    BY MaxSizeType
  <2>2. /\ SubSeq(pending, 1, n) \in Seq(Handles)
        /\ SubSeq(pending, n + 1, Len(pending)) \in Seq(Handles)
    BY <2>1, SplitRange
  <2>3. /\ pending' = SubSeq(pending, n + 1, Len(pending))
        /\ DeleteNow(Flusher, SubSeq(pending, 1, n))
        /\ UNCHANGED <<closed, kick, done, tick, stopping, closer, accepted, settled>>
    BY <1>9 DEF FlushTake, Rest
  <2> HIDE DEF n
  <2> QED
    BY <2>2, <2>3 DEF DeleteNow, Goto
<1>10. CASE FlushEmpty
  BY <1>10 DEF FlushEmpty, Goto
<1>11. ASSUME NEW c \in Closers, Close(c) PROVE TypeOK'
  BY <1>11 DEF Close
<1>12. ASSUME NEW c \in Closers, CloseDone(c) PROVE TypeOK'
  BY <1>12 DEF CloseDone
<1>13. ASSUME NEW c \in Closers, CloseReturns(c) PROVE TypeOK'
  BY <1>13 DEF CloseReturns
<1>14. CASE UNCHANGED vars
  BY <1>14 DEF vars
<1> QED
  BY <1>1, <1>2, <1>3, <1>4, <1>5, <1>6, <1>7, <1>8, <1>9, <1>10, <1>11, <1>12,
     <1>13, <1>14 DEF Next, Terminated

(* ... from the initial state on,                                          *)
LEMMA InitType == Init => TypeOK
<1> SUFFICES ASSUME Init PROVE TypeOK
  OBVIOUS
<1>1. pending \in Seq(Handles) /\ call \in [Actors -> Seq(Handles)]
  BY DEF Init
<1>2. /\ pc \in [Actors -> {"idle", "signal", "delete", "select", "flush", "exited"}]
      /\ \A w \in Workers : pc[w] \in {"idle", "signal", "delete"}
      /\ pc[Flusher] \in {"select", "flush", "delete", "exited"}
  BY ActorFacts DEF Init
<1>3. /\ closer \in [Closers -> {"idle", "signal", "wait", "returned"}]
      /\ calls \in [Handles -> Nat]
      /\ accepted \in SUBSET Handles
      /\ settled \in SUBSET Handles
  BY DEF Init
<1> QED
  BY <1>1, <1>2, <1>3 DEF Init, TypeOK

(* The type invariant, for every number of handles, workers and closers.   *)
THEOREM TypeCorrect == Spec => []TypeOK
  BY InitType, TypeStep, PTL DEF Spec

-----------------------------------------------------------------------------
(* Only an actor inside deleteNow has entries in a call.                   *)
LEMMA CallsStep == TypeOK /\ CallsInProgress /\ [Next]_vars => CallsInProgress'
<1> SUFFICES ASSUME TypeOK, CallsInProgress, [Next]_vars PROVE CallsInProgress'
  OBVIOUS
<1> USE ActorFacts DEF TypeOK, CallsInProgress, Goto
<1>1. ASSUME NEW w \in Workers, NEW h \in Handles, AddBuffered(w, h) PROVE CallsInProgress'
  BY <1>1 DEF AddBuffered, Full
<1>2. ASSUME NEW w \in Workers, NEW h \in Handles, AddLate(w, h) PROVE CallsInProgress'
  BY <1>2 DEF AddLate, DeleteNow
<1>3. ASSUME NEW w \in Workers, Signal(w) PROVE CallsInProgress'
  BY <1>3 DEF Signal
<1>4. ASSUME NEW a \in Actors, DeleteReturns(a) PROVE CallsInProgress'
  BY <1>4 DEF DeleteReturns, AfterDelete
<1>5. CASE RecvKick \/ RecvTick \/ RecvDone
  BY <1>5 DEF RecvKick, RecvTick, RecvDone
<1>6. CASE FlushTake
  BY <1>6 DEF FlushTake, Rest, DeleteNow
<1>7. CASE FlushEmpty
  BY <1>7 DEF FlushEmpty
<1>8. CASE \/ Tick
           \/ \E c \in Closers : Close(c) \/ CloseDone(c) \/ CloseReturns(c)
           \/ UNCHANGED vars
  BY <1>8 DEF Tick, Close, CloseDone, CloseReturns, vars
<1> QED
  BY <1>1, <1>2, <1>3, <1>4, <1>5, <1>6, <1>7, <1>8 DEF Next, Terminated

(* The flusher leaves only after closed and done, with the buffer empty,   *)
(* and the buffer stays empty because add no longer uses it.               *)
LEMMA ShutdownStep == TypeOK /\ ShutdownOrder /\ [Next]_vars => ShutdownOrder'
<1> SUFFICES ASSUME TypeOK, ShutdownOrder, [Next]_vars PROVE ShutdownOrder'
  OBVIOUS
<1> USE ActorFacts DEF TypeOK, ShutdownOrder, Goto
<1>1. ASSUME NEW w \in Workers, NEW h \in Handles, AddBuffered(w, h) PROVE ShutdownOrder'
  BY <1>1 DEF AddBuffered, Full
<1>2. ASSUME NEW w \in Workers, NEW h \in Handles, AddLate(w, h) PROVE ShutdownOrder'
  BY <1>2 DEF AddLate, DeleteNow
<1>3. ASSUME NEW w \in Workers, Signal(w) PROVE ShutdownOrder'
  BY <1>3 DEF Signal
<1>4. ASSUME NEW a \in Actors, DeleteReturns(a) PROVE ShutdownOrder'
  BY <1>4 DEF DeleteReturns, AfterDelete
<1>5. CASE Tick \/ RecvKick \/ RecvTick \/ RecvDone
  BY <1>5 DEF Tick, RecvKick, RecvTick, RecvDone
<1>6. CASE FlushTake
  BY <1>6 DEF FlushTake, Rest, DeleteNow
<1>7. CASE FlushEmpty
  BY <1>7 DEF FlushEmpty
<1>8. ASSUME NEW c \in Closers, Close(c) \/ CloseDone(c) PROVE ShutdownOrder'
  BY <1>8 DEF Close, CloseDone
<1>9. ASSUME NEW c \in Closers, CloseReturns(c) PROVE ShutdownOrder'
  BY <1>9 DEF CloseReturns
<1>10. CASE UNCHANGED vars
  BY <1>10 DEF vars
<1> QED
  BY <1>1, <1>2, <1>3, <1>4, <1>5, <1>6, <1>7, <1>8, <1>9, <1>10 DEF Next, Terminated

(* Whoever fills the buffer owes a kick, and the kick or the flusher's own *)
(* loop is still due until the buffer is below MaxSize again.              *)
LEMMA WakeupStep == TypeOK /\ NoLostWakeup /\ [Next]_vars => NoLostWakeup'
<1> SUFFICES ASSUME TypeOK, NoLostWakeup, [Next]_vars PROVE NoLostWakeup'
  OBVIOUS
<1> USE ActorFacts DEF TypeOK, NoLostWakeup, Goto
<1>1. ASSUME NEW w \in Workers, NEW h \in Handles, AddBuffered(w, h) PROVE NoLostWakeup'
  <2>1. CASE Len(pending') >= MaxSize
    BY <1>1, <2>1 DEF AddBuffered, Full
  <2>2. CASE ~(Len(pending') >= MaxSize)
    BY <2>2
  <2> QED
    BY <2>1, <2>2
<1>2. ASSUME NEW w \in Workers, NEW h \in Handles, AddLate(w, h) PROVE NoLostWakeup'
  BY <1>2 DEF AddLate, DeleteNow
<1>3. ASSUME NEW w \in Workers, Signal(w) PROVE NoLostWakeup'
  BY <1>3 DEF Signal
<1>4. ASSUME NEW a \in Actors, DeleteReturns(a) PROVE NoLostWakeup'
  BY <1>4 DEF DeleteReturns, AfterDelete
<1>5. CASE Tick \/ RecvKick \/ RecvTick \/ RecvDone
  BY <1>5 DEF Tick, RecvKick, RecvTick, RecvDone
<1>6. CASE FlushTake
  BY <1>6 DEF FlushTake, Rest, DeleteNow
<1>7. CASE FlushEmpty
  <2>1. Len(pending') = 0
    BY <1>7 DEF FlushEmpty
  <2> QED
    BY <2>1, MaxSizeType
<1>8. CASE \/ \E c \in Closers : Close(c) \/ CloseDone(c) \/ CloseReturns(c)
           \/ UNCHANGED vars
  BY <1>8 DEF Close, CloseDone, CloseReturns, vars
<1> QED
  BY <1>1, <1>2, <1>3, <1>4, <1>5, <1>6, <1>7, <1>8 DEF Next, Terminated

-----------------------------------------------------------------------------
(* Replacing the entries of one actor's call leaves the other calls alone. *)
LEMMA CallUpdate ==
    ASSUME TypeOK, NEW a \in Actors, NEW s \in Seq(Handles),
           call' = [call EXCEPT ![a] = s]
    PROVE  \A h \in Handles :
               /\ InCall(h)' <=> h \in Range(s) \/ \E b \in Actors \ {a} : h \in Range(call[b])
               /\ InCall(h) <=> h \in Range(call[a])
                                    \/ \E b \in Actors \ {a} : h \in Range(call[b])
<1>1. call'[a] = s /\ \A b \in Actors \ {a} : call'[b] = call[b]
  BY DEF TypeOK
<1> QED
  BY <1>1 DEF InCall

(* A handle moves from the outside into pending or into a call, from       *)
(* pending into the flusher's call, and from a call into settled: in each  *)
(* of these steps it leaves the one place when it enters the other.        *)
LEMMA HandlesStep ==
    TypeOK /\ CallsInProgress /\ HandlesTracked /\ ExactlyOnce /\ [Next]_vars
        => HandlesTracked' /\ ExactlyOnce'
<1> SUFFICES ASSUME TypeOK, CallsInProgress, HandlesTracked, ExactlyOnce, [Next]_vars
             PROVE  HandlesTracked' /\ ExactlyOnce'
  OBVIOUS
<1> USE ActorFacts DEF TypeOK, HandlesTracked, ExactlyOnce
<1>1. ASSUME NEW w \in Workers, NEW h \in Handles, AddBuffered(w, h)
      PROVE  HandlesTracked' /\ ExactlyOnce'
  <2>1. /\ h \notin accepted /\ h \notin Range(pending)
        /\ accepted' = accepted \cup {h}
        /\ pending' = Append(pending, h)
        /\ UNCHANGED <<call, calls, settled>>
    BY <1>1 DEF AddBuffered, Full
  <2>2. /\ Range(pending') = Range(pending) \cup {h}
        /\ IsInjective(pending')
    BY <2>1, AppendRange
  <2>3. accepted' \ Range(pending') = accepted \ Range(pending)
    BY <2>1, <2>2
  <2>4. HandlesTracked'
    BY <2>1, <2>2 DEF InCall
  <2>5. ExactlyOnce'
    BY <2>1, <2>2, <2>3
  <2> QED
    BY <2>4, <2>5
<1>2. ASSUME NEW w \in Workers, NEW h \in Handles, AddLate(w, h)
      PROVE  HandlesTracked' /\ ExactlyOnce'
  <2>1. /\ pc[w] = "idle"
        /\ h \notin accepted /\ h \notin Range(pending)
        /\ accepted' = accepted \cup {h}
        /\ call' = [call EXCEPT ![w] = <<h>>]
        /\ calls' = [x \in Handles |-> IF x \in Range(<<h>>) THEN calls[x] + 1 ELSE calls[x]]
        /\ UNCHANGED <<pending, settled>>
    BY <1>2 DEF AddLate, DeleteNow
  <2>2. Range(<<h>>) = {h} /\ Range(call[w]) = {}
    BY <2>1 DEF CallsInProgress, Range
  <2>3. \A x \in Handles : InCall(x)' <=> x = h \/ InCall(x)
    <3>1. <<h>> \in Seq(Handles) /\ w \in Actors
      OBVIOUS
    <3>2. \A x \in Handles :
              /\ InCall(x)' <=> x \in Range(<<h>>) \/ \E b \in Actors \ {w} : x \in Range(call[b])
              /\ InCall(x) <=> x \in Range(call[w]) \/ \E b \in Actors \ {w} : x \in Range(call[b])
      BY <3>1, <2>1, CallUpdate
    <3> QED
      BY <3>2, <2>2
  <2>4. HandlesTracked'
    BY <2>1, <2>3
  <2>5. ASSUME NEW x \in Handles
        PROVE  calls'[x] = IF x \in accepted' \ Range(pending') THEN 1 ELSE 0
    <3>1. calls[x] = IF x \in accepted \ Range(pending) THEN 1 ELSE 0
      OBVIOUS
    <3>2. calls'[x] = IF x = h THEN calls[x] + 1 ELSE calls[x]
      BY <2>1, <2>2
    <3>3. x \in accepted' \ Range(pending') <=> x = h \/ x \in accepted \ Range(pending)
      BY <2>1
    <3> QED
      BY <3>1, <3>2, <3>3, <2>1
  <2> QED
    BY <2>1, <2>4, <2>5
<1>3. ASSUME NEW a \in Actors, DeleteReturns(a)
      PROVE  HandlesTracked' /\ ExactlyOnce'
  <2>1. /\ settled' = settled \cup Range(call[a])
        /\ call' = [call EXCEPT ![a] = <<>>]
        /\ UNCHANGED <<pending, accepted, calls>>
    BY <1>3 DEF DeleteReturns, AfterDelete
  <2>2. Range(<<>>) = {}
    BY DEF Range
  <2>3. \A x \in Handles : InCall(x) <=> InCall(x)' \/ x \in Range(call[a])
    <3>1. <<>> \in Seq(Handles)
      OBVIOUS
    <3>2. \A x \in Handles :
              /\ InCall(x)' <=> x \in Range(<<>>) \/ \E b \in Actors \ {a} : x \in Range(call[b])
              /\ InCall(x) <=> x \in Range(call[a]) \/ \E b \in Actors \ {a} : x \in Range(call[b])
      BY <3>1, <2>1, CallUpdate
    <3> QED
      BY <3>2, <2>2
  <2>4. HandlesTracked'
    BY <2>1, <2>3
  <2>5. ExactlyOnce'
    BY <2>1
  <2> QED
    BY <2>4, <2>5
<1>4. CASE FlushTake
  <2> DEFINE n == IF Len(pending) > MaxSize THEN MaxSize ELSE Len(pending)
             front == SubSeq(pending, 1, n)
             back == SubSeq(pending, n + 1, Len(pending))
  <2>1. n \in 0..Len(pending)
    BY MaxSizeType
  <2>2. /\ pc[Flusher] = "flush"
        /\ pending' = back
        /\ call' = [call EXCEPT ![Flusher] = front]
        /\ calls' = [h \in Handles |-> IF h \in Range(front) THEN calls[h] + 1 ELSE calls[h]]
        /\ UNCHANGED <<accepted, settled>>
    BY <1>4 DEF FlushTake, Rest, DeleteNow
  <2>3. /\ front \in Seq(Handles)
        /\ Range(pending) = Range(front) \cup Range(back)
        /\ Range(front) \cap Range(back) = {}
        /\ IsInjective(back)
    BY <2>1, SplitRange
  <2> HIDE DEF n, front, back
  <2>4. Range(call[Flusher]) = {}
    BY <2>2 DEF CallsInProgress, Range
  <2>5. \A x \in Handles : InCall(x)' <=> x \in Range(front) \/ InCall(x)
    BY <2>2, <2>3, <2>4, CallUpdate
  <2>6. HandlesTracked'
    BY <2>2, <2>3, <2>5
  <2>7. ASSUME NEW x \in Handles
        PROVE  calls'[x] = IF x \in accepted' \ Range(pending') THEN 1 ELSE 0
    <3>1. calls[x] = IF x \in accepted \ Range(pending) THEN 1 ELSE 0
      OBVIOUS
    <3>2. calls'[x] = IF x \in Range(front) THEN calls[x] + 1 ELSE calls[x]
      BY <2>2
    <3>3. x \in Range(front) => x \in accepted
      BY <2>3
    <3> QED
      BY <3>1, <3>2, <3>3, <2>2, <2>3
  <2> QED
    BY <2>2, <2>3, <2>6, <2>7
<1>5. CASE \/ Tick \/ RecvKick \/ RecvTick \/ RecvDone \/ FlushEmpty
           \/ \E w \in Workers : Signal(w)
           \/ \E c \in Closers : Close(c) \/ CloseDone(c) \/ CloseReturns(c)
           \/ UNCHANGED vars
  <2>1. UNCHANGED <<pending, call, accepted, calls, settled>>
    BY <1>5 DEF Tick, RecvKick, RecvTick, RecvDone, FlushEmpty, Signal, Close, CloseDone,
                CloseReturns, vars
  <2> QED
    BY <2>1 DEF InCall
<1> QED
  BY <1>1, <1>2, <1>3, <1>4, <1>5 DEF Next, Terminated

-----------------------------------------------------------------------------
(* IInv holds in every reachable state...                                  *)
THEOREM Invariance == Spec => []IInv
<1>1. ASSUME Init PROVE IInv
  <2>1. Range(pending) = {} /\ IsInjective(pending) /\ Len(pending) = 0
    BY <1>1 DEF Init, Range, IsInjective
  <2>2. \A h \in Handles : ~InCall(h)
    BY <1>1 DEF Init, InCall, Range
  <2>3. ExactlyOnce /\ HandlesTracked
    BY <1>1, <2>1, <2>2 DEF Init, ExactlyOnce, HandlesTracked
  <2>4. NoLostWakeup
    BY <2>1, MaxSizeType DEF NoLostWakeup
  <2>5. CallsInProgress /\ ShutdownOrder
    BY <1>1, ActorFacts DEF Init, CallsInProgress, ShutdownOrder
  <2> QED
    BY <1>1, <2>3, <2>4, <2>5, InitType DEF IInv
<1>2. IInv /\ [Next]_vars => IInv'
  BY TypeStep, CallsStep, ShutdownStep, WakeupStep, HandlesStep DEF IInv
<1> QED
  BY <1>1, <1>2, PTL DEF Spec

(* ... and with it: no handle is dropped or deleted twice,                 *)
THEOREM ExactlyOnceHolds == Spec => []ExactlyOnce
<1>1. IInv => ExactlyOnce
  BY DEF IInv
<1> QED
  BY <1>1, Invariance, PTL

(* no full buffer is forgotten until the next tick,                        *)
THEOREM NoLostWakeupHolds == Spec => []NoLostWakeup
<1>1. IInv => NoLostWakeup
  BY DEF IInv
<1> QED
  BY <1>1, Invariance, PTL

(* and close returns only after every buffered handle has been sent.       *)
THEOREM CloseFlushesPendingHolds == Spec => []CloseFlushesPending
<1>1. ASSUME IInv, NEW c \in Closers, closer[c] = "returned"
      PROVE  /\ pc[Flusher] = "exited"
             /\ accepted = settled \cup UNION {Range(call[w]) : w \in Workers}
  <2>1. pc[Flusher] = "exited" /\ pending = <<>> /\ call[Flusher] = <<>>
    BY <1>1, ActorFacts DEF IInv, ShutdownOrder, CallsInProgress
  <2>2. Range(<<>>) = {}
    BY DEF Range
  <2>3. \A h \in Handles : InCall(h) <=> \E w \in Workers : h \in Range(call[w])
    BY <2>1, <2>2 DEF InCall, Actors
  <2>4. \A w \in Workers : Range(call[w]) \subseteq Handles
    BY <1>1, ActorFacts DEF IInv, TypeOK, Range
  <2>5. \A h \in Handles : h \in accepted <=> h \in settled \/ \E w \in Workers : h \in Range(call[w])
    BY <1>1, <2>1, <2>2, <2>3 DEF IInv, HandlesTracked
  <2>6. accepted \subseteq Handles /\ settled \subseteq Handles
    BY <1>1 DEF IInv, TypeOK
  <2> QED
    BY <2>1, <2>4, <2>5, <2>6
<1>2. IInv => CloseFlushesPending
  BY <1>1 DEF CloseFlushesPending
<1> QED
  BY <1>2, Invariance, PTL
=============================================================================
