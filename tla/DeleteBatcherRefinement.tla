----------------------- MODULE DeleteBatcherRefinement -----------------------
(***************************************************************************)
(* DeleteBatcher implements DeleteSink, for any set of handles, workers    *)
(* and callers of close, and any MaxSize: every step of the batcher is a   *)
(* step of the sink, or leaves what the sink shows as it is. On top of the *)
(* invariants of DeleteBatcherProofs this needs that no handle is in two   *)
(* places at once.                                                         *)
(***************************************************************************)
EXTENDS DeleteBatcherProofs, FiniteSetTheorems

(* A handle is in pending, in one call, or settled, never in two of them.  *)
OnePlace == \A h \in Handles :
    /\ h \in Range(pending) => h \notin settled /\ ~InCall(h)
    /\ h \in settled => ~InCall(h)
    /\ \A a, b \in Actors : h \in Range(call[a]) /\ h \in Range(call[b]) => a = b

(* A worker deletes one handle at a time.                                  *)
LateAlone == \A w \in Workers : \A h, k \in Range(call[w]) : h = k

-----------------------------------------------------------------------------
(* A handle enters a place in the step in which it leaves the other.       *)
LEMMA OnePlaceStep == IInv /\ OnePlace /\ [Next]_vars => OnePlace'
<1> SUFFICES ASSUME IInv, OnePlace, [Next]_vars PROVE OnePlace'
  OBVIOUS
<1> USE ActorFacts
<1>0. TypeOK /\ HandlesTracked /\ CallsInProgress /\ ExactlyOnce
  BY DEF IInv
<1>1. ASSUME NEW w \in Workers, NEW h \in Handles, AddBuffered(w, h) PROVE OnePlace'
  <2>1. /\ h \notin accepted
        /\ pending' = Append(pending, h)
        /\ UNCHANGED <<call, settled>>
    BY <1>1 DEF AddBuffered, Full
  <2>2. Range(pending') = Range(pending) \cup {h}
    BY <1>0, <2>1, AppendRange DEF TypeOK
  <2>3. h \notin settled /\ ~InCall(h)
    BY <1>0, <2>1 DEF HandlesTracked
  <2> QED
    BY <2>1, <2>2, <2>3 DEF OnePlace, InCall
<1>2. ASSUME NEW w \in Workers, NEW h \in Handles, AddLate(w, h) PROVE OnePlace'
  <2>1. /\ h \notin accepted
        /\ call' = [call EXCEPT ![w] = <<h>>]
        /\ UNCHANGED <<pending, settled>>
    BY <1>2 DEF AddLate, DeleteNow
  <2>2. h \notin Range(pending) /\ h \notin settled /\ ~InCall(h)
    BY <1>0, <2>1 DEF HandlesTracked
  <2>3. Range(call'[w]) = {h} /\ \A b \in Actors \ {w} : call'[b] = call[b]
    <3>1. Range(<<h>>) = {h}
      BY DEF Range
    <3> QED
      BY <1>0, <2>1, <3>1 DEF TypeOK
  <2>4. \A x \in Handles : InCall(x)' => x = h \/ InCall(x)
    BY <2>3 DEF InCall
  <2>5. \A x \in Handles : \A a, b \in Actors :
            x \in Range(call'[a]) /\ x \in Range(call'[b]) => a = b
    BY <2>2, <2>3 DEF OnePlace, InCall
  <2> QED
    BY <2>1, <2>2, <2>4, <2>5 DEF OnePlace
<1>3. ASSUME NEW a \in Actors, DeleteReturns(a) PROVE OnePlace'
  <2>1. /\ settled' = settled \cup Range(call[a])
        /\ call' = [call EXCEPT ![a] = <<>>]
        /\ UNCHANGED pending
    BY <1>3 DEF DeleteReturns
  <2>2. Range(call'[a]) = {} /\ \A b \in Actors \ {a} : call'[b] = call[b]
    <3>1. Range(<<>>) = {}
      BY DEF Range
    <3> QED
      BY <1>0, <2>1, <3>1 DEF TypeOK
  <2>3. \A x \in Handles : InCall(x)' => InCall(x) /\ x \notin Range(call[a])
    BY <2>2 DEF InCall, OnePlace
  <2>4. \A x \in Handles : \A b, c \in Actors :
            x \in Range(call'[b]) /\ x \in Range(call'[c]) => b = c
    BY <2>2 DEF OnePlace
  <2>5. \A x \in Handles : x \in Range(call[a]) => InCall(x)
    BY DEF InCall
  <2> QED
    BY <2>1, <2>3, <2>4, <2>5 DEF OnePlace
<1>4. CASE FlushTake
  <2> DEFINE n == IF Len(pending) > MaxSize THEN MaxSize ELSE Len(pending)
             front == SubSeq(pending, 1, n)
             back == SubSeq(pending, n + 1, Len(pending))
  <2>1. n \in 0..Len(pending)
    BY <1>0, MaxSizeType DEF TypeOK
  <2>2. /\ pending' = back
        /\ call' = [call EXCEPT ![Flusher] = front]
        /\ UNCHANGED settled
    BY <1>4 DEF FlushTake, Rest, DeleteNow
  <2>3. /\ Range(pending) = Range(front) \cup Range(back)
        /\ Range(front) \cap Range(back) = {}
    BY <1>0, <2>1, SplitRange DEF TypeOK, ExactlyOnce
  <2> HIDE DEF n, front, back
  <2>4. Range(call'[Flusher]) = Range(front) /\ \A b \in Actors \ {Flusher} : call'[b] = call[b]
    BY <1>0, <2>2 DEF TypeOK
  <2>5. \A x \in Handles : InCall(x)' => x \in Range(front) \/ InCall(x)
    BY <2>4 DEF InCall
  <2>6. \A x \in Handles : x \in Range(front) => ~InCall(x) /\ x \notin settled
    BY <2>3 DEF OnePlace
  <2>7. \A x \in Handles : \A a, b \in Actors :
            x \in Range(call'[a]) /\ x \in Range(call'[b]) => a = b
    BY <2>4, <2>6 DEF OnePlace, InCall
  <2> QED
    BY <2>2, <2>3, <2>5, <2>6, <2>7 DEF OnePlace
<1>5. CASE \/ Tick \/ RecvKick \/ RecvTick \/ RecvDone \/ FlushEmpty
           \/ \E w \in Workers : Signal(w)
           \/ \E c \in Closers : Close(c) \/ CloseDone(c) \/ CloseReturns(c)
           \/ UNCHANGED vars
  <2>1. UNCHANGED <<pending, call, settled>>
    BY <1>5 DEF Tick, RecvKick, RecvTick, RecvDone, FlushEmpty, Signal, Close, CloseDone,
                CloseReturns, vars
  <2> QED
    BY <2>1 DEF OnePlace, InCall
<1> QED
  BY <1>1, <1>2, <1>3, <1>4, <1>5 DEF Next, Terminated

(* Only AddLate fills the call of a worker.                                *)
LEMMA LateAloneStep == TypeOK /\ LateAlone /\ [Next]_vars => LateAlone'
<1> SUFFICES ASSUME TypeOK, LateAlone, [Next]_vars PROVE LateAlone'
  OBVIOUS
<1> USE ActorFacts DEF LateAlone
<1>1. ASSUME NEW v \in Workers, NEW h \in Handles, AddLate(v, h) PROVE LateAlone'
  <2>1. /\ Range(<<h>>) = {h}
        /\ call' = [call EXCEPT ![v] = <<h>>]
    BY <1>1 DEF AddLate, DeleteNow, Range
  <2> QED
    BY <2>1 DEF TypeOK
<1>2. ASSUME NEW a \in Actors, DeleteReturns(a) PROVE LateAlone'
  <2>1. /\ Range(<<>>) = {}
        /\ call' = [call EXCEPT ![a] = <<>>]
    BY <1>2 DEF DeleteReturns, Range
  <2> QED
    BY <2>1 DEF TypeOK
<1>3. CASE FlushTake
  <2>1. \A w \in Workers : call'[w] = call[w]
    BY <1>3 DEF FlushTake, DeleteNow, TypeOK
  <2> QED
    BY <2>1
<1>4. CASE \/ Tick \/ RecvKick \/ RecvTick \/ RecvDone \/ FlushEmpty
           \/ \E w \in Workers : Signal(w) \/ \E h \in Handles : AddBuffered(w, h)
           \/ \E c \in Closers : Close(c) \/ CloseDone(c) \/ CloseReturns(c)
           \/ UNCHANGED vars
  <2>1. UNCHANGED call
    BY <1>4 DEF Tick, RecvKick, RecvTick, RecvDone, FlushEmpty, Signal, AddBuffered, Full,
                Close, CloseDone, CloseReturns, vars
  <2> QED
    BY <2>1
<1> QED
  BY <1>1, <1>2, <1>3, <1>4 DEF Next, Terminated

(* The invariants that the refinement needs hold in every state.           *)
LEMMA Apart == Spec => [](IInv /\ OnePlace /\ LateAlone)
<1>1. Init => OnePlace /\ LateAlone
  <2>1. Range(<<>>) = {}
    BY DEF Range
  <2> QED
    BY <2>1, ActorFacts DEF Init, OnePlace, LateAlone, InCall
<1>2. IInv => TypeOK
  BY DEF IInv
<1> QED
  BY <1>1, <1>2, Invariance, OnePlaceStep, LateAloneStep, PTL DEF Spec

-----------------------------------------------------------------------------
(* What the mapping shows of each handle. *)

Mapped == \A h \in Handles :
    /\ h \notin accepted => PhaseOf(h) = "new"
    /\ h \in Range(pending) => PhaseOf(h) = "buffered"
    /\ h \in Range(call[Flusher]) => PhaseOf(h) = "sent"
    /\ \A w \in Workers : h \in Range(call[w]) => PhaseOf(h) = "late"
    /\ h \in settled => PhaseOf(h) = "settled"

(* The place of a handle decides its phase, and there is no other place.   *)
LEMMA PlaceIsPhase == IInv /\ OnePlace => Mapped
<1> SUFFICES ASSUME IInv, OnePlace, NEW h \in Handles
             PROVE  /\ h \notin accepted => PhaseOf(h) = "new"
                    /\ h \in Range(pending) => PhaseOf(h) = "buffered"
                    /\ h \in Range(call[Flusher]) => PhaseOf(h) = "sent"
                    /\ \A w \in Workers : h \in Range(call[w]) => PhaseOf(h) = "late"
                    /\ h \in settled => PhaseOf(h) = "settled"
  BY DEF Mapped
<1> DEFINE late == \E w \in Workers : h \in Range(call[w])
<1>1. InCall(h) <=> h \in Range(call[Flusher]) \/ late
  BY ActorFacts DEF InCall, Actors
<1>2. h \in accepted <=> h \in Range(pending) \/ h \in settled \/ InCall(h)
  BY DEF IInv, HandlesTracked
<1>3. /\ h \in Range(pending) => h \notin settled /\ ~InCall(h)
      /\ h \in settled => ~InCall(h)
  BY DEF OnePlace
<1>4. ~(h \in Range(call[Flusher]) /\ late)
  BY ActorFacts DEF OnePlace
<1>5. PhaseOf(h) = CASE h \notin accepted -> "new"
                     [] h \in Range(pending) -> "buffered"
                     [] h \in Range(call[Flusher]) -> "sent"
                     [] late -> "late"
                     [] OTHER -> "settled"
  BY DEF PhaseOf
<1>6. \A w \in Workers : h \in Range(call[w]) => late
  OBVIOUS
<1> HIDE DEF late
<1>7. /\ h \notin accepted => PhaseOf(h) = "new"
      /\ h \in Range(pending) => PhaseOf(h) = "buffered"
      /\ h \in Range(call[Flusher]) => PhaseOf(h) = "sent"
      /\ late => PhaseOf(h) = "late"
      /\ h \in settled => PhaseOf(h) = "settled"
  BY <1>1, <1>2, <1>3, <1>4, <1>5
<1> QED
  BY <1>6, <1>7

(* A step that moves the handles of S to phase p, and no other, is what    *)
(* DeleteSink calls Advance.                                               *)
LEMMA AdvanceFromPhases ==
    ASSUME NEW S, NEW p,
           \A h \in Handles : PhaseOf(h)' = IF h \in S THEN p ELSE PhaseOf(h)
    PROVE  Sink!Advance(S, p)
  BY DEF Sink!Advance

(* A handle that stays where it is keeps its phase.                        *)
LEMMA SamePlaceSamePhase ==
    ASSUME NEW h \in Handles, IInv, Mapped, Mapped',
           h \in accepted' <=> h \in accepted,
           h \in Range(pending') <=> h \in Range(pending),
           h \in settled' <=> h \in settled,
           \A a \in Actors : h \in Range(call'[a]) <=> h \in Range(call[a])
    PROVE  PhaseOf(h)' = PhaseOf(h)
<1>1. h \in accepted <=> h \in Range(pending) \/ h \in settled \/ InCall(h)
  BY DEF IInv, HandlesTracked
<1>2. InCall(h) => h \in Range(call[Flusher]) \/ \E w \in Workers : h \in Range(call[w])
  BY DEF InCall, Actors
<1>3. CASE h \notin accepted
  BY <1>3 DEF Mapped
<1>4. CASE h \in Range(pending)
  BY <1>4 DEF Mapped
<1>5. CASE h \in settled
  BY <1>5 DEF Mapped
<1>6. CASE h \in Range(call[Flusher])
  BY <1>6, ActorFacts DEF Mapped
<1>7. ASSUME NEW w \in Workers, h \in Range(call[w]) PROVE PhaseOf(h)' = PhaseOf(h)
  BY <1>7, ActorFacts DEF Mapped
<1> QED
  BY <1>1, <1>2, <1>3, <1>4, <1>5, <1>6, <1>7

(* DeleteSink counts entries the way this module does.                     *)
LEMMA SinkCardinality == \A S : Sink!Cardinality(S) = Cardinality(S)
  BY DEF Sink!Cardinality, Cardinality

(* A batch of at most MaxSize handles is a call that SQS accepts.          *)
LEMMA BatchCardinality ==
    ASSUME NEW s \in Seq(Handles), Len(s) <= MaxSize
    PROVE  Cardinality(Range(s)) <= SqsMaxBatchSize
<1> DEFINE n == Len(s)
<1>1. n \in Nat /\ DOMAIN s = 1..n
  OBVIOUS
<1>2. s \in [1..n -> Range(s)] /\ \A x \in Range(s) : \E i \in 1..n : s[i] = x
  BY <1>1 DEF Range
<1>3. ExistsSurjection(1..n, Range(s))
  BY <1>2 DEF ExistsSurjection, Surjection
<1>4. Cardinality(Range(s)) <= n
  BY <1>1, <1>3, FS_SurjCardinalityBound
<1>5. Cardinality(Range(s)) \in Int
  BY <1>1, <1>3, FS_NatSurjection, FS_CardinalityType
<1> QED
  BY <1>1, <1>4, <1>5, MaxSizeType, BatcherAssumption DEF BatcherAssumption

-----------------------------------------------------------------------------
(* What holds on both sides of a step. *)
Facts == IInv /\ OnePlace /\ LateAlone /\ Mapped

(* add on an open batcher buffers the handle, on a closed one sends it.    *)
LEMMA AddAccepts ==
    ASSUME Facts, Facts', NEW w \in Workers, NEW h \in Handles,
           AddBuffered(w, h) \/ AddLate(w, h)
    PROVE  Sink!Accept(h)
<1> USE ActorFacts
<1>1. /\ h \notin accepted
      /\ accepted' = accepted \cup {h}
      /\ UNCHANGED <<settled, closed, closer>>
  BY DEF AddBuffered, AddLate
<1>2. PhaseOf(h) = "new"
  BY <1>1 DEF Facts, Mapped
<1>3. PhaseOf(h)' = IF closed THEN "late" ELSE "buffered"
  <2>1. CASE AddBuffered(w, h)
    <3>1. ~closed /\ pending' = Append(pending, h)
      BY <2>1 DEF AddBuffered, Full
    <3>2. h \in Range(pending')
      BY <3>1, AppendRange DEF Facts, IInv, TypeOK
    <3> QED
      BY <3>1, <3>2 DEF Facts, Mapped
  <2>2. CASE AddLate(w, h)
    <3>1. closed /\ call' = [call EXCEPT ![w] = <<h>>] /\ Range(<<h>>) = {h}
      BY <2>2 DEF AddLate, DeleteNow, Range
    <3>2. h \in Range(call'[w])
      BY <3>1 DEF Facts, IInv, TypeOK
    <3> QED
      BY <3>1, <3>2 DEF Facts, Mapped
  <2> QED
    BY <2>1, <2>2
<1>4. ASSUME NEW x \in Handles, x # h PROVE PhaseOf(x)' = PhaseOf(x)
  <2>1. x \in Range(pending') <=> x \in Range(pending)
    <3>1. CASE AddBuffered(w, h)
      <4>1. pending' = Append(pending, h)
        BY <3>1 DEF AddBuffered, Full
      <4> QED
        BY <1>4, <4>1, AppendRange DEF Facts, IInv, TypeOK
    <3>2. CASE AddLate(w, h)
      BY <3>2 DEF AddLate
    <3> QED
      BY <3>1, <3>2
  <2>2. ASSUME NEW a \in Actors PROVE x \in Range(call'[a]) <=> x \in Range(call[a])
    <3>1. CASE AddBuffered(w, h)
      BY <3>1 DEF AddBuffered, Full
    <3>2. CASE AddLate(w, h)
      <4>1. /\ call' = [call EXCEPT ![w] = <<h>>]
            /\ Range(<<h>>) = {h} /\ Range(<<>>) = {}
            /\ call[w] = <<>>
        BY <3>2 DEF AddLate, DeleteNow, Range, Facts, IInv, CallsInProgress
      <4> QED
        BY <1>4, <4>1 DEF Facts, IInv, TypeOK
    <3> QED
      BY <3>1, <3>2
  <2> QED
    BY <1>1, <1>4, <2>1, <2>2, SamePlaceSamePhase DEF Facts
<1>5. Sink!Advance({h}, IF closed THEN "late" ELSE "buffered")
  <2>1. \A x \in Handles : PhaseOf(x)' = IF x \in {h} THEN (IF closed THEN "late" ELSE "buffered")
                                                      ELSE PhaseOf(x)
    BY <1>3, <1>4
  <2> QED
    BY <2>1, AdvanceFromPhases
<1> QED
  BY <1>1, <1>2, <1>5 DEF Sink!Accept

(* A round of flush sends a batch: at most as many handles as SQS takes.   *)
LEMMA FlushSends ==
    ASSUME Facts, Facts', FlushTake
    PROVE  \E S \in SUBSET Handles : Sink!Send(S)
<1> DEFINE n == IF Len(pending) > MaxSize THEN MaxSize ELSE Len(pending)
           front == SubSeq(pending, 1, n)
           back == SubSeq(pending, n + 1, Len(pending))
           S == Range(front)
<1> USE ActorFacts
<1>0. pending \in Seq(Handles) /\ Len(pending) \in Nat /\ pending # <<>>
  BY DEF Facts, IInv, TypeOK, FlushTake
<1>1. n \in 0..Len(pending) /\ n <= MaxSize /\ n >= 1
  <2>1. Len(pending) >= 1
    BY <1>0
  <2> QED
    BY <1>0, <2>1, MaxSizeType
<1>2. /\ pc[Flusher] = "flush"
      /\ pending' = back
      /\ call' = [call EXCEPT ![Flusher] = front]
      /\ UNCHANGED <<accepted, settled, closed, closer>>
  BY DEF FlushTake, Rest, DeleteNow
<1>3. /\ front \in Seq(Handles) /\ Len(front) = n
      /\ Range(pending) = Range(front) \cup Range(back)
      /\ Range(front) \cap Range(back) = {}
  BY <1>0, <1>1, SplitRange DEF Facts, IInv, ExactlyOnce
<1> HIDE DEF n, front, back
<1>4. Cardinality(S) <= SqsMaxBatchSize
  BY <1>1, <1>3, BatchCardinality
<1>5. S # {} /\ S \subseteq Handles
  <2>1. front[1] \in Range(front) /\ Range(front) \subseteq Handles
    BY <1>1, <1>3 DEF Range
  <2> QED
    BY <2>1
<1>6. \A h \in S : PhaseOf(h) = "buffered"
  BY <1>3, <1>5 DEF Facts, Mapped
<1>7. call'[Flusher] = front /\ call[Flusher] = <<>> /\ \A w \in Workers : call'[w] = call[w]
  BY <1>2 DEF Facts, IInv, TypeOK, CallsInProgress
<1>8. ASSUME NEW h \in Handles PROVE PhaseOf(h)' = IF h \in S THEN "sent" ELSE PhaseOf(h)
  <2>1. CASE h \in S
    BY <1>7, <2>1 DEF Facts, Mapped
  <2>2. CASE h \notin S
    <3>1. Range(<<>>) = {}
      BY DEF Range
    <3>2. \A a \in Actors : h \in Range(call'[a]) <=> h \in Range(call[a])
      BY <1>7, <2>2, <3>1 DEF Actors
    <3>3. h \in Range(pending') <=> h \in Range(pending)
      BY <1>2, <1>3, <2>2
    <3>4. PhaseOf(h)' = PhaseOf(h)
      BY <1>2, <3>2, <3>3, SamePlaceSamePhase DEF Facts
    <3> QED
      BY <2>2, <3>4
  <2> QED
    BY <2>1, <2>2
<1> HIDE DEF S
<1>9. Sink!Advance(S, "sent")
  BY <1>8, AdvanceFromPhases
<1>10. S \subseteq Sink!InPhase("buffered")
  BY <1>5, <1>6 DEF Sink!InPhase
<1> QED
  <2>1. Sink!Cardinality(S) <= SqsMaxBatchSize
    BY <1>4, SinkCardinality
  <2>2. S \in SUBSET Handles /\ Sink!Send(S)
    BY <1>2, <1>5, <1>9, <1>10, <2>1 DEF Sink!Send
  <2> QED
    BY <2>2

(* A call that returns settles its entries: all that the flusher sent, or  *)
(* the one handle a worker sent. (A call has entries; the sink would not   *)
(* notice the return of one without.)                                      *)
LEMMA ReturnSettles ==
    ASSUME Facts, Facts', NEW a \in Actors, DeleteReturns(a)
    PROVE  (\E S \in SUBSET Handles : Sink!Settle(S)) \/ UNCHANGED Sink!sinkVars
<1> DEFINE S == Range(call[a])
<1> USE ActorFacts
<1>1. /\ settled' = settled \cup S
      /\ call' = [call EXCEPT ![a] = <<>>]
      /\ UNCHANGED <<pending, accepted, closed, closer>>
  BY DEF DeleteReturns
<1>2. S \subseteq Handles
  BY DEF Facts, IInv, TypeOK, Range
<1>3. Range(call'[a]) = {} /\ \A b \in Actors \ {a} : call'[b] = call[b]
  <2>1. Range(<<>>) = {}
    BY DEF Range
  <2> QED
    BY <1>1, <2>1 DEF Facts, IInv, TypeOK
<1>4. ASSUME NEW h \in Handles PROVE PhaseOf(h)' = IF h \in S THEN "settled" ELSE PhaseOf(h)
  <2>1. CASE h \in S
    BY <1>1, <2>1 DEF Facts, Mapped
  <2>2. CASE h \notin S
    <3>1. \A b \in Actors : h \in Range(call'[b]) <=> h \in Range(call[b])
      BY <1>3, <2>2
    <3>2. h \in settled' <=> h \in settled
      BY <1>1, <2>2
    <3>3. PhaseOf(h)' = PhaseOf(h)
      BY <1>1, <3>1, <3>2, SamePlaceSamePhase DEF Facts
    <3> QED
      BY <2>2, <3>3
  <2> QED
    BY <2>1, <2>2
<1>5. Sink!Advance(S, "settled")
  <2> HIDE DEF S
  <2> QED
    BY <1>4, AdvanceFromPhases
<1>6. CASE S = {}
  <2>1. \A h \in Handles : PhaseOf(h)' = PhaseOf(h)
    BY <1>4, <1>6
  <2>2. [h \in Handles |-> PhaseOf(h)]' = [h \in Handles |-> PhaseOf(h)]
    BY <2>1
  <2> QED
    BY <1>1, <2>2 DEF Sink!sinkVars
<1>7. CASE S # {} /\ a = Flusher
  <2>1. ASSUME NEW h \in Handles PROVE h \in S <=> PhaseOf(h) = "sent"
    <3>1. h \in accepted <=> h \in Range(pending) \/ h \in settled \/ InCall(h)
      BY DEF Facts, IInv, HandlesTracked
    <3>2. InCall(h) => h \in S \/ \E w \in Workers : h \in Range(call[w])
      BY <1>7 DEF InCall, Actors
    <3>3. h \in S => PhaseOf(h) = "sent"
      BY <1>7 DEF Facts, Mapped
    <3>4. ASSUME h \notin S PROVE PhaseOf(h) # "sent"
      <4>1. CASE \E w \in Workers : h \in Range(call[w])
        BY <4>1 DEF Facts, Mapped
      <4>2. CASE h \notin accepted \/ h \in Range(pending) \/ h \in settled
        BY <4>2 DEF Facts, Mapped
      <4> QED
        BY <3>1, <3>2, <3>4, <4>1, <4>2
    <3> QED
      BY <3>3, <3>4
  <2>2. S = Sink!InPhase("sent")
    <3> HIDE DEF S
    <3> QED
      BY <1>2, <2>1 DEF Sink!InPhase
  <2>3. Sink!Settle(S)
    BY <1>1, <1>5, <1>7, <2>2 DEF Sink!Settle
  <2> QED
    BY <1>2, <2>3
<1>8. CASE S # {} /\ a # Flusher
  <2>1. a \in Workers
    BY <1>8 DEF Actors
  <2>2. PICK h \in S : TRUE
    BY <1>8
  <2>3. S = {h}
    BY <2>1, <2>2 DEF Facts, LateAlone
  <2>4. h \in Sink!InPhase("late")
    BY <1>2, <2>1, <2>2 DEF Facts, Mapped, Sink!InPhase
  <2>5. Sink!Settle(S)
    BY <1>1, <1>5, <1>8, <2>3, <2>4 DEF Sink!Settle
  <2> QED
    BY <1>2, <2>5
<1> QED
  BY <1>6, <1>7, <1>8

(* What moves no handle and returns from no close is invisible.            *)
LEMMA Invisible ==
    ASSUME UNCHANGED <<accepted, pending, call, closed>>,
           (\E c \in Closers : closer'[c] = "returned") <=> \E c \in Closers : closer[c] = "returned"
    PROVE  UNCHANGED Sink!sinkVars
<1>1. \A h \in Handles : PhaseOf(h)' = PhaseOf(h)
  BY DEF PhaseOf
<1>2. [h \in Handles |-> PhaseOf(h)]' = [h \in Handles |-> PhaseOf(h)]
  BY <1>1
<1> QED
  BY <1>2 DEF Sink!sinkVars

(* The first close begins to close the sink; the others change nothing.    *)
LEMMA CloseBegins ==
    ASSUME Facts, NEW c \in Closers, Close(c)
    PROVE  Sink!BeginClose \/ UNCHANGED Sink!sinkVars
<1>1. /\ closed' = TRUE
      /\ UNCHANGED <<pending, call, accepted, settled>>
      /\ \A d \in Closers : closer'[d] = "returned" <=> closer[d] = "returned"
  BY DEF Close, Facts, IInv, TypeOK
<1>2. CASE closed
  BY <1>1, <1>2, Invisible DEF Facts, IInv, TypeOK
<1>3. CASE ~closed
  <2>1. [h \in Handles |-> PhaseOf(h)]' = [h \in Handles |-> PhaseOf(h)]
    <3>1. \A h \in Handles : PhaseOf(h)' = PhaseOf(h)
      BY <1>1 DEF PhaseOf
    <3> QED
      BY <3>1
  <2> QED
    BY <1>1, <1>3, <2>1 DEF Sink!BeginClose
<1> QED
  BY <1>2, <1>3

(* close returns when no handle is buffered or in the flusher's call.      *)
LEMMA CloseEnds ==
    ASSUME Facts, Facts', NEW c \in Closers, CloseReturns(c)
    PROVE  Sink!EndClose
<1> USE ActorFacts
<1>1. /\ pc[Flusher] = "exited"
      /\ closer'[c] = "returned"
      /\ UNCHANGED <<pending, call, accepted, settled, closed>>
  BY DEF CloseReturns, Facts, IInv, TypeOK
<1>2. closed /\ pending = <<>> /\ call[Flusher] = <<>>
  BY <1>1 DEF Facts, IInv, ShutdownOrder, CallsInProgress
<1>3. Range(<<>>) = {}
  BY DEF Range
<1>4. ASSUME NEW h \in Handles PROVE PhaseOf(h) # "buffered" /\ PhaseOf(h) # "sent"
  BY <1>2, <1>3 DEF PhaseOf
<1>5. Sink!InPhase("buffered") \cup Sink!InPhase("sent") = {}
  BY <1>4 DEF Sink!InPhase
<1>6. [h \in Handles |-> PhaseOf(h)]' = [h \in Handles |-> PhaseOf(h)]
  <2>1. \A h \in Handles : PhaseOf(h)' = PhaseOf(h)
    BY <1>1 DEF PhaseOf
  <2> QED
    BY <2>1
<1> QED
  BY <1>1, <1>2, <1>5, <1>6 DEF Sink!EndClose

-----------------------------------------------------------------------------
(* Every step of the batcher is one of the sink, or invisible to it.       *)
LEMMA StepSimulates ==
    ASSUME Facts, Facts', [Next]_vars
    PROVE  [Sink!SinkNext]_(Sink!sinkVars)
<1>1. ASSUME NEW w \in Workers, NEW h \in Handles, AddBuffered(w, h) \/ AddLate(w, h)
      PROVE  Sink!SinkNext
  BY <1>1, AddAccepts DEF Sink!SinkNext
<1>2. ASSUME NEW a \in Actors, DeleteReturns(a)
      PROVE  Sink!SinkNext \/ UNCHANGED Sink!sinkVars
  BY <1>2, ReturnSettles DEF Sink!SinkNext
<1>3. CASE FlushTake
  BY <1>3, FlushSends DEF Sink!SinkNext
<1>4. ASSUME NEW c \in Closers, Close(c)
      PROVE  Sink!SinkNext \/ UNCHANGED Sink!sinkVars
  BY <1>4, CloseBegins DEF Sink!SinkNext
<1>5. ASSUME NEW c \in Closers, CloseReturns(c)
      PROVE  Sink!SinkNext
  BY <1>5, CloseEnds DEF Sink!SinkNext
<1>6. ASSUME NEW c \in Closers, CloseDone(c)
      PROVE  UNCHANGED Sink!sinkVars
  <2>1. \A d \in Closers : closer'[d] = "returned" <=> closer[d] = "returned"
    BY <1>6 DEF CloseDone, Facts, IInv, TypeOK
  <2> QED
    BY <1>6, <2>1, Invisible DEF CloseDone
<1>7. CASE \/ Tick \/ RecvKick \/ RecvTick \/ RecvDone \/ FlushEmpty
           \/ \E w \in Workers : Signal(w)
           \/ UNCHANGED vars
  <2>1. UNCHANGED <<accepted, pending, call, closed, closer>>
    BY <1>7 DEF Tick, RecvKick, RecvTick, RecvDone, FlushEmpty, Signal, vars
  <2> QED
    BY <2>1, Invisible
<1> QED
  BY <1>1, <1>2, <1>3, <1>4, <1>5, <1>6, <1>7 DEF Next, Terminated

(* The refinement: whatever DeleteSink promises, the batcher keeps, and no *)
(* call has more entries than SQS accepts, whatever MaxSize is configured. *)
THEOREM Refinement == Spec => ImplementsSink
<1>1. Init => Sink!SinkInit
  <2>1. Range(<<>>) = {}
    BY DEF Range
  <2>2. Init => \A h \in Handles : PhaseOf(h) = "new"
    BY <2>1, ActorFacts DEF Init, PhaseOf
  <2> QED
    BY <2>2 DEF Init, Sink!SinkInit
<1>2. IInv /\ OnePlace /\ LateAlone => Facts
  BY PlaceIsPhase DEF Facts
<1>3. Facts /\ Facts' /\ [Next]_vars => [Sink!SinkNext]_(Sink!sinkVars)
  BY StepSimulates
<1> QED
  BY <1>1, <1>2, <1>3, Apart, PTL DEF Spec, ImplementsSink, Sink!SinkSpec
=============================================================================
