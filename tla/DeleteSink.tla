----------------------------- MODULE DeleteSink -----------------------------
(***************************************************************************)
(* What a delete batcher promises the workers that feed it, without saying *)
(* how: a receipt handle that was handed over is sent to SQS exactly once, *)
(* in a DeleteMessageBatch call of bounded size, and close does not return *)
(* while a handle that was buffered has not been through its call.         *)
(*                                                                         *)
(* DeleteBatcher implements this specification (see DeleteBatcher!Sink).   *)
(***************************************************************************)
EXTENDS Integers, FiniteSets

CONSTANTS Handles,   \* receipt handles of acked deliveries
          MaxSize    \* the largest number of entries in one call

VARIABLES phase,       \* where each handle is on its way to SQS
          sinkClosed,  \* close has begun
          drained      \* some call of close has returned

sinkVars == <<phase, sinkClosed, drained>>

Phase == {"new", "buffered", "sent", "late", "settled"}

SinkTypeOK == /\ phase \in [Handles -> Phase]
              /\ sinkClosed \in BOOLEAN
              /\ drained \in BOOLEAN

InPhase(p) == {h \in Handles : phase[h] = p}

Advance(S, p) == phase' = [h \in Handles |-> IF h \in S THEN p ELSE phase[h]]

SinkInit == /\ phase = [h \in Handles |-> "new"]
            /\ sinkClosed = FALSE
            /\ drained = FALSE

-----------------------------------------------------------------------------
(* An acked handle is buffered while the sink is open; once it is closed   *)
(* the caller of add sends the handle itself, in a call of its own.        *)
Accept(h) == /\ phase[h] = "new"
             /\ Advance({h}, IF sinkClosed THEN "late" ELSE "buffered")
             /\ UNCHANGED <<sinkClosed, drained>>

Send(S) == /\ S # {}
           /\ S \subseteq InPhase("buffered")
           /\ Cardinality(S) <= MaxSize
           /\ Advance(S, "sent")
           /\ UNCHANGED <<sinkClosed, drained>>

(* A call returned. Whether SQS deleted the messages is not the sink's     *)
(* concern: a failed delete is a redelivery, never a second call.          *)
Settle(S) == /\ S # {}
             /\ \/ S = InPhase("sent")
                \/ \E h \in InPhase("late") : S = {h}
             /\ Advance(S, "settled")
             /\ UNCHANGED <<sinkClosed, drained>>

BeginClose == /\ ~sinkClosed
              /\ sinkClosed' = TRUE
              /\ UNCHANGED <<phase, drained>>

EndClose == /\ sinkClosed
            /\ InPhase("buffered") \cup InPhase("sent") = {}
            /\ drained' = TRUE
            /\ UNCHANGED <<phase, sinkClosed>>

SinkNext == \/ \E h \in Handles : Accept(h)
            \/ \E S \in SUBSET Handles : Send(S) \/ Settle(S)
            \/ BeginClose
            \/ EndClose

SinkSpec == SinkInit /\ [][SinkNext]_sinkVars
=============================================================================
