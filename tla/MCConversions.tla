---------------------------- MODULE MCConversions ----------------------------
(* Instances of Marshaler, Configuration and QueueInput for TLC. They have *)
(* nothing to do with each other: a behaviour is one of any of the three,  *)
(* and the variables of the other two keep one value.                      *)
EXTENDS Marshaler, Configuration, QueueInput

(* The keys the marshalers treat apart, and one they do not.               *)
MetadataKeys == {UUIDAttribute, DeduplicationId, GroupId, "name"}
OthersKeys == {UUIDAttribute, "name"}

(* "-d" for "-dlq": stems of up to six characters can be their own prefix, *)
(* end in a part of the suffix, and be too long for it.                    *)
ShortSuffix == <<"-", "d">>

(* NoSleep, "not configured", and the boundary of MaxSize.                 *)
BoundaryAmounts == {-1, 0, 10, 11}

VARIABLE about  \* the module whose behaviour this is

NoMessage == /\ place = "queue" /\ message = Blank /\ wire = NoWire
             /\ origin = Blank /\ foreign = TRUE /\ hops = 0 /\ viaSns = FALSE
NoConfiguration == /\ stage = "given" /\ again = FALSE
                   /\ given = [kind |-> "sqsPublisher", hooks |-> [f \in Hooks.sqsPublisher |-> Unset]]
                   /\ config = given
NoQueueInput == name = [fifo |-> FALSE, stem |-> <<>>] /\ attributes = Plain /\ input = Nothing

Init == \/ about = "message" /\ MarshalerInit /\ NoConfiguration /\ NoQueueInput
        \/ about = "configuration" /\ NoMessage /\ ConfigurationInit /\ NoQueueInput
        \/ about = "input" /\ NoMessage /\ NoConfiguration /\ QueueInputInit

Next == /\ UNCHANGED about
        /\ \/ about = "message" /\ MarshalerNext /\ UNCHANGED <<configurationVars, queueInputVars>>
           \/ about = "configuration" /\ ConfigurationNext /\ UNCHANGED <<marshalerVars, queueInputVars>>
           \/ about = "input" /\ QueueInputNext /\ UNCHANGED <<marshalerVars, configurationVars>>

Spec == Init /\ [][Next]_<<about, marshalerVars, configurationVars, queueInputVars>>
=============================================================================
