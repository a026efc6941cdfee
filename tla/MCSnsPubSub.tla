----------------------------- MODULE MCSnsPubSub -----------------------------
(* Instances of SnsPubSub for TLC. *)
EXTENDS SnsPubSub, TLC

(* The topic "orders" of another account has the name of the client's own, *)
(* and GenerateSqsQueueNameEqualToTopicName maps both to one queue.        *)
Topics == {"orders", "ordersElsewhere"}
OwnTopic == [a \in Topics |-> "orders"]
QueueOfName == [a \in Topics |-> "ordersQueue"]

(* All calls are about the client's own topic, but for a Publish or a      *)
(* Subscribe.                                                              *)
OneElsewhere == {[c \in Calls |-> IF c \in elsewhere THEN "ordersElsewhere" ELSE "orders"] :
                    elsewhere \in {{}} \cup {{c} : c \in PublishCalls \cup SubscribeCalls}}

AllOn == [topic |-> TRUE, queue |-> TRUE, policy |-> TRUE, subscription |-> TRUE, cache |-> TRUE]

(* The default, and every deviation from it in one field.                  *)
OneOff == {AllOn} \cup {[AllOn EXCEPT ![f] = FALSE] : f \in DOMAIN AllOn}

(* Calls of Publish are interchangeable.                                   *)
Symmetry == Permutations(PublishCalls)
=============================================================================
