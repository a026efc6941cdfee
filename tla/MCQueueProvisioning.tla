------------------------- MODULE MCQueueProvisioning -------------------------
(* Instances of QueueProvisioning for TLC. *)
EXTENDS QueueProvisioning

Cached    == [resolver |-> "byName", creates |-> TRUE]
Uncached  == [resolver |-> "byNameUncached", creates |-> TRUE]
Forbidden == [resolver |-> "byNameUncached", creates |-> FALSE]
Unknowing == [resolver |-> "generate", creates |-> TRUE]

(* Eight pairs: what the resolver knows matters while both clients may     *)
(* create queues, and who may create while both resolvers ask SQS.         *)
Pairs == [Clients -> {Cached, Unknowing}]
         \cup [Clients -> {Uncached, Forbidden}]
AllUnknowing == [Clients -> {Unknowing}]
=============================================================================
