----------------------------- MODULE QueueInput ------------------------------
(***************************************************************************)
(* What the package asks CreateQueue and CreateTopic for: the attributes   *)
(* of a queue or a topic (sqs/config.go, sns/config.go), and of a source   *)
(* queue the name of its dead-letter queue and the redrive policy          *)
(* (sqs/subscriber.go).                                                    *)
(***************************************************************************)
EXTENDS Naturals, Sequences

CONSTANTS Characters,      \* of queue names
          DlqSuffix,       \* "-dlq"
          FifoLength,      \* the length of ".fifo"
          NameLimit,       \* maxQueueNameLength
          AttributeTexts   \* values of attributes, the empty one included

NoText == ""

ASSUME QueueInputAssumption ==
    /\ DlqSuffix \in Seq(Characters)
    /\ DlqSuffix # <<>>
    /\ FifoLength \in Nat
    /\ NameLimit \in Nat
    /\ NameLimit > FifoLength + Len(DlqSuffix)
    /\ NoText \in AttributeTexts
    /\ "redrive to DeadLetterQueueNameDefault" \notin AttributeTexts

-----------------------------------------------------------------------------
(* A queue name is its stem and whether ".fifo" follows it.                *)
StemLimit(fifo) == IF fifo THEN NameLimit - FifoLength ELSE NameLimit

QueueNames == [fifo : BOOLEAN, stem : UNION {[1..n -> Characters] : n \in 0..NameLimit}]

(* The names SQS accepts.                                                  *)
LegalNames == {q \in QueueNames : Len(q.stem) \in 1..StemLimit(q.fifo)}

truncateQueueName(stem, limit) == SubSeq(stem, 1, IF Len(stem) <= limit THEN Len(stem) ELSE limit)

\* Mutant: the length of ".fifo" is forgotten.
FifoTooLong(q) == [q EXCEPT !.stem = truncateQueueName(@ \o DlqSuffix, NameLimit)]

DeadLetterQueueNameDefault(q) ==
    [q EXCEPT !.stem = truncateQueueName(@ \o DlqSuffix, StemLimit(q.fifo))]

-----------------------------------------------------------------------------
(* QueueConfigAttributes, ConfigAttributes of sns. DelaySeconds stands for *)
(* the fields that are texts, FifoQueue for those that are booleans.       *)
TextFields == {"DelaySeconds", "RedrivePolicy"}
BoolFields == {"FifoQueue"}
CustomKeys == {"RedrivePolicy", "FifoQueue", "custom"}

ConfigAttributes ==
    [texts  : [TextFields -> AttributeTexts],
     bools  : [BoolFields -> BOOLEAN],
     custom : UNION {[D -> AttributeTexts] : D \in SUBSET CustomKeys}]

Plain == [texts |-> [f \in TextFields |-> NoText], bools |-> [f \in BoolFields |-> FALSE], custom |-> <<>>]

\* Mutant: without "omitempty", which SQS refuses for FifoQueue.
BoolsAlways(a) == [f \in BoolFields |-> IF a.bools[f] THEN "true" ELSE "false"]

(* To JSON and back: "omitempty" leaves out empty texts and FALSE.         *)
TextsGiven(a) == [f \in {g \in TextFields : a.texts[g] # NoText} |-> a.texts[f]]
BoolsGiven(a) == [f \in {g \in BoolFields : a.bools[g]} |-> "true"]

(* What f has, and what g has besides. (The provers know no @@ of TLC.)    *)
Over(f, g) == [k \in DOMAIN f \cup DOMAIN g |-> IF k \in DOMAIN f THEN f[k] ELSE g[k]]

(* A custom attribute replaces the field of its name.                      *)
QueueAttributes(a) == Over(a.custom, Over(TextsGiven(a), BoolsGiven(a)))

(* The fields of a topic are texts, FifoTopic as well.                     *)
TopicAttributes(a) == Over(a.custom, TextsGiven(a))

(* The redrive policy that names the dead-letter queue; its                *)
(* maxReceiveCount is Valid (Configuration).                               *)
RedriveToDlq == "redrive to DeadLetterQueueNameDefault"
RedriveOnly == [k \in {"RedrivePolicy"} |-> RedriveToDlq]

\* Mutant: a redrive policy of the user is left alone.
UserPolicyWins(attrs) == Over(attrs, RedriveOnly)

WithRedrive(attrs) == Over(RedriveOnly, attrs)

-----------------------------------------------------------------------------
VARIABLES name,        \* of the queue or topic
          attributes,  \* of the configuration
          input        \* Attributes of the input, and what it is for

queueInputVars == <<name, attributes, input>>

Nothing == [for |-> "nothing", attributes |-> <<>>]

(* Each name that can be asked for, and each choice of attributes.         *)
QueueInputInit ==
    /\ \/ name \in LegalNames /\ attributes = Plain
       \/ name = (CHOOSE n \in LegalNames : ~n.fifo) /\ attributes \in ConfigAttributes
    /\ input = Nothing

Generate(for, attrs) ==
    /\ input = Nothing
    /\ input' = [for |-> for, attributes |-> attrs]
    /\ UNCHANGED <<name, attributes>>

(* createSourceQueue without and with a DeadLetterQueue; CreateTopic.      *)
GenerateQueue == Generate("queue", QueueAttributes(attributes))
GenerateSourceQueue ==
    Generate("source", WithRedrive(QueueAttributes(attributes)))
GenerateTopic == Generate("topic", TopicAttributes(attributes))

Generated == input # Nothing /\ UNCHANGED queueInputVars

QueueInputNext == GenerateQueue \/ GenerateSourceQueue \/ GenerateTopic \/ Generated

QueueInputSpec == QueueInputInit /\ [][QueueInputNext]_queueInputVars

-----------------------------------------------------------------------------
(* Properties. *)

(* A redrive policy names a queue that can exist: its name is one SQS      *)
(* takes, FIFO for a FIFO queue; unless the name of the source queue is as *)
(* long as it can be, it is another queue; and where the suffix fits, no   *)
(* other source queue shares it.                                           *)
FitsSuffix(q) == Len(q.stem) + Len(DlqSuffix) <= StemLimit(q.fifo)

DlqIsUsable == input.for = "source" =>
    LET target == DeadLetterQueueNameDefault(name)
    IN /\ target \in LegalNames
       /\ target.fifo = name.fifo
       /\ Len(name.stem) < StemLimit(name.fifo) => target # name
       /\ FitsSuffix(name) => \A other \in LegalNames :
             FitsSuffix(other) /\ DeadLetterQueueNameDefault(other) = target => other = name

(* A source queue with a dead-letter queue is created with the policy for  *)
(* it, whatever the fields and custom attributes say. Otherwise a custom   *)
(* attribute is in the input as it is; a text field that no custom         *)
(* attribute replaces is in it exactly if it is not empty, and a boolean   *)
(* field, which only queues have, exactly if it is set, and then is "true".*)
AskedIsSent == input # Nothing =>
    LET own == IF input.for = "source" THEN {"RedrivePolicy"} ELSE {}
    IN /\ \A k \in own : k \in DOMAIN input.attributes /\ input.attributes[k] = RedriveToDlq
       /\ \A k \in DOMAIN attributes.custom \ own :
             k \in DOMAIN input.attributes /\ input.attributes[k] = attributes.custom[k]
       /\ \A f \in TextFields \ (own \cup DOMAIN attributes.custom) :
             /\ f \in DOMAIN input.attributes <=> attributes.texts[f] # NoText
             /\ f \in DOMAIN input.attributes => input.attributes[f] = attributes.texts[f]
       /\ input.for # "topic" => \A f \in BoolFields \ DOMAIN attributes.custom :
             /\ f \in DOMAIN input.attributes <=> attributes.bools[f]
             /\ f \in DOMAIN input.attributes => input.attributes[f] = "true"
=============================================================================
