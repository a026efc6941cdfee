------------------------------ MODULE Marshaler ------------------------------
(***************************************************************************)
(* sqs/marshaler.go and sns/marshaler.go: how a Watermill message becomes  *)
(* a message of SQS or the input of sns.Publish, and how what arrives in a *)
(* queue, published by Watermill or not, becomes a Watermill message.      *)
(* Metadata and message attributes are partial functions on Keys.          *)
(***************************************************************************)
EXTENDS Naturals, Functions

CONSTANTS Keys,         \* keys of metadata and of message attributes
          ForeignKeys,  \* the keys that other publishers use here
          Values,       \* UUIDs, payloads, and the values of metadata
          MaxHops       \* bound on how often a message is published

UUIDAttribute == "_watermill_message_uuid"
DeduplicationId == "MessageDeduplicationId"
GroupId == "MessageGroupId"

(* A Go pointer that is nil; the text it is read as where nil is allowed.  *)
Nil == "nil"
Empty == ""

ASSUME MarshalerAssumption ==
    /\ {UUIDAttribute, DeduplicationId, GroupId} \subseteq Keys
    /\ ForeignKeys \subseteq Keys
    /\ Empty \in Values
    /\ Nil \notin Values
    /\ MaxHops \in Nat

PartialFunctions(D, R) == UNION {[S -> R] : S \in SUBSET D}
Without(f, S) == Restrict(f, DOMAIN f \ S)

WatermillMessages == [uuid : Values, payload : Values, metadata : PartialFunctions(Keys, Values)]

(* types.MessageAttributeValue: "other" stands for every DataType that the *)
(* package has no name for, such as a custom "String.x".                   *)
AttributeValues == [type : {Nil, "String", "Number", "Binary", "other"},
                    string : Values \cup {Nil},
                    binary : Values \cup {Nil}]

(* What a queue may hold: SQS gives each message an id.                    *)
SqsMessages == [id : Values \cup {Nil}, body : Values \cup {Nil},
                attributes : PartialFunctions(ForeignKeys, AttributeValues)]

-----------------------------------------------------------------------------
StringAttribute(value) == [type |-> "String", string |-> value, binary |-> Nil]

metadataToAttributes(meta) == [k \in DOMAIN meta |-> StringAttribute(meta[k])]

\* Mutant: metadata may overwrite the UUID.
MetadataWins(attributes, uuid) ==
    [k \in DOMAIN attributes \cup {UUIDAttribute} |->
        IF k \in DOMAIN attributes THEN attributes[k] ELSE StringAttribute(uuid)]

(* attributes[UUIDAttribute] = uuid, after the metadata.                   *)
WithUUID(attributes, uuid) ==
    [k \in DOMAIN attributes \cup {UUIDAttribute} |->
        IF k = UUIDAttribute THEN StringAttribute(uuid) ELSE attributes[k]]

Marshal(msg) ==
    [id         |-> Nil,
     body       |-> msg.payload,
     attributes |-> WithUUID(metadataToAttributes(msg.metadata), msg.uuid)]

TextOf(pointer) == IF pointer = Nil THEN Empty ELSE pointer

(* The attributes attributesToMetadata does not skip.                      *)
Readable(a) == \/ a.type \in {"String", "Number"} /\ a.string # Nil
               \/ a.type = "Binary"

attributesToMetadata(attributes) ==
    [k \in {j \in DOMAIN attributes : Readable(attributes[j])} |->
        IF attributes[k].type = "Binary" THEN TextOf(attributes[k].binary)
                                         ELSE attributes[k].string]

(* Unmarshal dereferences the StringValue of the UUID, whatever its type.  *)
Panics(m) == UUIDAttribute \in DOMAIN m.attributes /\ m.attributes[UUIDAttribute].string = Nil

\* Mutant: a message of another publisher gets no UUID.
NoFallback(m) == IF UUIDAttribute \in DOMAIN m.attributes
                 THEN m.attributes[UUIDAttribute].string ELSE Empty

UUIDOf(m) == IF UUIDAttribute \in DOMAIN m.attributes
             THEN m.attributes[UUIDAttribute].string ELSE TextOf(m.id)

Unmarshal(m) ==
    [uuid     |-> UUIDOf(m),
     payload  |-> TextOf(m.body),
     metadata |-> Without(attributesToMetadata(m.attributes), {UUIDAttribute})]

-----------------------------------------------------------------------------
(* SNS has parameters of its own for these two, sent as no attribute.      *)
SpecialKeys == {DeduplicationId, GroupId}

snsMetadataToAttributes(meta) == metadataToAttributes(Without(meta, SpecialKeys))

ParameterOf(meta, k) == IF k \in DOMAIN meta THEN meta[k] ELSE Nil

SnsMarshal(msg) ==
    [message    |-> msg.payload,
     attributes |-> WithUUID(snsMetadataToAttributes(msg.metadata), msg.uuid),
     dedup      |-> ParameterOf(msg.metadata, DeduplicationId),
     group      |-> ParameterOf(msg.metadata, GroupId)]

(* What SQS hands to a consumer of a message that was sent to it, and of   *)
(* one that SNS forwarded with RawMessageDelivery, which                   *)
(* GenerateSubscribeInputDefault asks for.                                 *)
Sent(m, id) == [m EXCEPT !.id = id]
RawDelivery(input, id) == [id |-> id, body |-> input.message, attributes |-> input.attributes]

-----------------------------------------------------------------------------
(* The way of one message: published by a program with this package or by  *)
(* another one, received by a program with this package, published again.  *)
VARIABLES place,    \* "program", "queue", or "panic": Unmarshal panicked
          message,  \* what the program has
          wire,     \* what the queue holds
          hops,     \* how often it was published by this package
          origin,   \* history: the first Watermill message there was of it
          foreign,  \* history: it was another program's at first
          viaSns    \* history: it has been through SNS

marshalerVars == <<place, message, wire, hops, origin, foreign, viaSns>>

Blank == [uuid |-> Empty, payload |-> Empty, metadata |-> <<>>]
NoWire == [id |-> Nil, body |-> Nil, attributes |-> <<>>]

MarshalerInit ==
    /\ \/ place = "program" /\ message \in WatermillMessages /\ wire = NoWire
       \/ place = "queue" /\ message = Blank /\ wire \in SqsMessages
    /\ origin = message
    /\ foreign = (place = "queue")
    /\ hops = 0
    /\ viaSns = FALSE

Publish(arrives) ==
    /\ place = "program"
    /\ hops < MaxHops
    /\ place' = "queue"
    /\ wire' = arrives
    /\ hops' = hops + 1
    /\ UNCHANGED <<message, origin, foreign>>

PublishToSqs == \E id \in Values : Publish(Sent(Marshal(message), id)) /\ UNCHANGED viaSns
PublishToSns == \E id \in Values : Publish(RawDelivery(SnsMarshal(message), id)) /\ viaSns' = TRUE

Receive ==
    /\ place = "queue"
    /\ ~Panics(wire)
    /\ place' = "program"
    /\ message' = Unmarshal(wire)
    /\ origin' = IF hops = 0 THEN message' ELSE origin
    /\ UNCHANGED <<wire, hops, foreign, viaSns>>

ReceivePanics ==
    /\ place = "queue"
    /\ Panics(wire)
    /\ place' = "panic"
    /\ UNCHANGED <<message, wire, hops, origin, foreign, viaSns>>

AtTheEnd ==
    /\ \/ place = "panic"
       \/ place = "program" /\ hops = MaxHops
    /\ UNCHANGED marshalerVars

MarshalerNext == PublishToSqs \/ PublishToSns \/ Receive \/ ReceivePanics \/ AtTheEnd

MarshalerSpec == MarshalerInit /\ [][MarshalerNext]_marshalerVars

-----------------------------------------------------------------------------
(* Properties. *)

(* However often a message is published, to SQS or SNS, and received: UUID *)
(* and payload are those of the first program, and of the metadata the     *)
(* reserved key is lost, even if the user used it (never the UUID), and    *)
(* after SNS the deduplication and group ids, which SNS keeps for itself.  *)
MessageSurvives == place = "program" =>
    LET lost == (IF hops = 0 THEN {} ELSE {UUIDAttribute}) \cup (IF viaSns THEN SpecialKeys ELSE {})
    IN message = [origin EXCEPT !.metadata = Without(@, lost)]

(* A message of another program gets through, with the id SQS gave it for  *)
(* a UUID and whatever its attributes are, unless it uses the reserved key *)
(* for something else; and Unmarshal never panics on one of this package.  *)
ForeignArrives ==
    /\ (place = "program" /\ foreign /\ hops = 0 /\ UUIDAttribute \notin DOMAIN wire.attributes) =>
          message.uuid = TextOf(wire.id)
    /\ place = "panic" =>
          hops = 0 /\ foreign /\ UUIDAttribute \in DOMAIN wire.attributes
=============================================================================
