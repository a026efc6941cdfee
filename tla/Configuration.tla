---------------------------- MODULE Configuration ----------------------------
(***************************************************************************)
(* NewSubscriber and NewPublisher of packages sqs and sns, as far as their *)
(* configurations go: setDefaults fills in what is missing, Validate takes *)
(* the result or not. Functions, interfaces and credentials are hooks, set *)
(* or Unset; durations are numbers of milliseconds.                        *)
(***************************************************************************)
EXTENDS Integers

CONSTANT Amounts  \* the numbers a user may configure

ASSUME ConfigurationAssumption == Amounts \subseteq Int

Unset == "unset"
Default == "default"
Optional == {Unset, "user"}

(* The hooks each constructor calls later, or dereferences. "inputs" are   *)
(* GenerateCreateQueueInput and its like.                                  *)
Hooks == [sqsSubscriber |-> {"credentials", "unmarshaler", "resolver", "inputs"},
          sqsPublisher  |-> {"credentials", "marshaler", "resolver", "inputs"},
          snsSubscriber |-> {"credentials", "topicResolver", "queueName", "inputs"},
          snsPublisher  |-> {"credentials", "topicResolver", "marshaler", "inputs"}]

(* DeadLetterQueue and DeleteBatch are pointers, not given when nil.       *)
NotGiven == [given |-> FALSE]
DeadLetterConfigs == {NotGiven} \cup
    [given : {TRUE}, maxReceiveCount : Amounts, generateName : Optional]
DeleteBatchConfigs == {NotGiven} \cup
    [given : {TRUE}, maxSize : Amounts, linger : Amounts]

HookConfigs(kind) == [kind : {kind}, hooks : [Hooks[kind] -> Optional]]

SqsSubscriberConfigs ==
    [kind : {"sqsSubscriber"}, hooks : [Hooks.sqsSubscriber -> Optional],
     reconnectSleep : Amounts, consumeWorkers : Amounts, closeTimeout : Amounts,
     deadLetter : DeadLetterConfigs, deleteBatch : DeleteBatchConfigs]

Configurations == SqsSubscriberConfigs
                  \cup UNION {HookConfigs(k) : k \in DOMAIN Hooks \ {"sqsSubscriber"}}

VARIABLES stage,   \* of the call of the constructor
          given,   \* the configuration the user wrote
          config,  \* the constructor's copy of it
          again    \* the constructor is called for a second time

configurationVars == <<stage, given, config, again>>

ConfigurationInit ==
    /\ stage = "given"
    /\ given \in Configurations
    /\ config = given
    /\ again = FALSE

IsSqsSubscriber == given.kind = "sqsSubscriber"

-----------------------------------------------------------------------------
(* setDefaults                                                             *)
SqsBatchLimit == 10

\* Mutants: only a Linger of zero gets the default; NoSleep, which is
\* negative, is taken for "not configured".
ZeroLingerOnly(linger) == IF linger = 0 THEN 500 ELSE linger
SleepAlways(sleep) == IF sleep <= 0 THEN 1000 ELSE sleep

BatchSize(size) == IF size <= 0 \/ size > SqsBatchLimit THEN SqsBatchLimit ELSE size
BatchLinger(linger) == IF linger <= 0 THEN 500 ELSE linger
ReconnectSleep(sleep) == IF sleep = 0 THEN 1000 ELSE sleep
Workers(count) == IF count <= 0 THEN 1 ELSE count

OrDefault(hook) == IF hook = Unset THEN Default ELSE hook

(* The hooks that have a default.                                          *)
Defaulted == {"unmarshaler", "marshaler", "resolver", "inputs"}

DefaultHooks(hooks) ==
    [f \in DOMAIN hooks |-> IF f \in Defaulted THEN OrDefault(hooks[f]) ELSE hooks[f]]

DefaultDeadLetter(d) == IF d.given THEN [d EXCEPT !.generateName = OrDefault(@)] ELSE d

DefaultBatch(b) ==
    IF b.given THEN [b EXCEPT !.maxSize = BatchSize(@), !.linger = BatchLinger(@)] ELSE b

SetHookDefaults ==
    /\ stage = "given"
    /\ ~IsSqsSubscriber
    /\ stage' = "defaulted"
    /\ config' = [config EXCEPT !.hooks = DefaultHooks(@)]
    /\ UNCHANGED <<given, again>>

SetSubscriberDefaults ==
    /\ stage = "given"
    /\ IsSqsSubscriber
    /\ stage' = "defaulted"
    /\ config' = [config EXCEPT !.hooks = DefaultHooks(@),
                                !.reconnectSleep = ReconnectSleep(@),
                                !.consumeWorkers = Workers(@),
                                !.deadLetter = DefaultDeadLetter(@),
                                !.deleteBatch = DefaultBatch(@)]
    /\ UNCHANGED <<given, again>>

-----------------------------------------------------------------------------
(* Validate, after the defaults.                                           *)
Required == [sqsSubscriber |-> {"credentials", "unmarshaler", "resolver"},
             sqsPublisher  |-> {"resolver"},
             snsSubscriber |-> {"credentials", "queueName", "topicResolver"},
             snsPublisher  |-> {"credentials", "topicResolver"}]

Valid(c) ==
    /\ \A f \in Required[c.kind] : c.hooks[f] # Unset
    /\ (c.kind = "sqsSubscriber" /\ c.deadLetter.given) => c.deadLetter.maxReceiveCount >= 1

Validate ==
    /\ stage = "defaulted"
    /\ stage' = IF Valid(config) THEN "accepted" ELSE "rejected"
    /\ UNCHANGED <<given, config, again>>

(* A second subscriber from the same configuration: the fields were copied *)
(* for the first one, but what the two pointers point to is shared, and    *)
(* has its defaults by now.                                                *)
Reuse ==
    /\ stage = "accepted"
    /\ ~again
    /\ stage' = "given"
    /\ config' = IF IsSqsSubscriber
                 THEN [given EXCEPT !.deadLetter = config.deadLetter,
                                    !.deleteBatch = config.deleteBatch]
                 ELSE given
    /\ again' = TRUE
    /\ UNCHANGED given

Constructed ==
    /\ \/ stage = "rejected"
       \/ stage = "accepted" /\ again
    /\ UNCHANGED configurationVars

ConfigurationNext ==
    SetHookDefaults \/ SetSubscriberDefaults \/ Validate \/ Reuse \/ Constructed

ConfigurationSpec == ConfigurationInit /\ [][ConfigurationNext]_configurationVars

(* Subscriber.deleteTimeout: the flushTimeout of the delete batchers.      *)
DeleteTimeout(c) == IF c.closeTimeout > 0 THEN c.closeTimeout ELSE 30000

-----------------------------------------------------------------------------
(* Properties. *)

(* The one hook that an accepted configuration may lack: Validate of the   *)
(* SQS publisher, unlike the other three, does not look at the credentials *)
(* of AWSConfig, and NewPublisher passes them on to the client.            *)
Unchecked(kind) == IF kind = "sqsPublisher" THEN {"credentials"} ELSE {}

(* A configuration that is accepted is one its user can rely on, and what  *)
(* Subscriber, DeleteBatcher and TimedBatcher assume: no hook is nil when  *)
(* it is used, except the credentials of an SQS publisher, there is a      *)
(* worker, a batch is one SQS takes, the ticker does not panic, and a hung *)
(* flush ends.                                                             *)
AcceptedIsUsable == stage = "accepted" =>
    /\ \A f \in DOMAIN config.hooks \ Unchecked(config.kind) : config.hooks[f] # Unset
    /\ IsSqsSubscriber =>
          /\ config.consumeWorkers >= 1
          /\ config.deadLetter.given => /\ config.deadLetter.maxReceiveCount >= 1
                                        /\ config.deadLetter.generateName # Unset
          /\ config.deleteBatch.given => /\ config.deleteBatch.maxSize \in 1..SqsBatchLimit
                                         /\ config.deleteBatch.linger > 0
                                         /\ DeleteTimeout(config) > 0

(* No default replaces what the user chose, for the first subscriber or    *)
(* for a second one from the same configuration: hooks, a sleep, NoSleep   *)
(* included, workers, and the size and linger of a batch where SQS and the *)
(* ticker can take them.                                                   *)
ChoicesAreKept ==
    /\ \A f \in DOMAIN given.hooks : given.hooks[f] # Unset => config.hooks[f] = given.hooks[f]
    /\ IsSqsSubscriber =>
          /\ given.reconnectSleep # 0 => config.reconnectSleep = given.reconnectSleep
          /\ given.consumeWorkers > 0 => config.consumeWorkers = given.consumeWorkers
          /\ given.deadLetter.given => config.deadLetter.maxReceiveCount = given.deadLetter.maxReceiveCount
          /\ given.deleteBatch.given =>
                /\ given.deleteBatch.maxSize \in 1..SqsBatchLimit =>
                      config.deleteBatch.maxSize = given.deleteBatch.maxSize
                /\ given.deleteBatch.linger > 0 =>
                      config.deleteBatch.linger = given.deleteBatch.linger
=============================================================================
