-------------------------- MODULE ConversionsProofs --------------------------
(***************************************************************************)
(* What is proved of Configuration, Marshaler and QueueInput: for every    *)
(* configuration, message and queue name, not only the small ones that the *)
(* model checker enumerates.                                               *)
(***************************************************************************)
EXTENDS Marshaler, Configuration, QueueInput, SequenceTheorems, TLAPS

-----------------------------------------------------------------------------
(* Configuration: what a constructor has made of its copy at each stage.   *)

HookValues == {Unset, "user", Default}
Kinds == {"sqsSubscriber", "sqsPublisher", "snsSubscriber", "snsPublisher"}

CopiedDeadLetters == {NotGiven} \cup
    [given : {TRUE}, maxReceiveCount : Int, generateName : HookValues]
CopiedBatches == {NotGiven} \cup [given : {TRUE}, maxSize : Int, linger : Int]

(* The copy is of the kind given, and default values are values of a field. *)
Copied(c) ==
    IF c.kind = "sqsSubscriber"
    THEN c \in [kind : {"sqsSubscriber"}, hooks : [Hooks.sqsSubscriber -> HookValues],
                reconnectSleep : Int, consumeWorkers : Int, closeTimeout : Int,
                deadLetter : CopiedDeadLetters, deleteBatch : CopiedBatches]
    ELSE c \in [kind : Kinds \ {"sqsSubscriber"}, hooks : [Hooks[c.kind] -> HookValues]]

ConfigurationTypes ==
    /\ stage \in {"given", "defaulted", "accepted", "rejected"}
    /\ Copied(given) /\ Copied(config)
    /\ given.kind \in Kinds /\ config.kind = given.kind

(* Nothing that has a default is missing after setDefaults.                *)
DefaultsAreSet == stage # "given" =>
    /\ \A f \in Defaulted \cap Hooks[config.kind] : config.hooks[f] # Unset
    /\ IsSqsSubscriber =>
          /\ config.consumeWorkers >= 1
          /\ config.deadLetter.given => config.deadLetter.generateName # Unset
          /\ config.deleteBatch.given => /\ config.deleteBatch.maxSize \in 1..SqsBatchLimit
                                         /\ config.deleteBatch.linger > 0

AcceptedIsValid == stage = "accepted" => Valid(config)

(* A constructor starts with the fields as given; what is behind pointers  *)
(* may have been defaulted by an earlier one, but is there if it was given. *)
StartsAsGiven ==
    /\ stage = "given" => config.hooks = given.hooks
    /\ IsSqsSubscriber =>
          /\ stage = "given" => /\ config.reconnectSleep = given.reconnectSleep
                                /\ config.consumeWorkers = given.consumeWorkers
          /\ config.deadLetter.given = given.deadLetter.given
          /\ config.deleteBatch.given = given.deleteBatch.given

ConfigurationInv ==
    /\ ConfigurationTypes /\ DefaultsAreSet /\ AcceptedIsValid
    /\ StartsAsGiven /\ ChoicesAreKept

(* Every configuration a user may give has the fields of its kind.         *)
LEMMA ConfigurationsAreCopied ==
    ASSUME NEW c \in Configurations
    PROVE  Copied(c) /\ c.kind \in Kinds
<1> USE ConfigurationAssumption DEF ConfigurationAssumption
<1>1. CASE c \in SqsSubscriberConfigs
  <2>1. DeadLetterConfigs \subseteq CopiedDeadLetters
    BY DEF DeadLetterConfigs, CopiedDeadLetters, Optional, HookValues
  <2>2. DeleteBatchConfigs \subseteq CopiedBatches
    BY DEF DeleteBatchConfigs, CopiedBatches
  <2>3. [Hooks.sqsSubscriber -> Optional] \subseteq [Hooks.sqsSubscriber -> HookValues]
    BY DEF Optional, HookValues
  <2> QED
    BY <1>1, <2>1, <2>2, <2>3 DEF SqsSubscriberConfigs, Copied, Kinds
<1>2. CASE \E k \in DOMAIN Hooks \ {"sqsSubscriber"} : c \in HookConfigs(k)
  <2>1. PICK k \in DOMAIN Hooks \ {"sqsSubscriber"} : c \in HookConfigs(k)
    BY <1>2
  <2>2. k \in Kinds /\ k # "sqsSubscriber"
    BY <2>1 DEF Hooks, Kinds
  <2>3. [Hooks[k] -> Optional] \subseteq [Hooks[k] -> HookValues]
    BY DEF Optional, HookValues
  <2> QED
    BY <2>1, <2>2, <2>3 DEF HookConfigs, Copied
<1> QED
  BY <1>1, <1>2 DEF Configurations

(* What the first constructor is given satisfies the invariant.            *)
LEMMA ConfigurationInitInv == ConfigurationInit => ConfigurationInv
<1> SUFFICES ASSUME ConfigurationInit PROVE ConfigurationInv
  OBVIOUS
<1>1. ConfigurationTypes
  BY ConfigurationsAreCopied DEF ConfigurationInit, ConfigurationTypes
<1>2. DefaultsAreSet /\ AcceptedIsValid
  BY DEF ConfigurationInit, DefaultsAreSet, AcceptedIsValid
<1>3. StartsAsGiven /\ ChoicesAreKept
  BY DEF ConfigurationInit, StartsAsGiven, ChoicesAreKept
<1> QED
  BY <1>1, <1>2, <1>3 DEF ConfigurationInv

(* What setDefaults makes of the hooks.                                    *)
LEMMA HooksDefaulted ==
    ASSUME NEW D, NEW hooks \in [D -> HookValues]
    PROVE  /\ DefaultHooks(hooks) \in [D -> HookValues]
           /\ \A f \in D \cap Defaulted : DefaultHooks(hooks)[f] # Unset
           /\ \A f \in D : hooks[f] # Unset => DefaultHooks(hooks)[f] = hooks[f]
  BY DEF DefaultHooks, OrDefault, HookValues, Unset, Default

(* setDefaults of the three small constructors fills hooks and nothing     *)
(* else.                                                                   *)
LEMMA HookDefaultsStep == ASSUME ConfigurationInv, SetHookDefaults PROVE ConfigurationInv'
<1>0. /\ config.kind = given.kind /\ config.kind \in Kinds \ {"sqsSubscriber"}
      /\ config \in [kind : Kinds \ {"sqsSubscriber"}, hooks : [Hooks[config.kind] -> HookValues]]
      /\ config.hooks = given.hooks
  BY DEF SetHookDefaults, IsSqsSubscriber, ConfigurationInv, ConfigurationTypes, Copied, StartsAsGiven
<1>1. /\ config'.kind = config.kind /\ config'.hooks = DefaultHooks(config.hooks)
      /\ given' = given /\ stage' = "defaulted"
  BY <1>0 DEF SetHookDefaults
<1>2. /\ config'.hooks \in [Hooks[config.kind] -> HookValues]
      /\ \A f \in Hooks[config.kind] \cap Defaulted : config'.hooks[f] # Unset
      /\ \A f \in Hooks[config.kind] : given.hooks[f] # Unset => config'.hooks[f] = given.hooks[f]
  BY <1>0, <1>1, HooksDefaulted
<1>3. DOMAIN given.hooks = Hooks[config.kind]
  BY <1>0
<1>4. config' \in [kind : Kinds \ {"sqsSubscriber"}, hooks : [Hooks[config.kind] -> HookValues]]
  BY <1>0, <1>1, <1>2 DEF SetHookDefaults
<1>5. ConfigurationTypes'
  BY <1>0, <1>1, <1>4 DEF ConfigurationTypes, Copied, ConfigurationInv
<1>6. DefaultsAreSet' /\ AcceptedIsValid'
  BY <1>0, <1>1, <1>2 DEF DefaultsAreSet, AcceptedIsValid, IsSqsSubscriber
<1>7. StartsAsGiven' /\ ChoicesAreKept'
  BY <1>0, <1>1, <1>2, <1>3 DEF StartsAsGiven, ChoicesAreKept, IsSqsSubscriber
<1> QED
  BY <1>5, <1>6, <1>7 DEF ConfigurationInv

(* The pointers' targets, defaulted for the first or the second time.      *)
LEMMA DeadLetterDefaulted ==
    ASSUME NEW d \in CopiedDeadLetters
    PROVE  /\ DefaultDeadLetter(d) \in CopiedDeadLetters
           /\ DefaultDeadLetter(d).given = d.given
           /\ d.given => /\ DefaultDeadLetter(d).maxReceiveCount = d.maxReceiveCount
                         /\ DefaultDeadLetter(d).generateName # Unset
<1>1. CASE d = NotGiven
  BY <1>1 DEF DefaultDeadLetter, CopiedDeadLetters, NotGiven
<1>2. CASE d \in [given : {TRUE}, maxReceiveCount : Int, generateName : HookValues]
  <2>1. DefaultDeadLetter(d) = [d EXCEPT !.generateName = OrDefault(@)]
    BY <1>2 DEF DefaultDeadLetter
  <2> QED
    BY <1>2, <2>1 DEF CopiedDeadLetters, OrDefault, HookValues, Unset, Default
<1> QED
  BY <1>1, <1>2 DEF CopiedDeadLetters

(* DeleteBatchConfig.setDefaults corrects what is out of range and keeps   *)
(* the rest.                                                               *)
LEMMA BatchDefaulted ==
    ASSUME NEW b \in CopiedBatches
    PROVE  /\ DefaultBatch(b) \in CopiedBatches
           /\ DefaultBatch(b).given = b.given
           /\ b.given => /\ DefaultBatch(b).maxSize \in 1..SqsBatchLimit
                         /\ DefaultBatch(b).linger > 0
                         /\ b.maxSize \in 1..SqsBatchLimit => DefaultBatch(b).maxSize = b.maxSize
                         /\ b.linger > 0 => DefaultBatch(b).linger = b.linger
<1>1. CASE b = NotGiven
  BY <1>1 DEF DefaultBatch, CopiedBatches, NotGiven
<1>2. CASE b \in [given : {TRUE}, maxSize : Int, linger : Int]
  <2>1. DefaultBatch(b) = [b EXCEPT !.maxSize = BatchSize(@), !.linger = BatchLinger(@)]
    BY <1>2 DEF DefaultBatch
  <2>2. b.maxSize \in Int /\ b.linger \in Int /\ b.given
    BY <1>2
  <2>3. /\ BatchSize(b.maxSize) \in 1..SqsBatchLimit
        /\ b.maxSize \in 1..SqsBatchLimit => BatchSize(b.maxSize) = b.maxSize
        /\ BatchLinger(b.linger) \in Int /\ BatchLinger(b.linger) > 0
        /\ b.linger > 0 => BatchLinger(b.linger) = b.linger
    BY <2>2 DEF BatchSize, BatchLinger, SqsBatchLimit
  <2>4. BatchSize(b.maxSize) \in Int
    BY <2>3 DEF SqsBatchLimit
  <2> QED
    BY <1>2, <2>1, <2>3, <2>4 DEF CopiedBatches
<1> QED
  BY <1>1, <1>2 DEF CopiedBatches

(* setDefaults of the SQS subscriber: hooks, amounts, and the shared       *)
(* structures behind the two pointers.                                     *)
LEMMA SubscriberDefaultsStep ==
    ASSUME ConfigurationInv, SetSubscriberDefaults PROVE ConfigurationInv'
<1> DEFINE Copies(h) == [kind : {"sqsSubscriber"}, hooks : h,
                         reconnectSleep : Int, consumeWorkers : Int, closeTimeout : Int,
                         deadLetter : CopiedDeadLetters, deleteBatch : CopiedBatches]
<1>0. /\ config.kind = "sqsSubscriber" /\ given.kind = "sqsSubscriber"
      /\ config \in Copies([Hooks.sqsSubscriber -> HookValues])
      /\ given \in Copies([Hooks.sqsSubscriber -> HookValues])
      /\ config.hooks = given.hooks
      /\ config.reconnectSleep = given.reconnectSleep
      /\ config.consumeWorkers = given.consumeWorkers
      /\ config.deadLetter.given = given.deadLetter.given
      /\ config.deleteBatch.given = given.deleteBatch.given
  BY DEF SetSubscriberDefaults, IsSqsSubscriber, ConfigurationInv, ConfigurationTypes, Copied,
         StartsAsGiven
<1>1. /\ config'.kind = config.kind
      /\ config'.hooks = DefaultHooks(config.hooks)
      /\ config'.reconnectSleep = ReconnectSleep(config.reconnectSleep)
      /\ config'.consumeWorkers = Workers(config.consumeWorkers)
      /\ config'.deadLetter = DefaultDeadLetter(config.deadLetter)
      /\ config'.deleteBatch = DefaultBatch(config.deleteBatch)
      /\ given' = given /\ stage' = "defaulted"
  BY <1>0 DEF SetSubscriberDefaults
<1>2. /\ config'.hooks \in [Hooks.sqsSubscriber -> HookValues]
      /\ \A f \in Hooks.sqsSubscriber \cap Defaulted : config'.hooks[f] # Unset
      /\ \A f \in Hooks.sqsSubscriber : given.hooks[f] # Unset => config'.hooks[f] = given.hooks[f]
  BY <1>0, <1>1, HooksDefaulted
<1>3. /\ ReconnectSleep(config.reconnectSleep) \in Int
      /\ config.reconnectSleep # 0 => ReconnectSleep(config.reconnectSleep) = config.reconnectSleep
      /\ Workers(config.consumeWorkers) \in Int /\ Workers(config.consumeWorkers) >= 1
      /\ config.consumeWorkers > 0 => Workers(config.consumeWorkers) = config.consumeWorkers
  <2>1. config.reconnectSleep \in Int /\ config.consumeWorkers \in Int
    BY <1>0
  <2> QED
    BY <2>1 DEF ReconnectSleep, Workers
<1>4. /\ config.deadLetter \in CopiedDeadLetters /\ config.deleteBatch \in CopiedBatches
  BY <1>0
<1>5. /\ config'.deadLetter \in CopiedDeadLetters
      /\ config'.deadLetter.given = config.deadLetter.given
      /\ config.deadLetter.given =>
            /\ config'.deadLetter.maxReceiveCount = config.deadLetter.maxReceiveCount
            /\ config'.deadLetter.generateName # Unset
  BY <1>1, <1>4, DeadLetterDefaulted
<1>6. /\ config'.deleteBatch \in CopiedBatches
      /\ config'.deleteBatch.given = config.deleteBatch.given
      /\ config.deleteBatch.given =>
            /\ config'.deleteBatch.maxSize \in 1..SqsBatchLimit
            /\ config'.deleteBatch.linger > 0
            /\ config.deleteBatch.maxSize \in 1..SqsBatchLimit =>
                  config'.deleteBatch.maxSize = config.deleteBatch.maxSize
            /\ config.deleteBatch.linger > 0 =>
                  config'.deleteBatch.linger = config.deleteBatch.linger
  BY <1>1, <1>4, BatchDefaulted
<1>7. ConfigurationTypes'
  <2>1. config' \in Copies([Hooks.sqsSubscriber -> HookValues])
    BY <1>0, <1>1, <1>2, <1>3, <1>5, <1>6 DEF SetSubscriberDefaults
  <2> QED
    BY <1>0, <1>1, <2>1 DEF ConfigurationTypes, Copied, ConfigurationInv
<1>8. DefaultsAreSet'
  BY <1>0, <1>1, <1>2, <1>3, <1>5, <1>6 DEF DefaultsAreSet, IsSqsSubscriber
<1>9. AcceptedIsValid' /\ StartsAsGiven'
  BY <1>0, <1>1, <1>5, <1>6 DEF AcceptedIsValid, StartsAsGiven, IsSqsSubscriber
<1>10. ChoicesAreKept'
  <2>1. /\ given.deadLetter.given => config.deadLetter.maxReceiveCount = given.deadLetter.maxReceiveCount
        /\ given.deleteBatch.given =>
                /\ given.deleteBatch.maxSize \in 1..SqsBatchLimit =>
                      config.deleteBatch.maxSize = given.deleteBatch.maxSize
                /\ given.deleteBatch.linger > 0 =>
                      config.deleteBatch.linger = given.deleteBatch.linger
    BY <1>0 DEF ConfigurationInv, ChoicesAreKept, IsSqsSubscriber
  <2>2. /\ given.deadLetter.given => config'.deadLetter.maxReceiveCount = given.deadLetter.maxReceiveCount
        /\ given.deleteBatch.given =>
                /\ given.deleteBatch.maxSize \in 1..SqsBatchLimit =>
                      config'.deleteBatch.maxSize = given.deleteBatch.maxSize
                /\ given.deleteBatch.linger > 0 =>
                      config'.deleteBatch.linger = given.deleteBatch.linger
    BY <1>0, <1>5, <1>6, <2>1
  <2>3. /\ given.reconnectSleep # 0 => config'.reconnectSleep = given.reconnectSleep
        /\ given.consumeWorkers > 0 => config'.consumeWorkers = given.consumeWorkers
    BY <1>0, <1>1, <1>3
  <2>4. \A f \in DOMAIN given.hooks : given.hooks[f] # Unset => config'.hooks[f] = given.hooks[f]
    BY <1>0, <1>2
  <2> QED
    BY <1>0, <1>1, <2>2, <2>3, <2>4 DEF ChoicesAreKept, IsSqsSubscriber
<1> QED
  BY <1>7, <1>8, <1>9, <1>10 DEF ConfigurationInv

(* Validate changes nothing; what it accepts is valid.                     *)
LEMMA ValidateStep == ASSUME ConfigurationInv, Validate PROVE ConfigurationInv'
<1>1. /\ config' = config /\ given' = given /\ stage' \in {"accepted", "rejected"}
      /\ stage' = "accepted" => Valid(config)
      /\ stage # "given"
  BY DEF Validate
<1>2. ConfigurationTypes' /\ DefaultsAreSet'
  BY <1>1 DEF ConfigurationInv, ConfigurationTypes, DefaultsAreSet, IsSqsSubscriber
<1>3. AcceptedIsValid' /\ StartsAsGiven' /\ ChoicesAreKept'
  BY <1>1 DEF ConfigurationInv, AcceptedIsValid, StartsAsGiven, ChoicesAreKept, IsSqsSubscriber,
              Valid
<1> QED
  BY <1>2, <1>3 DEF ConfigurationInv

(* A second constructor sees the fields as given, and behind the pointers  *)
(* what the first one has set.                                             *)
LEMMA ReuseStep == ASSUME ConfigurationInv, Reuse PROVE ConfigurationInv'
<1>0. stage' = "given" /\ given' = given
  BY DEF Reuse
<1>1. CASE ~IsSqsSubscriber
  <2>1. config' = given
    BY <1>1 DEF Reuse
  <2> QED
    BY <1>0, <1>1, <2>1 DEF ConfigurationInv, ConfigurationTypes, DefaultsAreSet, AcceptedIsValid,
                       StartsAsGiven, ChoicesAreKept, IsSqsSubscriber
<1>2. CASE IsSqsSubscriber
  <2>0. given.kind = "sqsSubscriber" /\ config.kind = "sqsSubscriber"
    BY <1>2 DEF IsSqsSubscriber, ConfigurationInv, ConfigurationTypes
  <2>1. Copied(given) /\ Copied(config)
    BY DEF ConfigurationInv, ConfigurationTypes
  <2>2. config' = [given EXCEPT !.deadLetter = config.deadLetter, !.deleteBatch = config.deleteBatch]
    BY <1>2 DEF Reuse
  <2>3. Copied(config')
    BY <2>0, <2>1, <2>2 DEF Copied
  <2>4. /\ config'.kind = given.kind /\ config'.hooks = given.hooks
        /\ config'.reconnectSleep = given.reconnectSleep
        /\ config'.consumeWorkers = given.consumeWorkers
        /\ config'.deadLetter = config.deadLetter
        /\ config'.deleteBatch = config.deleteBatch
    BY <2>0, <2>1, <2>2 DEF Copied
  <2>5. ConfigurationTypes' /\ DefaultsAreSet' /\ AcceptedIsValid'
    BY <1>0, <2>3, <2>4 DEF ConfigurationInv, ConfigurationTypes, Copied, DefaultsAreSet, AcceptedIsValid
  <2>6. StartsAsGiven' /\ ChoicesAreKept'
    BY <1>0, <1>2, <2>4 DEF ConfigurationInv, StartsAsGiven, ChoicesAreKept, IsSqsSubscriber
  <2> QED
    BY <2>5, <2>6 DEF ConfigurationInv
<1> QED
  BY <1>1, <1>2

(* The invariant of the constructors: each stage has done its part, and    *)
(* none has undone a choice.                                               *)
THEOREM ConfigurationInvariance == ConfigurationSpec => []ConfigurationInv
<1>1. ConfigurationInv /\ UNCHANGED configurationVars => ConfigurationInv'
  BY DEF configurationVars, ConfigurationInv, ConfigurationTypes, Copied, DefaultsAreSet,
         AcceptedIsValid, Valid, StartsAsGiven, ChoicesAreKept, IsSqsSubscriber
<1>2. ConfigurationInv /\ [ConfigurationNext]_configurationVars => ConfigurationInv'
  BY <1>1, HookDefaultsStep, SubscriberDefaultsStep, ValidateStep, ReuseStep
     DEF ConfigurationNext, Constructed
<1> QED
  BY <1>2, ConfigurationInitInv, PTL DEF ConfigurationSpec

(* NewSubscriber, NewPublisher: what setDefaults and Validate let through  *)
(* has no nil hook that is used later, except for the credentials that     *)
(* Validate of the SQS publisher does not check, and numbers that workers, *)
(* batches and ticker can run with.                                        *)
THEOREM AcceptedIsUsableHolds == ConfigurationSpec => []AcceptedIsUsable
<1>1. ConfigurationInv => AcceptedIsUsable
  <2> SUFFICES ASSUME ConfigurationInv, stage = "accepted"
               PROVE  AcceptedIsUsable
    BY DEF AcceptedIsUsable
  <2>1. Copied(config) /\ config.kind \in Kinds /\ Valid(config)
    BY DEF ConfigurationInv, ConfigurationTypes, AcceptedIsValid
  <2>2. DOMAIN config.hooks = Hooks[config.kind]
    BY <2>1 DEF Copied, Kinds
  <2>3. \A f \in Hooks[config.kind] \ Unchecked(config.kind) :
            f \in Required[config.kind] \/ f \in Defaulted
    BY <2>1 DEF Kinds, Hooks, Required, Defaulted, Unchecked
  <2>4. \A f \in DOMAIN config.hooks \ Unchecked(config.kind) : config.hooks[f] # Unset
    BY <2>1, <2>2, <2>3 DEF Valid, ConfigurationInv, DefaultsAreSet
  <2>5. IsSqsSubscriber => config.kind = "sqsSubscriber" /\ config.closeTimeout \in Int
    BY <2>1 DEF IsSqsSubscriber, ConfigurationInv, ConfigurationTypes, Copied
  <2>6. IsSqsSubscriber => DeleteTimeout(config) > 0
    BY <2>5 DEF DeleteTimeout
  <2> QED
    BY <2>1, <2>4, <2>5, <2>6 DEF AcceptedIsUsable, Valid, ConfigurationInv, DefaultsAreSet
<1> QED
  BY <1>1, ConfigurationInvariance, PTL

(* setDefaults never replaces a value that the user chose and that the     *)
(* subscriber can run with, not even for a second subscriber.              *)
THEOREM ChoicesAreKeptHolds == ConfigurationSpec => []ChoicesAreKept
<1>1. ConfigurationInv => ChoicesAreKept
  BY DEF ConfigurationInv
<1> QED
  BY <1>1, ConfigurationInvariance, PTL

-----------------------------------------------------------------------------
(* Marshaler: partial functions, and what Unmarshal finds of what Marshal  *)
(* and SnsMarshal wrote.                                                   *)

(* A partial function on D is a function on a part of D.                   *)
LEMMA PartialFunctionFacts ==
    ASSUME NEW D, NEW R, NEW f
    PROVE  f \in PartialFunctions(D, R) <=> DOMAIN f \subseteq D /\ f \in [DOMAIN f -> R]
<1>1. ASSUME f \in PartialFunctions(D, R) PROVE DOMAIN f \subseteq D /\ f \in [DOMAIN f -> R]
  <2>1. PICK S \in SUBSET D : f \in [S -> R]
    BY <1>1 DEF PartialFunctions
  <2> QED
    BY <2>1
<1>2. ASSUME DOMAIN f \subseteq D, f \in [DOMAIN f -> R] PROVE f \in PartialFunctions(D, R)
  BY <1>2 DEF PartialFunctions
<1> QED
  BY <1>1, <1>2

(* Leaving keys out of a partial function.                                 *)
LEMMA WithoutFacts ==
    ASSUME NEW D, NEW R, NEW f \in PartialFunctions(D, R), NEW S
    PROVE  /\ Without(f, S) \in PartialFunctions(D, R)
           /\ DOMAIN Without(f, S) = DOMAIN f \ S
           /\ \A k \in DOMAIN f \ S : Without(f, S)[k] = f[k]
<1>0. DOMAIN f \subseteq D /\ f \in [DOMAIN f -> R]
  BY PartialFunctionFacts
<1>1. Without(f, S) = [k \in DOMAIN f \ S |-> f[k]]
  BY DEF Without, Restrict
<1>2. Without(f, S) \in [DOMAIN f \ S -> R]
  BY <1>0, <1>1
<1> QED
  BY <1>0, <1>1, <1>2, PartialFunctionFacts

(* Leaving keys out twice is leaving them out once.                        *)
LEMMA WithoutTwice ==
    ASSUME NEW D, NEW R, NEW f \in PartialFunctions(D, R), NEW S, NEW T
    PROVE  Without(Without(f, S), T) = Without(f, S \cup T)
<1>1. /\ DOMAIN Without(f, S) = DOMAIN f \ S
      /\ \A k \in DOMAIN f \ S : Without(f, S)[k] = f[k]
  BY WithoutFacts
<1>2. Without(Without(f, S), T) = [k \in (DOMAIN f \ S) \ T |-> Without(f, S)[k]]
  BY <1>1 DEF Without, Restrict
<1>3. Without(f, S \cup T) = [k \in DOMAIN f \ (S \cup T) |-> f[k]]
  BY DEF Without, Restrict
<1>4. (DOMAIN f \ S) \ T = DOMAIN f \ (S \cup T)
  OBVIOUS
<1> QED
  BY <1>1, <1>2, <1>3, <1>4

(* Leaving no key out changes nothing.                                     *)
LEMMA WithoutNothing ==
    ASSUME NEW D, NEW R, NEW f \in PartialFunctions(D, R)
    PROVE  Without(f, {}) = f
<1>1. f = [k \in DOMAIN f |-> f[k]]
  BY PartialFunctionFacts
<1>2. DOMAIN f \ {} = DOMAIN f
  OBVIOUS
<1> QED
  BY <1>1, <1>2 DEF Without, Restrict

(* What may be in a queue: the attributes of this package use all Keys.    *)
Wires == [id : Values \cup {Nil}, body : Values \cup {Nil},
          attributes : PartialFunctions(Keys, AttributeValues)]

(* A string attribute can be read, and holds its value.                    *)
LEMMA StringAttributes ==
    ASSUME NEW value \in Values
    PROVE  /\ StringAttribute(value) \in AttributeValues
           /\ StringAttribute(value).string = value
           /\ StringAttribute(value).type = "String"
           /\ Readable(StringAttribute(value))
  BY MarshalerAssumption DEF MarshalerAssumption, StringAttribute, AttributeValues, Readable

(* The attributes of a message of this package are its metadata and UUID.  *)
LEMMA AttributesRead ==
    ASSUME NEW meta \in PartialFunctions(Keys, Values), NEW uuid \in Values,
           NEW attrs, attrs = WithUUID(metadataToAttributes(meta), uuid)
    PROVE  /\ attrs \in PartialFunctions(Keys, AttributeValues)
           /\ UUIDAttribute \in DOMAIN attrs
           /\ attrs[UUIDAttribute].string = uuid
           /\ Without(attributesToMetadata(attrs), {UUIDAttribute}) = Without(meta, {UUIDAttribute})
<1> DEFINE S == DOMAIN meta \cup {UUIDAttribute}
<1> DEFINE Text(k) == IF k = UUIDAttribute THEN uuid ELSE meta[k]
<1>0. DOMAIN meta \subseteq Keys /\ meta \in [DOMAIN meta -> Values] /\ UUIDAttribute \in Keys
  BY PartialFunctionFacts, MarshalerAssumption DEF MarshalerAssumption
<1>1. attrs = [k \in S |-> StringAttribute(Text(k))]
  BY DEF WithUUID, metadataToAttributes
<1>2. \A k \in S : Text(k) \in Values
  BY <1>0
<1>3. S \subseteq Keys /\ UUIDAttribute \in S /\ Text(UUIDAttribute) = uuid
  BY <1>0
<1>4. \A k \in DOMAIN meta \ {UUIDAttribute} : k \in S /\ Text(k) = meta[k]
  OBVIOUS
<1>5. S \ {UUIDAttribute} = DOMAIN meta \ {UUIDAttribute}
  OBVIOUS
<1> HIDE DEF S, Text
<1>6. \A k \in S : /\ attrs[k] \in AttributeValues /\ Readable(attrs[k])
                   /\ attrs[k].type = "String" /\ attrs[k].string = Text(k)
  BY <1>1, <1>2, StringAttributes
<1>7. attrs \in PartialFunctions(Keys, AttributeValues) /\ DOMAIN attrs = S
  <2>1. DOMAIN attrs = S /\ attrs \in [S -> AttributeValues]
    BY <1>1, <1>6
  <2> QED
    BY <1>3, <2>1, PartialFunctionFacts
<1>8. attributesToMetadata(attrs) = [k \in S |-> Text(k)]
  <2>1. {j \in DOMAIN attrs : Readable(attrs[j])} = S
    BY <1>6, <1>7
  <2>2. \A k \in S : (IF attrs[k].type = "Binary" THEN TextOf(attrs[k].binary)
                                                  ELSE attrs[k].string) = Text(k)
    BY <1>6
  <2> QED
    BY <2>1, <2>2 DEF attributesToMetadata
<1>9. Without(attributesToMetadata(attrs), {UUIDAttribute}) = Without(meta, {UUIDAttribute})
  <2>0. DOMAIN attributesToMetadata(attrs) = S
    BY <1>8
  <2>1. Without(attributesToMetadata(attrs), {UUIDAttribute}) =
            [k \in S \ {UUIDAttribute} |-> attributesToMetadata(attrs)[k]]
    BY <2>0 DEF Without, Restrict
  <2>2. Without(meta, {UUIDAttribute}) = [k \in DOMAIN meta \ {UUIDAttribute} |-> meta[k]]
    BY DEF Without, Restrict
  <2> QED
    BY <1>4, <1>5, <1>8, <2>1, <2>2
<1> QED
  BY <1>3, <1>6, <1>7, <1>9

(* A message loses the reserved key on the way, and through SNS the ids.   *)
Kept(msg, lost) == [msg EXCEPT !.metadata = Without(@, lost)]

(* Kept touches the metadata only.                                         *)
LEMMA KeptFields ==
    ASSUME NEW msg \in WatermillMessages, NEW S
    PROVE  /\ Kept(msg, S) = [uuid |-> msg.uuid, payload |-> msg.payload,
                              metadata |-> Without(msg.metadata, S)]
           /\ msg.metadata \in PartialFunctions(Keys, Values)
           /\ Kept(msg, S) \in WatermillMessages
<1>0. /\ msg.metadata \in PartialFunctions(Keys, Values) /\ msg.uuid \in Values /\ msg.payload \in Values
      /\ msg = [uuid |-> msg.uuid, payload |-> msg.payload, metadata |-> msg.metadata]
  BY DEF WatermillMessages
<1>1. Kept(msg, S) = [uuid |-> msg.uuid, payload |-> msg.payload, metadata |-> Without(msg.metadata, S)]
  BY <1>0 DEF Kept
<1>2. Without(msg.metadata, S) \in PartialFunctions(Keys, Values)
  BY <1>0, WithoutFacts
<1> QED
  BY <1>0, <1>1, <1>2 DEF WatermillMessages

(* Way after way, a message loses what it would lose on one way with the   *)
(* reserved keys of both.                                                  *)
LEMMA KeptFacts ==
    ASSUME NEW msg \in WatermillMessages, NEW S, NEW T
    PROVE  /\ Kept(Kept(msg, S), T) = Kept(msg, S \cup T)
           /\ Kept(msg, {}) = msg
<1>1. Kept(Kept(msg, S), T) = Kept(msg, S \cup T)
  <2> DEFINE m == Kept(msg, S)
  <2>1. /\ m \in WatermillMessages
        /\ m.uuid = msg.uuid /\ m.payload = msg.payload /\ m.metadata = Without(msg.metadata, S)
    BY KeptFields
  <2> HIDE DEF m
  <2>2. Kept(m, T) = [uuid |-> m.uuid, payload |-> m.payload, metadata |-> Without(m.metadata, T)]
    BY <2>1, KeptFields
  <2>3. Without(Without(msg.metadata, S), T) = Without(msg.metadata, S \cup T)
    BY KeptFields, WithoutTwice
  <2>4. Kept(m, T) = Kept(msg, S \cup T)
    BY <2>1, <2>2, <2>3, KeptFields
  <2> QED
    BY <2>4 DEF m
<1>2. Kept(msg, {}) = msg
  <2>1. Without(msg.metadata, {}) = msg.metadata
    BY KeptFields, WithoutNothing
  <2>2. Kept(msg, {}) = [uuid |-> msg.uuid, payload |-> msg.payload, metadata |-> msg.metadata]
    BY <2>1, KeptFields
  <2> QED
    BY <2>2 DEF WatermillMessages
<1> QED
  BY <1>1, <1>2

(* Through SQS, and through SNS.                                           *)
LEMMA SqsRoundTrip ==
    ASSUME NEW msg \in WatermillMessages, NEW id \in Values
    PROVE  /\ Sent(Marshal(msg), id) \in Wires
           /\ ~Panics(Sent(Marshal(msg), id))
           /\ Unmarshal(Sent(Marshal(msg), id)) = Kept(msg, {UUIDAttribute})
<1> DEFINE attrs == WithUUID(metadataToAttributes(msg.metadata), msg.uuid)
<1>0. /\ msg.metadata \in PartialFunctions(Keys, Values) /\ msg.uuid \in Values /\ msg.payload \in Values
      /\ msg.uuid # Nil /\ msg.payload # Nil
  BY MarshalerAssumption DEF WatermillMessages, MarshalerAssumption
<1>1. Sent(Marshal(msg), id) = [id |-> id, body |-> msg.payload, attributes |-> attrs]
  BY DEF Sent, Marshal
<1> HIDE DEF attrs
<1>2. /\ attrs \in PartialFunctions(Keys, AttributeValues)
      /\ UUIDAttribute \in DOMAIN attrs
      /\ attrs[UUIDAttribute].string = msg.uuid
      /\ Without(attributesToMetadata(attrs), {UUIDAttribute}) = Without(msg.metadata, {UUIDAttribute})
  BY <1>0, AttributesRead DEF attrs
<1> QED
  BY <1>0, <1>1, <1>2, KeptFields DEF Wires, Panics, Unmarshal, UUIDOf, TextOf

(* Through SNS with raw delivery, a message comes back with its UUID,      *)
(* payload and metadata, without the reserved keys of either marshaler.    *)
LEMMA SnsRoundTrip ==
    ASSUME NEW msg \in WatermillMessages, NEW id \in Values
    PROVE  /\ RawDelivery(SnsMarshal(msg), id) \in Wires
           /\ ~Panics(RawDelivery(SnsMarshal(msg), id))
           /\ Unmarshal(RawDelivery(SnsMarshal(msg), id)) = Kept(msg, SpecialKeys \cup {UUIDAttribute})
<1> DEFINE meta == Without(msg.metadata, SpecialKeys)
<1> DEFINE attrs == WithUUID(metadataToAttributes(meta), msg.uuid)
<1>0. /\ msg.metadata \in PartialFunctions(Keys, Values) /\ msg.uuid \in Values /\ msg.payload \in Values
      /\ msg.uuid # Nil /\ msg.payload # Nil
  BY MarshalerAssumption DEF WatermillMessages, MarshalerAssumption
<1>1. RawDelivery(SnsMarshal(msg), id) = [id |-> id, body |-> msg.payload, attributes |-> attrs]
  BY DEF RawDelivery, SnsMarshal, snsMetadataToAttributes
<1>2. meta \in PartialFunctions(Keys, Values)
  BY <1>0, WithoutFacts
<1>3. /\ attrs \in PartialFunctions(Keys, AttributeValues)
      /\ UUIDAttribute \in DOMAIN attrs
      /\ attrs[UUIDAttribute].string = msg.uuid
      /\ Without(attributesToMetadata(attrs), {UUIDAttribute}) = Without(meta, {UUIDAttribute})
  <2> HIDE DEF meta
  <2> QED
    BY <1>0, <1>2, AttributesRead
<1>4. Without(meta, {UUIDAttribute}) = Without(msg.metadata, SpecialKeys \cup {UUIDAttribute})
  BY <1>0, WithoutTwice
<1> HIDE DEF meta, attrs
<1> QED
  BY <1>0, <1>1, <1>3, <1>4, KeptFields DEF Wires, Panics, Unmarshal, UUIDOf, TextOf

(* The keys that are lost by now.                                          *)
Lost == (IF hops = 0 THEN {} ELSE {UUIDAttribute}) \cup (IF viaSns THEN SpecialKeys ELSE {})

MarshalerTypes ==
    /\ place \in {"program", "queue", "panic"}
    /\ message \in WatermillMessages /\ origin \in WatermillMessages
    /\ wire \in Wires
    /\ hops \in Nat /\ foreign \in BOOLEAN /\ viaSns \in BOOLEAN

(* A message that is on its way will arrive, with what is not lost by now. *)
OnTheWay == place = "queue" =>
    IF hops = 0 THEN foreign
    ELSE ~Panics(wire) /\ Unmarshal(wire) = Kept(origin, Lost)

(* The ways to SQS and SNS begin with Publish.                             *)
NotYetSns == hops = 0 => ~viaSns

MarshalerInv ==
    /\ MarshalerTypes /\ OnTheWay /\ NotYetSns
    /\ MessageSurvives /\ ForeignArrives

(* MessageSurvives, written with Kept.                                     *)
LEMMA SurvivesIsKept == MessageSurvives <=> (place = "program" => message = Kept(origin, Lost))
  BY DEF MessageSurvives, Kept, Lost

(* A message of any publisher, if Unmarshal does not panic on it.          *)
LEMMA UnmarshalType ==
    ASSUME NEW m \in Wires, ~Panics(m)
    PROVE  Unmarshal(m) \in WatermillMessages
<1> DEFINE attrs == m.attributes
<1> DEFINE S == {j \in DOMAIN attrs : Readable(attrs[j])}
<1>0. /\ attrs \in PartialFunctions(Keys, AttributeValues)
      /\ m.id \in Values \cup {Nil} /\ m.body \in Values \cup {Nil} /\ Empty \in Values
  BY MarshalerAssumption DEF Wires, MarshalerAssumption
<1>1. DOMAIN attrs \subseteq Keys /\ \A k \in DOMAIN attrs : attrs[k] \in AttributeValues
  <2>1. DOMAIN attrs \subseteq Keys /\ attrs \in [DOMAIN attrs -> AttributeValues]
    BY <1>0, PartialFunctionFacts
  <2> HIDE DEF attrs
  <2> QED
    BY <2>1
<1>2. UUIDOf(m) \in Values /\ TextOf(m.body) \in Values
  BY <1>0, <1>1 DEF UUIDOf, TextOf, Panics, AttributeValues
<1> HIDE DEF attrs
<1>3. attributesToMetadata(attrs) \in PartialFunctions(Keys, Values)
  <2>1. \A k \in S : (IF attrs[k].type = "Binary" THEN TextOf(attrs[k].binary)
                                                  ELSE attrs[k].string) \in Values
    BY <1>0, <1>1 DEF Readable, TextOf, AttributeValues
  <2>2. attributesToMetadata(attrs) \in [S -> Values] /\ S \subseteq Keys
    BY <1>1, <2>1 DEF attributesToMetadata
  <2> QED
    BY <2>2, PartialFunctionFacts
<1>4. Without(attributesToMetadata(attrs), {UUIDAttribute}) \in PartialFunctions(Keys, Values)
  BY <1>3, WithoutFacts
<1> QED
  BY <1>2, <1>4 DEF attrs, Unmarshal, WatermillMessages

(* A message that nobody has sent yet satisfies the invariant.             *)
LEMMA MarshalerInitInv == MarshalerInit => MarshalerInv
<1> SUFFICES ASSUME MarshalerInit PROVE MarshalerInv
  OBVIOUS
<1>0. /\ Empty \in Values /\ ForeignKeys \subseteq Keys
      /\ \A R : <<>> \in PartialFunctions(Keys, R)
  <2>1. DOMAIN <<>> = {} /\ \A R : <<>> \in [{} -> R]
    OBVIOUS
  <2> QED
    BY <2>1, PartialFunctionFacts, MarshalerAssumption DEF MarshalerAssumption
<1>1. Blank \in WatermillMessages /\ NoWire \in Wires /\ SqsMessages \subseteq Wires
  <2>1. PartialFunctions(ForeignKeys, AttributeValues) \subseteq PartialFunctions(Keys, AttributeValues)
    BY <1>0, PartialFunctionFacts
  <2> QED
    BY <1>0, <2>1 DEF Blank, WatermillMessages, NoWire, Wires, SqsMessages
<1>2. MarshalerTypes
  BY <1>1 DEF MarshalerInit, MarshalerTypes
<1>3. OnTheWay /\ NotYetSns /\ ForeignArrives
  BY DEF MarshalerInit, OnTheWay, NotYetSns, ForeignArrives
<1>4. MessageSurvives
  <2>1. Lost = {} /\ origin = message
    BY DEF MarshalerInit, Lost
  <2> QED
    BY <1>2, <2>1, SurvivesIsKept, KeptFacts DEF MarshalerTypes
<1> QED
  BY <1>2, <1>3, <1>4 DEF MarshalerInv

(* Either publisher puts the message on the wire such that it will be read *)
(* back whole.                                                             *)
LEMMA PublishSteps ==
    ASSUME MarshalerInv, PublishToSqs \/ PublishToSns
    PROVE  MarshalerInv'
<1>0. /\ place = "program" /\ place' = "queue" /\ hops' = hops + 1
      /\ message' = message /\ origin' = origin /\ foreign' = foreign
      /\ hops \in Nat /\ message \in WatermillMessages /\ origin \in WatermillMessages
      /\ viaSns \in BOOLEAN
  BY DEF PublishToSqs, PublishToSns, Publish, MarshalerInv, MarshalerTypes
<1>1. message = Kept(origin, Lost)
  BY <1>0, SurvivesIsKept DEF MarshalerInv
<1>2. \E lost : /\ wire' \in Wires /\ ~Panics(wire') /\ viaSns' \in BOOLEAN
                /\ Unmarshal(wire') = Kept(message, lost)
                /\ Lost' = Lost \cup lost
  <2>1. CASE PublishToSqs
    <3>1. viaSns' = viaSns /\ Lost' = Lost \cup {UUIDAttribute}
      BY <1>0, <2>1 DEF PublishToSqs, Lost
    <3>2. PICK id \in Values : wire' = Sent(Marshal(message), id)
      BY <2>1 DEF PublishToSqs, Publish
    <3> QED
      BY <1>0, <3>1, <3>2, SqsRoundTrip
  <2>2. CASE PublishToSns
    <3>1. viaSns' = TRUE /\ Lost' = Lost \cup (SpecialKeys \cup {UUIDAttribute})
      BY <1>0, <2>2 DEF PublishToSns, Lost
    <3>2. PICK id \in Values : wire' = RawDelivery(SnsMarshal(message), id)
      BY <2>2 DEF PublishToSns, Publish
    <3> QED
      BY <1>0, <3>1, <3>2, SnsRoundTrip
  <2> QED
    BY <2>1, <2>2
<1>3. Unmarshal(wire') = Kept(origin, Lost')
  BY <1>0, <1>1, <1>2, KeptFacts
<1>4. MarshalerTypes'
  BY <1>0, <1>2 DEF MarshalerTypes, MarshalerInv
<1>5. OnTheWay' /\ NotYetSns'
  <2>1. hops' # 0
    BY <1>0
  <2> QED
    BY <1>0, <1>2, <1>3, <2>1 DEF OnTheWay, NotYetSns
<1>6. MessageSurvives' /\ ForeignArrives'
  BY <1>0 DEF MessageSurvives, ForeignArrives
<1> QED
  BY <1>4, <1>5, <1>6 DEF MarshalerInv

(* What Unmarshal returns is the message that was on the wire.             *)
LEMMA ReceiveStep == ASSUME MarshalerInv, Receive PROVE MarshalerInv'
<1>0. /\ place = "queue" /\ place' = "program" /\ ~Panics(wire)
      /\ message' = Unmarshal(wire) /\ wire \in Wires
      /\ UNCHANGED <<wire, hops, foreign, viaSns>>
  BY DEF Receive, MarshalerInv, MarshalerTypes
<1>1. message' \in WatermillMessages
  BY <1>0, UnmarshalType
<1>2. Lost' = Lost
  BY <1>0 DEF Lost
<1>3. origin' \in WatermillMessages /\ message' = Kept(origin', Lost')
  <2>1. CASE hops = 0
    <3>1. origin' = message' /\ Lost = {}
      BY <2>1 DEF Receive, Lost, MarshalerInv, NotYetSns
    <3> QED
      BY <1>1, <1>2, <3>1, KeptFacts
  <2>2. CASE hops # 0
    BY <1>0, <1>2, <2>2 DEF Receive, MarshalerInv, MarshalerTypes, OnTheWay
  <2> QED
    BY <2>1, <2>2
<1>4. MarshalerTypes' /\ OnTheWay' /\ NotYetSns'
  BY <1>0, <1>1, <1>3 DEF MarshalerInv, MarshalerTypes, OnTheWay, NotYetSns
<1>5. MessageSurvives'
  BY <1>3 DEF MessageSurvives, Kept, Lost
<1>6. ForeignArrives'
  BY <1>0 DEF ForeignArrives, Unmarshal, UUIDOf
<1> QED
  BY <1>4, <1>5, <1>6 DEF MarshalerInv

(* Only a foreign message makes Unmarshal panic.                           *)
LEMMA ReceivePanicsStep == ASSUME MarshalerInv, ReceivePanics PROVE MarshalerInv'
<1>1. place = "queue" /\ Panics(wire) /\ hops = 0 /\ foreign
  BY DEF ReceivePanics, MarshalerInv, OnTheWay
<1>2. MarshalerTypes' /\ OnTheWay' /\ NotYetSns'
  BY DEF ReceivePanics, MarshalerInv, MarshalerTypes, OnTheWay, NotYetSns
<1>3. MessageSurvives' /\ ForeignArrives'
  BY <1>1 DEF ReceivePanics, MessageSurvives, ForeignArrives, Panics
<1> QED
  BY <1>2, <1>3 DEF MarshalerInv

(* The invariant of a message's way: what is in the queue will arrive.     *)
THEOREM MarshalerInvariance == MarshalerSpec => []MarshalerInv
<1>1. MarshalerInv /\ UNCHANGED marshalerVars => MarshalerInv'
  BY DEF marshalerVars, MarshalerInv, MarshalerTypes, OnTheWay, NotYetSns, MessageSurvives,
         ForeignArrives, Lost
<1>2. MarshalerInv /\ [MarshalerNext]_marshalerVars => MarshalerInv'
  BY <1>1, PublishSteps, ReceiveStep, ReceivePanicsStep DEF MarshalerNext, AtTheEnd
<1> QED
  BY <1>2, MarshalerInitInv, PTL DEF MarshalerSpec

(* Marshal and Unmarshal: UUID, payload and metadata, but for the reserved *)
(* keys, come through any number of queues and topics, whatever they are.  *)
THEOREM MessageSurvivesHolds == MarshalerSpec => []MessageSurvives
<1>1. MarshalerInv => MessageSurvives
  BY DEF MarshalerInv
<1> QED
  BY <1>1, MarshalerInvariance, PTL

(* Unmarshal takes the messages of other programs, and panics only on one  *)
(* that uses the reserved key without a StringValue.                       *)
THEOREM ForeignArrivesHolds == MarshalerSpec => []ForeignArrives
<1>1. MarshalerInv => ForeignArrives
  BY DEF MarshalerInv
<1> QED
  BY <1>1, MarshalerInvariance, PTL

-----------------------------------------------------------------------------
(* QueueInput: attributes.                                                 *)

(* Over prefers its first argument.                                        *)
LEMMA OverFacts ==
    ASSUME NEW f, NEW g
    PROVE  /\ DOMAIN Over(f, g) = DOMAIN f \cup DOMAIN g
           /\ \A k \in DOMAIN f : Over(f, g)[k] = f[k]
           /\ \A k \in DOMAIN g \ DOMAIN f : Over(f, g)[k] = g[k]
  BY DEF Over

(* Where the first argument has nothing, Over is the second one.           *)
LEMMA OverMisses ==
    ASSUME NEW f, NEW g, NEW k, k \notin DOMAIN f
    PROVE  /\ k \in DOMAIN Over(f, g) <=> k \in DOMAIN g
           /\ k \in DOMAIN g => Over(f, g)[k] = g[k]
<1>1. /\ DOMAIN Over(f, g) = DOMAIN f \cup DOMAIN g
      /\ \A l \in DOMAIN g \ DOMAIN f : Over(f, g)[l] = g[l]
  BY OverFacts
<1> QED
  BY <1>1

(* The texts and booleans that are not left out.                           *)
LEMMA GivenFacts ==
    ASSUME NEW a
    PROVE  /\ DOMAIN TextsGiven(a) = {f \in TextFields : a.texts[f] # NoText}
           /\ \A f \in DOMAIN TextsGiven(a) : TextsGiven(a)[f] = a.texts[f]
           /\ DOMAIN BoolsGiven(a) \subseteq BoolFields
  BY DEF TextsGiven, BoolsGiven

(* The custom attributes over those of the configuration's fields.         *)
LEMMA CustomOverFields ==
    ASSUME NEW custom, NEW texts, NEW rest, NEW attrs, attrs = Over(custom, rest),
           \A f \in TextFields : f \in DOMAIN rest <=> texts[f] # NoText,
           \A f \in TextFields \cap DOMAIN rest : rest[f] = texts[f]
    PROVE  /\ \A k \in DOMAIN custom : k \in DOMAIN attrs /\ attrs[k] = custom[k]
           /\ \A f \in TextFields \ DOMAIN custom :
                 /\ f \in DOMAIN attrs <=> texts[f] # NoText
                 /\ f \in DOMAIN attrs => attrs[f] = texts[f]
<1>1. /\ DOMAIN attrs = DOMAIN custom \cup DOMAIN rest
      /\ \A k \in DOMAIN custom : attrs[k] = custom[k]
      /\ \A k \in DOMAIN rest \ DOMAIN custom : attrs[k] = rest[k]
  BY DEF Over
<1>2. ASSUME NEW f \in TextFields, f \notin DOMAIN custom
      PROVE  /\ f \in DOMAIN attrs <=> texts[f] # NoText
             /\ f \in DOMAIN attrs => attrs[f] = texts[f]
  <2>1. f \in DOMAIN attrs <=> f \in DOMAIN rest
    BY <1>1, <1>2
  <2>2. f \in DOMAIN rest => attrs[f] = rest[f]
    BY <1>1, <1>2
  <2> QED
    BY <2>1, <2>2
<1> QED
  BY <1>1, <1>2

(* The boolean fields of a queue, of which no text field has the name.     *)
LEMMA BoolFacts ==
    ASSUME NEW a, NEW f \in BoolFields, f \notin DOMAIN a.custom
    PROVE  /\ f \in DOMAIN QueueAttributes(a) <=> a.bools[f]
           /\ f \in DOMAIN QueueAttributes(a) => QueueAttributes(a)[f] = "true"
<1> DEFINE texts == TextsGiven(a)
           bools == BoolsGiven(a)
           rest == Over(texts, bools)
           attrs == QueueAttributes(a)
<1>1. f \notin TextFields
  BY DEF TextFields, BoolFields
<1>2. f \notin DOMAIN texts
  BY <1>1, GivenFacts
<1>3. /\ f \in DOMAIN bools <=> a.bools[f]
      /\ f \in DOMAIN bools => bools[f] = "true"
  BY DEF BoolsGiven
<1>4. attrs = Over(a.custom, rest)
  BY DEF QueueAttributes
<1>5. /\ f \in DOMAIN rest <=> f \in DOMAIN bools
      /\ f \in DOMAIN bools => rest[f] = bools[f]
  BY <1>2, OverMisses
<1> HIDE DEF texts, bools, rest, attrs
<1>6. /\ f \in DOMAIN attrs <=> f \in DOMAIN rest
      /\ f \in DOMAIN rest => attrs[f] = rest[f]
  <2>1. /\ f \in DOMAIN Over(a.custom, rest) <=> f \in DOMAIN rest
        /\ f \in DOMAIN rest => Over(a.custom, rest)[f] = rest[f]
    BY OverMisses
  <2> QED
    BY <1>4, <2>1
<1>7. /\ f \in DOMAIN attrs <=> a.bools[f]
      /\ f \in DOMAIN attrs => attrs[f] = "true"
  BY <1>3, <1>5, <1>6
<1> QED
  BY <1>7 DEF attrs

(* Custom attributes win over fields, and a field that is empty is not     *)
(* sent.                                                                   *)
LEMMA AttributeFacts ==
    ASSUME NEW a, NEW attrs, attrs \in {QueueAttributes(a), TopicAttributes(a)}
    PROVE  /\ \A k \in DOMAIN a.custom : k \in DOMAIN attrs /\ attrs[k] = a.custom[k]
           /\ \A f \in TextFields \ DOMAIN a.custom :
                 /\ f \in DOMAIN attrs <=> a.texts[f] # NoText
                 /\ f \in DOMAIN attrs => attrs[f] = a.texts[f]
<1>1. CASE attrs = QueueAttributes(a)
  <2> DEFINE rest == Over(TextsGiven(a), BoolsGiven(a))
  <2>1. attrs = Over(a.custom, rest)
    BY <1>1 DEF QueueAttributes
  <2>2. /\ DOMAIN rest = DOMAIN TextsGiven(a) \cup DOMAIN BoolsGiven(a)
        /\ \A k \in DOMAIN TextsGiven(a) : rest[k] = TextsGiven(a)[k]
    BY OverFacts
  <2>3. TextFields \cap BoolFields = {}
    BY DEF TextFields, BoolFields
  <2> HIDE DEF rest
  <2>4. \A f \in TextFields : f \in DOMAIN rest <=> f \in DOMAIN TextsGiven(a)
    BY <2>2, <2>3, GivenFacts
  <2>5. \A f \in TextFields : f \in DOMAIN rest <=> a.texts[f] # NoText
    BY <2>4, GivenFacts
  <2>6. \A f \in TextFields \cap DOMAIN rest : rest[f] = a.texts[f]
    BY <2>2, <2>4, GivenFacts
  <2> QED
    BY <2>1, <2>5, <2>6, CustomOverFields
<1>2. CASE attrs = TopicAttributes(a)
  <2> DEFINE rest == TextsGiven(a)
  <2>1. attrs = Over(a.custom, rest)
    BY <1>2 DEF TopicAttributes
  <2>2. /\ \A f \in TextFields : f \in DOMAIN rest <=> a.texts[f] # NoText
        /\ \A f \in TextFields \cap DOMAIN rest : rest[f] = a.texts[f]
    BY GivenFacts
  <2> HIDE DEF rest
  <2> QED
    BY <2>1, <2>2, CustomOverFields
<1> QED
  BY <1>1, <1>2

(* createSourceQueue adds the redrive policy and leaves the other          *)
(* attributes alone.                                                       *)
LEMMA RedriveFacts ==
    ASSUME NEW attrs
    PROVE  /\ "RedrivePolicy" \in DOMAIN WithRedrive(attrs)
           /\ WithRedrive(attrs)["RedrivePolicy"] = RedriveToDlq
           /\ \A k : k # "RedrivePolicy" =>
                 /\ k \in DOMAIN WithRedrive(attrs) <=> k \in DOMAIN attrs
                 /\ k \in DOMAIN attrs => WithRedrive(attrs)[k] = attrs[k]
<1>1. DOMAIN RedriveOnly = {"RedrivePolicy"} /\ RedriveOnly["RedrivePolicy"] = RedriveToDlq
  BY DEF RedriveOnly
<1>2. /\ DOMAIN WithRedrive(attrs) = DOMAIN RedriveOnly \cup DOMAIN attrs
      /\ \A k \in DOMAIN RedriveOnly : WithRedrive(attrs)[k] = RedriveOnly[k]
      /\ \A k \in DOMAIN attrs \ DOMAIN RedriveOnly : WithRedrive(attrs)[k] = attrs[k]
  BY OverFacts DEF WithRedrive
<1> QED
  BY <1>1, <1>2

(* QueueInput: names.                                                      *)
LEMMA LegalFacts ==
    ASSUME NEW q
    PROVE  q \in LegalNames <=>
              /\ q \in [fifo : BOOLEAN, stem : Seq(Characters)]
              /\ Len(q.stem) \in 1..StemLimit(q.fifo)
<1>0. NameLimit \in Nat /\ FifoLength \in Nat
  BY QueueInputAssumption DEF QueueInputAssumption
<1>1. ASSUME q \in LegalNames
      PROVE  /\ q \in [fifo : BOOLEAN, stem : Seq(Characters)]
             /\ Len(q.stem) \in 1..StemLimit(q.fifo)
  <2>1. q \in [fifo : BOOLEAN, stem : UNION {[1..n -> Characters] : n \in 0..NameLimit}]
    BY <1>1 DEF LegalNames, QueueNames
  <2>2. UNION {[1..n -> Characters] : n \in 0..NameLimit} \subseteq Seq(Characters)
    BY <1>0, SeqDef
  <2> QED
    BY <1>1, <2>1, <2>2 DEF LegalNames
<1>2. ASSUME q \in [fifo : BOOLEAN, stem : Seq(Characters)], Len(q.stem) \in 1..StemLimit(q.fifo)
      PROVE  q \in LegalNames
  <2>1. Len(q.stem) \in 0..NameLimit /\ q.stem \in [1..Len(q.stem) -> Characters]
    BY <1>0, <1>2, LenProperties DEF StemLimit
  <2> QED
    BY <1>2, <2>1 DEF LegalNames, QueueNames
<1> QED
  BY <1>1, <1>2

(* The suffix of a dead-letter queue is a text of at least one character.  *)
LEMMA SuffixFacts == DlqSuffix \in Seq(Characters) /\ Len(DlqSuffix) \in Nat \ {0}
  BY QueueInputAssumption, EmptySeq DEF QueueInputAssumption

(* A stem leaves room for the suffix, with or without .fifo.               *)
LEMMA StemLimits ==
    ASSUME NEW fifo \in BOOLEAN
    PROVE  /\ StemLimit(fifo) \in Nat /\ Len(DlqSuffix) \in Nat \ {0}
           /\ Len(DlqSuffix) < StemLimit(fifo) /\ DlqSuffix \in Seq(Characters)
<1>1. NameLimit \in Nat /\ FifoLength \in Nat /\ NameLimit > FifoLength + Len(DlqSuffix)
  BY QueueInputAssumption DEF QueueInputAssumption
<1> QED
  BY <1>1, SuffixFacts DEF StemLimit

(* truncateQueueName cuts a name to the limit, and only a name beyond it.  *)
LEMMA TruncateFacts ==
    ASSUME NEW s \in Seq(Characters), NEW limit \in Nat
    PROVE  /\ truncateQueueName(s, limit) \in Seq(Characters)
           /\ Len(truncateQueueName(s, limit)) = IF Len(s) <= limit THEN Len(s) ELSE limit
           /\ Len(s) <= limit => truncateQueueName(s, limit) = s
<1> DEFINE n == IF Len(s) <= limit THEN Len(s) ELSE limit
<1>0. Len(s) \in Nat /\ n \in 0..Len(s) /\ (Len(s) <= limit => n = Len(s))
  BY LenProperties
<1>1. truncateQueueName(s, limit) = SubSeq(s, 1, n)
  BY DEF truncateQueueName
<1>2. \A i \in 1..n : s[i] \in Characters
  BY <1>0, ElementOfSeq
<1>3. SubSeq(s, 1, n) \in Seq(Characters) /\ Len(SubSeq(s, 1, n)) = n
  BY <1>0, <1>2, SubSeqProperties
<1>4. Len(s) <= limit => SubSeq(s, 1, n) = s
  BY <1>0, SubSeqFull
<1> QED
  BY <1>1, <1>3, <1>4

(* The parts of a dead-letter queue's name.                                *)
LEMMA DlqName ==
    ASSUME NEW q \in LegalNames
    PROVE  /\ DeadLetterQueueNameDefault(q) =
                 [fifo |-> q.fifo, stem |-> truncateQueueName(q.stem \o DlqSuffix, StemLimit(q.fifo))]
           /\ q.stem \o DlqSuffix \in Seq(Characters)
           /\ Len(q.stem \o DlqSuffix) = Len(q.stem) + Len(DlqSuffix)
           /\ q.fifo \in BOOLEAN /\ q.stem \in Seq(Characters)
           /\ Len(q.stem) \in 1..StemLimit(q.fifo)
           /\ q = [fifo |-> q.fifo, stem |-> q.stem]
<1>1. q \in [fifo : BOOLEAN, stem : Seq(Characters)] /\ Len(q.stem) \in 1..StemLimit(q.fifo)
  BY LegalFacts
<1>2. q.stem \o DlqSuffix \in Seq(Characters) /\ Len(q.stem \o DlqSuffix) = Len(q.stem) + Len(DlqSuffix)
  BY <1>1, StemLimits, ConcatProperties
<1>3. DeadLetterQueueNameDefault(q) =
          [fifo |-> q.fifo, stem |-> truncateQueueName(q.stem \o DlqSuffix, StemLimit(q.fifo))]
  BY <1>1 DEF DeadLetterQueueNameDefault
<1> QED
  BY <1>1, <1>2, <1>3

(* The dead-letter queue's name can be a queue's, and is its own.          *)
LEMMA DlqLegal ==
    ASSUME NEW q \in LegalNames
    PROVE  /\ DeadLetterQueueNameDefault(q) \in LegalNames
           /\ DeadLetterQueueNameDefault(q).fifo = q.fifo
           /\ Len(q.stem) < StemLimit(q.fifo) => DeadLetterQueueNameDefault(q) # q
<1> DEFINE limit == StemLimit(q.fifo)
           long == q.stem \o DlqSuffix
           stem == truncateQueueName(long, limit)
           target == DeadLetterQueueNameDefault(q)
<1>1. /\ limit \in Nat /\ Len(q.stem) \in 1..limit /\ Len(DlqSuffix) \in Nat \ {0}
      /\ long \in Seq(Characters) /\ Len(long) = Len(q.stem) + Len(DlqSuffix)
      /\ target = [fifo |-> q.fifo, stem |-> stem] /\ q.fifo \in BOOLEAN
  BY DlqName, StemLimits
<1>2. stem \in Seq(Characters) /\ Len(stem) = IF Len(long) <= limit THEN Len(long) ELSE limit
  BY <1>1, TruncateFacts
<1> HIDE DEF stem, long, target
<1>3. Len(stem) \in 1..limit /\ (Len(q.stem) < limit => Len(stem) # Len(q.stem))
  BY <1>1, <1>2
<1>4. target \in LegalNames
  BY <1>1, <1>2, <1>3, LegalFacts
<1> QED
  BY <1>1, <1>3, <1>4 DEF target

(* Two queues whose names leave room for the suffix have different         *)
(* dead-letter queues: the suffix can be taken off again.                  *)
LEMMA DlqUnique ==
    ASSUME NEW p \in LegalNames, NEW q \in LegalNames, FitsSuffix(p), FitsSuffix(q),
           DeadLetterQueueNameDefault(p) = DeadLetterQueueNameDefault(q)
    PROVE  p = q
<1>1. ASSUME NEW n \in LegalNames, FitsSuffix(n)
      PROVE  DeadLetterQueueNameDefault(n) = [fifo |-> n.fifo, stem |-> n.stem \o DlqSuffix]
  <2> DEFINE long == n.stem \o DlqSuffix
             limit == StemLimit(n.fifo)
  <2>1. /\ DeadLetterQueueNameDefault(n) = [fifo |-> n.fifo, stem |-> truncateQueueName(long, limit)]
        /\ long \in Seq(Characters) /\ Len(long) <= limit /\ limit \in Nat
    BY <1>1, DlqName, StemLimits DEF FitsSuffix
  <2> HIDE DEF long, limit
  <2>2. truncateQueueName(long, limit) = long
    BY <2>1, TruncateFacts
  <2> QED
    BY <2>1, <2>2 DEF long
<1>2. p.fifo = q.fifo /\ p.stem \o DlqSuffix = q.stem \o DlqSuffix
  <2>1. [fifo |-> p.fifo, stem |-> p.stem \o DlqSuffix] = [fifo |-> q.fifo, stem |-> q.stem \o DlqSuffix]
    BY <1>1
  <2> QED
    BY <2>1
<1>3. /\ p.stem \in Seq(Characters) /\ q.stem \in Seq(Characters) /\ DlqSuffix \in Seq(Characters)
      /\ Len(p.stem) \in Nat /\ Len(q.stem) \in Nat /\ Len(DlqSuffix) \in Nat
  BY DlqName, StemLimits, LenProperties
<1>4. /\ Len(p.stem) + Len(DlqSuffix) = Len(q.stem) + Len(DlqSuffix)
      /\ \A i \in 1..Len(p.stem) : (p.stem \o DlqSuffix)[i] = p.stem[i]
      /\ \A i \in 1..Len(q.stem) : (q.stem \o DlqSuffix)[i] = q.stem[i]
  <2>1. /\ Len(p.stem \o DlqSuffix) = Len(p.stem) + Len(DlqSuffix)
        /\ \A i \in 1..Len(p.stem) : (p.stem \o DlqSuffix)[i] = p.stem[i]
    BY <1>3
  <2>2. /\ Len(q.stem \o DlqSuffix) = Len(q.stem) + Len(DlqSuffix)
        /\ \A i \in 1..Len(q.stem) : (q.stem \o DlqSuffix)[i] = q.stem[i]
    BY <1>3
  <2> QED
    BY <1>2, <2>1, <2>2
<1>5. p.stem = q.stem
  <2>1. Len(p.stem) = Len(q.stem)
    BY <1>3, <1>4
  <2>2. ASSUME NEW i \in 1..Len(p.stem) PROVE p.stem[i] = q.stem[i]
    BY <1>2, <1>4, <2>1
  <2> QED
    BY <1>3, <2>1, <2>2, SeqEqual
<1> QED
  BY <1>2, <1>5, DlqName

(* Each input is one of the three, made of attributes that stay the same.  *)
InputInv ==
    /\ name \in LegalNames
    /\ \/ input = Nothing
       \/ input = [for |-> "queue", attributes |-> QueueAttributes(attributes)]
       \/ input = [for |-> "source", attributes |-> WithRedrive(QueueAttributes(attributes))]
       \/ input = [for |-> "topic", attributes |-> TopicAttributes(attributes)]

(* There is a legal name to start with, if there are characters at all.    *)
LEMMA SomeLegalName == \E n \in LegalNames : ~n.fifo
<1> DEFINE s == <<DlqSuffix[1]>>  q == [fifo |-> FALSE, stem |-> s]
<1>1. DlqSuffix \in Seq(Characters) /\ Len(DlqSuffix) \in Nat \ {0}
  BY SuffixFacts
<1>2. DlqSuffix[1] \in Characters
  BY <1>1, ElementOfSeq
<1>3. s \in Seq(Characters) /\ Len(s) = 1
  BY <1>2
<1> HIDE DEF s
<1>4. q.fifo = FALSE /\ q.stem = s /\ q \in [fifo : BOOLEAN, stem : Seq(Characters)]
  BY <1>3
<1> HIDE DEF q
<1>5. Len(q.stem) \in 1..StemLimit(q.fifo)
  <2>1. StemLimit(q.fifo) \in Nat /\ Len(DlqSuffix) < StemLimit(q.fifo)
    BY <1>4, StemLimits
  <2>2. Len(q.stem) = 1
    BY <1>3, <1>4
  <2> HIDE DEF q
  <2> QED
    BY <1>1, <2>1, <2>2
<1>6. q \in LegalNames /\ ~q.fifo
  BY <1>4, <1>5, LegalFacts
<1> QED
  BY <1>6

(* The invariant of the inputs: names are legal, attributes well-formed,   *)
(* and what was generated comes from the operators of config.go and        *)
(* createSourceQueue.                                                      *)
THEOREM InputInvariance == QueueInputSpec => []InputInv
<1>1. QueueInputInit => InputInv
  <2>1. (CHOOSE n \in LegalNames : ~n.fifo) \in LegalNames
    BY SomeLegalName
  <2> QED
    BY <2>1 DEF QueueInputInit, InputInv
<1>2. InputInv /\ [QueueInputNext]_queueInputVars => InputInv'
  BY DEF QueueInputNext, GenerateQueue, GenerateSourceQueue, GenerateTopic, Generate, Generated,
         queueInputVars, InputInv
<1> QED
  BY <1>1, <1>2, PTL DEF QueueInputSpec

(* sqs/config.go, sns/config.go, createSourceQueue: what the configuration *)
(* says is what SQS and SNS are asked for, and the dead-letter queue of    *)
(* the configuration comes before any other redrive policy.                *)
THEOREM AskedIsSentHolds == QueueInputSpec => []AskedIsSent
<1>1. InputInv => AskedIsSent
  <2> SUFFICES ASSUME InputInv, input # Nothing PROVE AskedIsSent
    BY DEF AskedIsSent
  <2>1. CASE input.for # "source"
    <3>1. /\ input.attributes \in {QueueAttributes(attributes), TopicAttributes(attributes)}
          /\ input.for # "topic" => input.attributes = QueueAttributes(attributes)
      BY <2>1 DEF InputInv
    <3>2. /\ \A k \in DOMAIN attributes.custom :
                k \in DOMAIN input.attributes /\ input.attributes[k] = attributes.custom[k]
          /\ \A f \in TextFields \ DOMAIN attributes.custom :
                /\ f \in DOMAIN input.attributes <=> attributes.texts[f] # NoText
                /\ f \in DOMAIN input.attributes => input.attributes[f] = attributes.texts[f]
      BY <3>1, AttributeFacts
    <3>3. input.for # "topic" => \A f \in BoolFields \ DOMAIN attributes.custom :
                /\ f \in DOMAIN input.attributes <=> attributes.bools[f]
                /\ f \in DOMAIN input.attributes => input.attributes[f] = "true"
      BY <3>1, BoolFacts
    <3> QED
      BY <2>1, <3>2, <3>3 DEF AskedIsSent
  <2>2. CASE input.for = "source"
    <3> DEFINE attrs == QueueAttributes(attributes)
    <3>1. input.attributes = WithRedrive(attrs)
      BY <2>2 DEF InputInv
    <3>2. /\ \A k \in DOMAIN attributes.custom : k \in DOMAIN attrs /\ attrs[k] = attributes.custom[k]
          /\ \A f \in TextFields \ DOMAIN attributes.custom :
                /\ f \in DOMAIN attrs <=> attributes.texts[f] # NoText
                /\ f \in DOMAIN attrs => attrs[f] = attributes.texts[f]
          /\ \A f \in BoolFields \ DOMAIN attributes.custom :
                /\ f \in DOMAIN attrs <=> attributes.bools[f]
                /\ f \in DOMAIN attrs => attrs[f] = "true"
      BY AttributeFacts, BoolFacts
    <3> HIDE DEF attrs
    <3>3. /\ "RedrivePolicy" \in DOMAIN input.attributes
          /\ input.attributes["RedrivePolicy"] = RedriveToDlq
          /\ \A k : k # "RedrivePolicy" =>
                /\ k \in DOMAIN input.attributes <=> k \in DOMAIN attrs
                /\ k \in DOMAIN attrs => input.attributes[k] = attrs[k]
      BY <3>1, RedriveFacts
    <3>4. \A f \in BoolFields : f # "RedrivePolicy"
      BY DEF BoolFields
    <3> QED
      BY <2>2, <3>2, <3>3, <3>4 DEF AskedIsSent
  <2> QED
    BY <2>1, <2>2
<1> QED
  BY <1>1, InputInvariance, PTL

(* DeadLetterQueueNameDefault: the queue that a redrive policy names can   *)
(* be created, FIFO like its source, is another one unless the name is as  *)
(* long as it may be, and shared with no source whose name can be suffixed. *)
THEOREM DlqIsUsableHolds == QueueInputSpec => []DlqIsUsable
<1>1. InputInv => DlqIsUsable
  <2> SUFFICES ASSUME InputInv PROVE DlqIsUsable
    OBVIOUS
  <2>1. name \in LegalNames
    BY DEF InputInv
  <2>2. ASSUME NEW other \in LegalNames, FitsSuffix(name), FitsSuffix(other),
               DeadLetterQueueNameDefault(other) = DeadLetterQueueNameDefault(name)
        PROVE  other = name
    BY <2>1, <2>2, DlqUnique
  <2> QED
    BY <2>1, <2>2, DlqLegal DEF DlqIsUsable
<1> QED
  BY <1>1, InputInvariance, PTL
=============================================================================
