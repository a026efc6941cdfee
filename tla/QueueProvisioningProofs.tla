----------------------- MODULE QueueProvisioningProofs -----------------------
(***************************************************************************)
(* Proofs about QueueProvisioning, for any sets of calls, any resolver and *)
(* configuration, and any number of failures and of steps of others.       *)
(***************************************************************************)
EXTENDS QueueProvisioning, TLAPS

PcType == {"idle", "resolve", "store"} \cup ApiCalls \cup Final

(* How far each Publish has got: it may have lost the answer to its last   *)
(* SendMessage, and then it has failed.                                    *)
Progress == \A c \in PublishCalls :
    accepted[c] \in {1..sent[c], 1..(sent[c] + 1)}

(* A subscriber reaches CreateQueue of the source queue only with the ARN  *)
(* of a dead-letter queue.                                                 *)
ArnFirst ==
    /\ Exists("dlq") => dlqMade
    /\ DeadLetters => \A c \in Calls \ PublishCalls : pc[c] = "create" => dlqMade

(* A Publish that resolves again has seen the queue exist.                 *)
ResolvesAgain == \A c \in PublishCalls :
    created[c] /\ pc[c] \in {"resolve", "lookup", "store"} => seen[c]

NotBegun == \A c \in Calls : pc[c] = "idle" => ~created[c]

IInv ==
    /\ TypeOK
    /\ NotBegun
    /\ Progress
    /\ ArnFirst /\ RedriveHasTarget
    /\ ResolvesAgain /\ FailedPublishHeals

-----------------------------------------------------------------------------
(* What the caller of ResolveQueueUrl does next.                           *)
LEMMA ResolvedGoesTo ==
    ASSUME NEW c \in Calls, NEW exists, Resolved(c, exists)
    PROVE  \E label \in PcType :
              /\ Goto(c, label)
              /\ c \in PublishCalls =>
                    /\ label \in {"error", "send", "create", "absent"}
                    /\ label = "error" => created[c]
              /\ c \notin PublishCalls =>
                    /\ label \in {"ok", "absent", "panic", "dlqGet", "create"}
                    /\ DeadLetters => label # "create"
<1> USE DEF PcType, ApiCalls, Final
<1>1. CASE c \in PublishCalls
  <2>1. Goto(c, PublisherGoesOn(c, exists))
    BY <1>1 DEF Resolved
  <2>2. /\ PublisherGoesOn(c, exists) \in {"error", "send", "create", "absent"}
        /\ PublisherGoesOn(c, exists) = "error" => created[c]
    BY DEF PublisherGoesOn, QueueCreated
  <2> QED
    BY <1>1, <2>1, <2>2
<1>2. CASE c \in InitializeCalls
  <2>1. Goto(c, InitializeGoesOn(exists))
    BY <1>2 DEF Resolved
  <2>2. /\ InitializeGoesOn(exists) \in {"ok", "absent", "dlqGet", "create"}
        /\ DeadLetters => InitializeGoesOn(exists) # "create"
    BY DEF InitializeGoesOn, CreateSourceQueue
  <2> QED
    BY <1>2, <2>1, <2>2, ProvisioningAssumption
<1>3. CASE c \in SubscribeCalls
  <2>1. Goto(c, SubscribeGoesOn(c, exists))
    BY <1>3 DEF Resolved
  <2>2. /\ SubscribeGoesOn(c, exists) \in {"ok", "absent", "panic", "dlqGet", "create"}
        /\ DeadLetters => SubscribeGoesOn(c, exists) # "create"
    BY DEF SubscribeGoesOn, CreateSourceQueue
  <2> QED
    BY <1>3, <2>1, <2>2, ProvisioningAssumption
<1> QED
  BY <1>1, <1>2, <1>3 DEF Calls

(* The label a call goes to after createQueue of the source queue.         *)
LEMMA CreateGoesTo ==
    ASSUME NEW c \in Calls, IInv, CreateSource(c)
    PROVE  \E label \in PcType :
              /\ Goto(c, label)
              /\ c \in PublishCalls => label \in {"error", "send", "resolve", "failed"}
              /\ c \notin PublishCalls => label \in {"ok", "resolve", "failed"}
<1> USE DEF PcType, ApiCalls, Final
<1>1. /\ c \in PublishCalls => AfterCreate(c) \in {"error", "send"}
      /\ c \notin PublishCalls => AfterCreate(c) \in {"ok", "resolve"}
  BY ProvisioningAssumption DEF AfterCreate, QueueCreated, Calls
<1>2. /\ c \in PublishCalls => AfterNameExists(c) = "resolve"
      /\ c \notin PublishCalls => AfterNameExists(c) \in {"ok", "resolve"}
  BY <1>1 DEF AfterNameExists
<1>3. \/ Goto(c, AfterCreate(c))
      \/ Goto(c, AfterNameExists(c))
      \/ Goto(c, "failed")
  BY DEF CreateSource, CreateQueue, Answer
<1> QED
  BY <1>1, <1>2, <1>3

-----------------------------------------------------------------------------
(* What a step adds to the histories has their types.                      *)
LEMMA WitnessType ==
    ASSUME TypeOK, Witness
    PROVE  /\ seen' \in [Calls -> BOOLEAN] /\ gone' \in [Calls -> BOOLEAN]
           /\ lost' \in SUBSET Calls /\ dlqMade' \in BOOLEAN
<1>1. seen' \in [Calls -> BOOLEAN]
  BY Zenon DEF Witness, TypeOK, Active
<1>2. gone' \in [Calls -> BOOLEAN]
  BY Zenon DEF Witness, TypeOK, Active
<1> QED
  BY <1>1, <1>2 DEF Witness, TypeOK

(* A step of one call that sends nothing leaves TypeOK intact.             *)
LEMMA TypeFrame ==
    ASSUME TypeOK, NEW c \in Calls, NEW label \in PcType, Goto(c, label), Witness,
           c \in PublishCalls => pc[c] # "ok" /\ label # "ok",
           queue' \in [Queues -> Clients \cup {"absent", "other"}],
           cache' \in [Clients -> BOOLEAN],
           created' \in [Calls -> BOOLEAN],
           missing' \in [PublishCalls -> BOOLEAN],
           failures' \in 0..MaxFailures,
           UNCHANGED <<config, sent, others, accepted>>
    PROVE  TypeOK'
<1>1. pc' \in [Calls -> PcType]
  BY DEF TypeOK, Goto, PcType
<1>2. \A d \in PublishCalls : pc'[d] = "ok" <=> sent'[d] = MessageCount
  BY DEF TypeOK, Goto, Calls
<1>3. /\ seen' \in [Calls -> BOOLEAN] /\ gone' \in [Calls -> BOOLEAN]
      /\ lost' \in SUBSET Calls /\ dlqMade' \in BOOLEAN
  BY WitnessType
<1> QED
  BY <1>1, <1>2, <1>3 DEF TypeOK, PcType

(* Every step keeps the types.                                             *)
LEMMA TypeStep == ASSUME IInv, [Next]_vars PROVE TypeOK'
<1> USE DEF PcType, ApiCalls, Final
<1>1. CASE UNCHANGED vars
  BY <1>1 DEF IInv, TypeOK, vars
<1>2. ASSUME NEW c \in Calls, Begin(c) \/ ResolveQueueUrl(c) \/ GetQueueUrl(c) \/ StoreUrl(c)
      PROVE  TypeOK'
  <2>1. \E label \in PcType : Goto(c, label) /\ (c \in PublishCalls => label # "ok")
    <3>1. Resolved(c, "yes") \/ Resolved(c, "no") \/ Resolved(c, "unknown")
             \/ Goto(c, "resolve") \/ Goto(c, "lookup") \/ Goto(c, "store")
      BY <1>2 DEF Begin, ResolveQueueUrl, GetQueueUrl, StoreUrl
    <3> QED
      BY <3>1, ResolvedGoesTo
  <2>2. /\ pc[c] # "ok" /\ Witness /\ cache' \in [Clients -> BOOLEAN]
        /\ UNCHANGED <<config, queue, created, missing, failures, sent, others, accepted>>
    <3>1. cache' = cache \/ cache' = [cache EXCEPT ![Client(c)] = TRUE]
      BY <1>2 DEF Begin, ResolveQueueUrl, GetQueueUrl, StoreUrl
    <3>2. cache' \in [Clients -> BOOLEAN]
      BY <3>1 DEF IInv, TypeOK
    <3> QED
      BY <1>2, <3>2 DEF Begin, ResolveQueueUrl, GetQueueUrl, StoreUrl
  <2>3. TypeOK
    BY DEF IInv
  <2>4. /\ queue \in [Queues -> Clients \cup {"absent", "other"}]
        /\ created \in [Calls -> BOOLEAN] /\ missing \in [PublishCalls -> BOOLEAN]
        /\ failures \in 0..MaxFailures
    BY <2>3 DEF TypeOK
  <2> QED
    BY <2>1, <2>2, <2>3, <2>4, TypeFrame
<1>3. ASSUME NEW c \in Calls, CreateSource(c) PROVE TypeOK'
  <2>1. \E label \in PcType : Goto(c, label) /\ (c \in PublishCalls => label # "ok")
    BY <1>3, CreateGoesTo
  <2>2. /\ queue' \in [Queues -> Clients \cup {"absent", "other"}]
        /\ created' \in [Calls -> BOOLEAN]
        /\ failures' \in 0..MaxFailures
    BY <1>3, ProvisioningAssumption
       DEF CreateSource, CreateQueue, Answer, IInv, TypeOK, Queues, Client, Clients
  <2>3. /\ pc[c] # "ok" /\ Witness
        /\ UNCHANGED <<config, cache, missing, sent, others, accepted>>
    BY <1>3 DEF CreateSource
  <2>4. TypeOK /\ cache \in [Clients -> BOOLEAN] /\ missing \in [PublishCalls -> BOOLEAN]
    BY DEF IInv, TypeOK
  <2> QED
    BY <2>1, <2>2, <2>3, <2>4, TypeFrame
<1>4. ASSUME NEW c \in Calls,
             GetDlqUrl(c) \/ RefreshDlq(c) \/ CreateDlq(c) \/ ResolveDlq(c) \/ GetDlqArn(c) \/ ApiFails(c)
      PROVE  TypeOK'
  <2>1. \E label \in PcType : Goto(c, label) /\ label # "ok"
    BY <1>4 DEF GetDlqUrl, RefreshDlq, CreateDlq, ResolveDlq, GetDlqArn, ApiFails,
                AfterDlqMissing, AfterFailure, CreateQueue, Answer
  <2>2. /\ queue' \in [Queues -> Clients \cup {"absent", "other"}]
        /\ failures' \in 0..MaxFailures
    BY <1>4, ProvisioningAssumption
       DEF GetDlqUrl, RefreshDlq, CreateDlq, ResolveDlq, GetDlqArn, ApiFails,
           CreateQueue, Answer, IInv, TypeOK, Queues, Client, Clients
  <2>3. /\ pc[c] # "ok" /\ Witness
        /\ UNCHANGED <<config, cache, created, missing, sent, others, accepted>>
    BY <1>4 DEF GetDlqUrl, RefreshDlq, CreateDlq, ResolveDlq, GetDlqArn, ApiFails
  <2>4. /\ TypeOK /\ cache \in [Clients -> BOOLEAN]
        /\ created \in [Calls -> BOOLEAN] /\ missing \in [PublishCalls -> BOOLEAN]
    BY DEF IInv, TypeOK
  <2> QED
    BY <2>1, <2>2, <2>3, <2>4, TypeFrame
<1>5. ASSUME NEW c \in PublishCalls, Send(c) PROVE TypeOK'
  <2>1. sent[c] \in 0..MessageCount /\ sent[c] # MessageCount /\ c \in Calls
    BY <1>5 DEF Send, IInv, TypeOK, Calls
  <2>2. \/ pc' = [pc EXCEPT ![c] = "failed"] /\ sent' = sent
        \/ pc' = [pc EXCEPT ![c] = AfterSend(c)] /\ sent' = [sent EXCEPT ![c] = @ + 1]
    BY <1>5, <2>1 DEF Send, Answer, Goto, AfterSend, IInv, TypeOK
  <2>3. /\ pc' \in [Calls -> PcType]
        /\ sent' \in [PublishCalls -> 0..MessageCount]
        /\ \A d \in PublishCalls : pc'[d] = "ok" <=> sent'[d] = MessageCount
    BY <1>5, <2>1, <2>2, ProvisioningAssumption DEF Send, AfterSend, IInv, TypeOK, Calls
  <2>4. accepted' \in [PublishCalls -> SUBSET (1..MessageCount)]
    <3>1. sent[c] + 1 \in 1..MessageCount
      BY <2>1, ProvisioningAssumption
    <3> QED
      BY <1>5, <3>1 DEF Send, IInv, TypeOK
  <2>5. failures' \in 0..MaxFailures
    BY <1>5, ProvisioningAssumption DEF Send, Answer, IInv, TypeOK
  <2>6. /\ seen' \in [Calls -> BOOLEAN] /\ gone' \in [Calls -> BOOLEAN]
      /\ lost' \in SUBSET Calls /\ dlqMade' \in BOOLEAN
    BY <1>5, WitnessType DEF Send, IInv
  <2> QED
    BY <1>5, <2>3, <2>4, <2>5, <2>6 DEF Send, IInv, TypeOK
<1>6. ASSUME NEW c \in PublishCalls, SendRefused(c) PROVE TypeOK'
  <2>1. \E label \in PcType : Goto(c, label) /\ label # "ok"
    BY <1>6 DEF SendRefused, AfterRefusal
  <2>2. missing' \in [PublishCalls -> BOOLEAN] /\ pc[c] # "ok" /\ Witness /\ c \in Calls
        /\ UNCHANGED <<config, queue, cache, created, sent, others, failures, accepted>>
    BY <1>6 DEF SendRefused, IInv, TypeOK, Calls
  <2>3. /\ TypeOK /\ cache \in [Clients -> BOOLEAN]
        /\ queue \in [Queues -> Clients \cup {"absent", "other"}]
        /\ created \in [Calls -> BOOLEAN] /\ failures \in 0..MaxFailures
    BY DEF IInv, TypeOK
  <2> QED
    BY <2>1, <2>2, <2>3, TypeFrame
<1>7. ASSUME NEW q \in Queues, OtherProgram(q) PROVE TypeOK'
  <2>1. /\ seen' \in [Calls -> BOOLEAN] /\ gone' \in [Calls -> BOOLEAN]
      /\ lost' \in SUBSET Calls /\ dlqMade' \in BOOLEAN
    BY <1>7, WitnessType DEF OtherProgram, IInv
  <2> QED
    BY <1>7, <2>1, ProvisioningAssumption DEF OtherProgram, IInv, TypeOK
<1> QED
  BY <1>1, <1>2, <1>3, <1>4, <1>5, <1>6, <1>7
     DEF Next, CallStep, PublishStep, Terminated

-----------------------------------------------------------------------------
(* Only SendMessage moves a Publish forward.                               *)
LEMMA ProgressStep == ASSUME IInv, [Next]_vars PROVE Progress'
<1>1. CASE UNCHANGED <<sent, accepted>>
  BY <1>1 DEF IInv, Progress
<1>2. ASSUME NEW c \in PublishCalls, Send(c) PROVE Progress'
  <2>1. sent[c] \in Nat /\ accepted[c] \in {1..sent[c], 1..(sent[c] + 1)}
    BY ProvisioningAssumption DEF IInv, TypeOK, Progress
  <2>2. accepted'[c] = accepted[c] \cup {sent[c] + 1} /\ sent'[c] \in {sent[c], sent[c] + 1}
    BY <1>2 DEF Send, IInv, TypeOK
  <2>3. accepted'[c] = 1..(sent[c] + 1)
    BY <2>1, <2>2
  <2>4. \A d \in PublishCalls \ {c} : sent'[d] = sent[d] /\ accepted'[d] = accepted[d]
    BY <1>2 DEF Send, IInv, TypeOK
  <2> QED
    BY <2>2, <2>3, <2>4 DEF IInv, Progress
<1> QED
  BY <1>1, <1>2
     DEF Next, CallStep, PublishStep, Terminated, vars, Begin, ResolveQueueUrl, GetQueueUrl,
         StoreUrl, CreateSource, GetDlqUrl, RefreshDlq, CreateDlq, ResolveDlq, GetDlqArn,
         ApiFails, SendRefused, OtherProgram

(* No step but GetDlqArn brings a subscriber with a dead-letter queue to   *)
(* CreateQueue.                                                            *)
LEMMA ArnStep == ASSUME IInv, [Next]_vars PROVE ArnFirst' /\ RedriveHasTarget'
<1>1. CASE UNCHANGED vars
  BY <1>1 DEF IInv, ArnFirst, RedriveHasTarget, Exists, vars
<1>2. CASE ~UNCHANGED vars
  <2>1. dlqMade' = (dlqMade \/ queue'["dlq"] # "absent")
    BY <1>2 DEF Next, CallStep, PublishStep, Terminated, Witness, Begin, ResolveQueueUrl,
         GetQueueUrl, StoreUrl, CreateSource, GetDlqUrl, RefreshDlq, CreateDlq, ResolveDlq,
         GetDlqArn, ApiFails, Send, SendRefused, OtherProgram
  <2>2. Exists("dlq")' => dlqMade'
    BY <2>1 DEF Exists
  <2>3. ASSUME DeadLetters, NEW c \in Calls \ PublishCalls, pc'[c] = "create"
        PROVE  dlqMade'
    <3>1. CASE pc[c] = "create"
      BY <3>1, <2>1, <2>3 DEF IInv, ArnFirst
    <3>2. CASE pc[c] # "create"
      <4>1. GetDlqArn(c) => dlqMade
        BY <2>3, <3>2 DEF GetDlqArn, Goto, IInv, TypeOK, ArnFirst
      <4>2. ASSUME NEW d \in Calls, NEW label, Goto(d, label),
                   d \notin PublishCalls => label # "create"
            PROVE  FALSE
        BY <4>2, <2>3, <3>2 DEF Goto, IInv, TypeOK
      <4>3. ASSUME NEW d \in Calls, NEW exists, Resolved(d, exists)
            PROVE  FALSE
        <5>1. PICK label \in PcType : Goto(d, label) /\ (d \notin PublishCalls => label # "create")
          BY <4>3, <2>3, ResolvedGoesTo
        <5> QED
          BY <5>1, <4>2
      <4>4. ASSUME NEW d \in Calls, Begin(d) \/ ResolveQueueUrl(d) \/ GetQueueUrl(d) \/ StoreUrl(d)
            PROVE  FALSE
        BY <4>4, <4>2, <4>3 DEF Begin, ResolveQueueUrl, GetQueueUrl, StoreUrl
      <4>5. ASSUME NEW d \in Calls, CreateSource(d) PROVE FALSE
        <5>1. PICK label \in PcType : Goto(d, label) /\ (d \notin PublishCalls => label # "create")
          BY <4>5, CreateGoesTo
        <5> QED
          BY <5>1, <4>2
      <4>6. ASSUME NEW d \in Calls, GetDlqUrl(d) \/ RefreshDlq(d) \/ CreateDlq(d) \/ ResolveDlq(d) \/ ApiFails(d)
            PROVE  FALSE
        <5>1. PICK label : Goto(d, label) /\ label # "create"
          BY <4>6 DEF GetDlqUrl, RefreshDlq, CreateDlq, ResolveDlq, ApiFails,
                      AfterDlqMissing, AfterFailure, CreateQueue, Answer
        <5> QED
          BY <5>1, <4>2
      <4>7. ASSUME NEW d \in Calls, GetDlqArn(d) PROVE dlqMade
        <5>1. CASE d = c
          BY <5>1, <4>7, <4>1
        <5>2. CASE d # c
          BY <5>2, <4>7, <2>3, <3>2 DEF GetDlqArn, Goto, IInv, TypeOK
        <5> QED
          BY <5>1, <5>2
      <4>8. ASSUME NEW d \in PublishCalls, Send(d) \/ SendRefused(d) PROVE FALSE
        BY <4>8, <2>3, <3>2 DEF Send, SendRefused, Answer, Goto, IInv, TypeOK, Calls
      <4>9. ASSUME NEW q \in Queues, OtherProgram(q) PROVE FALSE
        BY <4>9, <2>3, <3>2 DEF OtherProgram
      <4> QED
        BY <1>2, <2>1, <4>4, <4>5, <4>6, <4>7, <4>8, <4>9 DEF Next, CallStep, PublishStep, Terminated
    <3> QED
      BY <3>1, <3>2
  <2>4. ASSUME DeadLetters, queue'["source"] = "subscriber" PROVE dlqMade'
    <3>1. CASE queue["source"] = "subscriber"
      BY <3>1, <2>1, <2>4 DEF IInv, RedriveHasTarget
    <3>2. CASE queue["source"] # "subscriber"
      <4>1. ASSUME NEW d \in Calls, CreateSource(d) PROVE dlqMade
        BY <4>1, <2>4, <3>2
           DEF CreateSource, CreateQueue, Client, IInv, TypeOK, ArnFirst, Queues
      <4>2. ASSUME NEW d \in Calls, RefreshDlq(d) \/ CreateDlq(d) PROVE FALSE
        BY <4>2, <2>4, <3>2 DEF RefreshDlq, CreateDlq, CreateQueue, IInv, TypeOK, Queues
      <4>3. ASSUME NEW q \in Queues, OtherProgram(q) PROVE FALSE
        BY <4>3, <2>4, <3>2 DEF OtherProgram, IInv, TypeOK, Queues
      <4> QED
        BY <1>2, <2>1, <2>4, <3>2, <4>1, <4>2, <4>3
           DEF Next, CallStep, PublishStep, Terminated, Begin, ResolveQueueUrl, GetQueueUrl,
               StoreUrl, GetDlqUrl, ResolveDlq, GetDlqArn, ApiFails, Send, SendRefused
    <3> QED
      BY <3>1, <3>2
  <2> QED
    BY <2>2, <2>3, <2>4 DEF ArnFirst, RedriveHasTarget
<1> QED
  BY <1>1, <1>2

-----------------------------------------------------------------------------
(* The history of a Publish: seen is lost only when SQS refuses a message. *)
LEMMA SeenStep ==
    ASSUME IInv, Witness, NEW c \in PublishCalls
    PROVE  /\ seen[c] /\ missing'[c] = missing[c] => seen'[c]
           /\ Active(c) /\ queue'["source"] # "absent" => seen'[c]
<1>1. c \in Calls
  BY DEF Calls
<1> QED
  BY <1>1 DEF Witness

(* No step changes how publisher and subscriber are configured.            *)
LEMMA ConfigStep == ASSUME [Next]_vars PROVE config' = config
<1>1. CASE UNCHANGED vars
  BY <1>1 DEF vars
<1>2. ASSUME NEW c \in Calls, CallStep(c) PROVE config' = config
  BY <1>2 DEF CallStep, Begin, ResolveQueueUrl, GetQueueUrl, StoreUrl, CreateSource,
        GetDlqUrl, RefreshDlq, CreateDlq, ResolveDlq, GetDlqArn, ApiFails
<1>3. ASSUME NEW c \in PublishCalls, PublishStep(c) PROVE config' = config
  BY <1>3 DEF PublishStep, Send, SendRefused
<1>4. ASSUME NEW q \in Queues, OtherProgram(q) PROVE config' = config
  BY <1>4 DEF OtherProgram
<1> QED
  BY <1>1, <1>2, <1>3, <1>4 DEF Next, Terminated, vars

(* A Publish whose queue is missing resolves it once more after it has     *)
(* made sure of it.                                                        *)
LEMMA HealStep == ASSUME IInv, [Next]_vars PROVE ResolvesAgain' /\ FailedPublishHeals'
<1>1. CASE UNCHANGED vars
  BY <1>1 DEF IInv, ResolvesAgain, FailedPublishHeals, PublisherCreates, vars
<1>2. SUFFICES ASSUME ~UNCHANGED vars, NEW c \in PublishCalls
      PROVE  /\ created'[c] /\ pc'[c] \in {"resolve", "lookup", "store"} => seen'[c]
             /\ PublisherCreates /\ pc'[c] = "error" => seen'[c]
  BY <1>1, ConfigStep DEF ResolvesAgain, FailedPublishHeals, PublisherCreates
<1> c \in Calls
  BY DEF Calls
<1>3. CASE UNCHANGED <<pc, created, missing>> /\ Witness
  BY <1>3, SeenStep DEF IInv, ResolvesAgain, FailedPublishHeals
<1>4. ASSUME NEW d \in Calls, NEW label, Goto(d, label), Witness,
             d # c, missing'[c] = missing[c], created'[c] = created[c]
      PROVE  /\ created'[c] /\ pc'[c] \in {"resolve", "lookup", "store"} => seen'[c]
             /\ PublisherCreates /\ pc'[c] = "error" => seen'[c]
  <2>1. pc'[c] = pc[c]
    BY <1>4 DEF Goto, IInv, TypeOK
  <2> QED
    BY <2>1, <1>4, SeenStep DEF IInv, ResolvesAgain, FailedPublishHeals
<1>5. ASSUME Begin(c) \/ ResolveQueueUrl(c) \/ GetQueueUrl(c) \/ StoreUrl(c)
      PROVE  /\ created'[c] /\ pc'[c] \in {"resolve", "lookup", "store"} => seen'[c]
             /\ PublisherCreates /\ pc'[c] = "error" => seen'[c]
  <2>1. Witness /\ UNCHANGED <<created, missing>>
    BY <1>5 DEF Begin, ResolveQueueUrl, GetQueueUrl, StoreUrl
  <2>2. CASE pc[c] = "idle"
    <3>1. pc'[c] = "resolve" /\ ~created[c]
      BY <1>5, <2>2 DEF Begin, ResolveQueueUrl, GetQueueUrl, StoreUrl, Goto, IInv, TypeOK, NotBegun
    <3> QED
      BY <3>1, <2>1
  <2>3. CASE pc[c] # "idle"
    <3>1. created[c] => seen'[c]
      BY <1>5, <2>1, <2>3, SeenStep
         DEF Begin, ResolveQueueUrl, GetQueueUrl, StoreUrl, IInv, ResolvesAgain
    <3>2. pc'[c] = "error" => created[c]
      <4>1. ASSUME NEW exists, Resolved(c, exists), pc'[c] = "error" PROVE created[c]
        <5>1. PICK label \in PcType : Goto(c, label) /\ (label = "error" => created[c])
          BY <4>1, ResolvedGoesTo
        <5> QED
          BY <4>1, <5>1 DEF Goto, IInv, TypeOK
      <4>2. ASSUME Goto(c, "lookup") \/ Goto(c, "store") PROVE pc'[c] # "error"
        BY <4>2 DEF Goto, IInv, TypeOK
      <4> QED
        BY <1>5, <2>3, <4>1, <4>2 DEF Begin, ResolveQueueUrl, GetQueueUrl, StoreUrl
    <3> QED
      BY <2>1, <3>1, <3>2
  <2> QED
    BY <2>2, <2>3
<1>6. ASSUME CreateSource(c) PROVE seen'[c]
  <2>1. Active(c) /\ Witness
    BY <1>6 DEF CreateSource, Active, Final
  <2>2. queue'["source"] # "absent"
    BY <1>6 DEF CreateSource, CreateQueue, Exists, Client, IInv, TypeOK, Queues
  <2> QED
    BY <2>1, <2>2, SeenStep
<1>7. ASSUME GetDlqUrl(c) \/ RefreshDlq(c) \/ CreateDlq(c) \/ ResolveDlq(c) \/ GetDlqArn(c) \/ ApiFails(c)
      PROVE  pc'[c] \notin {"resolve", "lookup", "store", "error"}
  BY <1>7 DEF GetDlqUrl, RefreshDlq, CreateDlq, ResolveDlq, GetDlqArn, ApiFails,
              AfterDlqMissing, AfterFailure, CreateQueue, Answer, Goto, IInv, TypeOK
<1>8. ASSUME Send(c) PROVE pc'[c] \notin {"resolve", "lookup", "store", "error"}
  BY <1>8 DEF Send, Answer, AfterSend, Goto, IInv, TypeOK
<1>9. ASSUME SendRefused(c)
      PROVE  /\ pc'[c] \notin {"resolve", "lookup", "store"}
             /\ PublisherCreates => pc'[c] # "error"
  BY <1>9 DEF SendRefused, AfterRefusal, Goto, IInv, TypeOK
<1>10. ASSUME NEW d \in Calls, d # c,
              CallStep(d) \/ (d \in PublishCalls /\ PublishStep(d))
       PROVE  /\ created'[c] /\ pc'[c] \in {"resolve", "lookup", "store"} => seen'[c]
              /\ PublisherCreates /\ pc'[c] = "error" => seen'[c]
  <2>1. Witness
    BY <1>10 DEF CallStep, PublishStep, Begin, ResolveQueueUrl, GetQueueUrl, StoreUrl, CreateSource,
          GetDlqUrl, RefreshDlq, CreateDlq, ResolveDlq, GetDlqArn, ApiFails, Send, SendRefused
  <2>2. missing'[c] = missing[c] /\ created'[c] = created[c]
    BY <1>10 DEF CallStep, PublishStep, Begin, ResolveQueueUrl, GetQueueUrl, StoreUrl, CreateSource,
          GetDlqUrl, RefreshDlq, CreateDlq, ResolveDlq, GetDlqArn, ApiFails, Send, SendRefused,
          IInv, TypeOK
  <2>3. \E label : Goto(d, label)
    <3>1. ASSUME NEW exists, Resolved(d, exists) PROVE \E label : Goto(d, label)
      BY <3>1, ResolvedGoesTo
    <3>2. CASE CallStep(d)
      <4>1. CASE Begin(d) \/ ResolveQueueUrl(d) \/ GetQueueUrl(d) \/ StoreUrl(d)
        BY <4>1, <3>1 DEF Begin, ResolveQueueUrl, GetQueueUrl, StoreUrl
      <4>2. CASE CreateSource(d)
        BY <4>2, CreateGoesTo
      <4>3. CASE GetDlqUrl(d) \/ RefreshDlq(d) \/ CreateDlq(d) \/ ResolveDlq(d) \/ GetDlqArn(d) \/ ApiFails(d)
        BY <4>3 DEF GetDlqUrl, RefreshDlq, CreateDlq, ResolveDlq, GetDlqArn, ApiFails, CreateQueue, Answer
      <4> QED
        BY <3>2, <4>1, <4>2, <4>3 DEF CallStep
    <3>3. CASE d \in PublishCalls /\ PublishStep(d)
      BY <3>3 DEF PublishStep, Send, SendRefused, Answer
    <3> QED
      BY <1>10, <3>2, <3>3
  <2> QED
    BY <1>10, <2>1, <2>2, <2>3, <1>4
<1>11. ASSUME NEW q \in Queues, OtherProgram(q)
       PROVE  UNCHANGED <<pc, created, missing>> /\ Witness
  BY <1>11 DEF OtherProgram
<1> QED
  BY <1>2, <1>3, <1>5, <1>6, <1>7, <1>8, <1>9, <1>10, <1>11
     DEF Next, CallStep, PublishStep, Terminated, Calls

(* A call that has not begun has created nothing.                          *)
LEMMA NotBegunStep == ASSUME IInv, [Next]_vars PROVE NotBegun'
<1>1. CASE UNCHANGED vars
  BY <1>1 DEF IInv, NotBegun, vars
<1>2. SUFFICES ASSUME NEW c \in Calls, pc'[c] = "idle", ~UNCHANGED vars
      PROVE  ~created'[c]
  BY <1>1 DEF NotBegun
<1>3. ASSUME NEW d \in Calls, NEW label, Goto(d, label), label # "idle"
      PROVE  pc[c] = "idle" /\ d # c
  BY <1>3, <1>2 DEF Goto, IInv, TypeOK
<1>4. ASSUME NEW d \in Calls, CallStep(d) PROVE ~created'[c]
  <2>1. ASSUME NEW exists, Resolved(d, exists) PROVE pc[c] = "idle" /\ d # c
    <3>1. PICK label \in PcType : Goto(d, label) /\ label # "idle"
      BY <2>1, ResolvedGoesTo
    <3> QED
      BY <3>1, <1>3
  <2>2. CASE Begin(d) \/ ResolveQueueUrl(d) \/ GetQueueUrl(d) \/ StoreUrl(d)
    BY <2>2, <2>1, <1>3 DEF Begin, ResolveQueueUrl, GetQueueUrl, StoreUrl, IInv, NotBegun
  <2>3. CASE CreateSource(d)
    <3>1. PICK label \in PcType : Goto(d, label) /\ label # "idle"
      BY <2>3, CreateGoesTo
    <3> QED
      BY <2>3, <3>1, <1>3 DEF CreateSource, IInv, TypeOK, NotBegun
  <2>4. CASE GetDlqUrl(d) \/ RefreshDlq(d) \/ CreateDlq(d) \/ ResolveDlq(d) \/ GetDlqArn(d) \/ ApiFails(d)
    <3>1. PICK label : Goto(d, label) /\ label # "idle"
      BY <2>4 DEF GetDlqUrl, RefreshDlq, CreateDlq, ResolveDlq, GetDlqArn, ApiFails,
                  AfterDlqMissing, AfterFailure, CreateQueue, Answer
    <3>2. pc[c] = "idle"
      BY <3>1, <1>3
    <3>3. created' = created
      BY <2>4 DEF GetDlqUrl, RefreshDlq, CreateDlq, ResolveDlq, GetDlqArn, ApiFails
    <3> QED
      BY <3>2, <3>3 DEF IInv, NotBegun
  <2> QED
    BY <1>4, <2>2, <2>3, <2>4 DEF CallStep
<1>5. ASSUME NEW d \in PublishCalls, PublishStep(d) PROVE ~created'[c]
  <2>1. PICK label : Goto(d, label) /\ label # "idle"
    BY <1>5 DEF PublishStep, Send, SendRefused, Answer, AfterSend, AfterRefusal
  <2>2. pc[c] = "idle"
    BY <2>1, <1>3 DEF Calls
  <2> QED
    BY <1>5, <2>2 DEF PublishStep, Send, SendRefused, IInv, NotBegun
<1>6. ASSUME NEW q \in Queues, OtherProgram(q) PROVE ~created'[c]
  BY <1>6, <1>2 DEF OtherProgram, IInv, NotBegun
<1> QED
  BY <1>2, <1>4, <1>5, <1>6 DEF Next, Terminated

(* No call has begun, no queue exists and no URL is cached.                *)
LEMMA InitInv == Init => IInv
<1> SUFFICES ASSUME Init PROVE IInv
  OBVIOUS
<1>1. TypeOK
  <2>1. /\ sent \in [PublishCalls -> 0..MessageCount] /\ 0 # MessageCount
        /\ others \in 0..MaxOther /\ failures \in 0..MaxFailures
    BY ProvisioningAssumption DEF Init
  <2>2. \A c \in PublishCalls : pc[c] = "ok" <=> sent[c] = MessageCount
    BY <2>1 DEF Init, Calls
  <2>3. config \in Configs /\ queue \in [Queues -> Clients \cup {"absent", "other"}] /\ cache \in [Clients -> BOOLEAN]
    BY DEF Init
  <2>4. /\ pc \in [Calls -> {"idle", "resolve", "store"} \cup ApiCalls \cup Final]
        /\ accepted \in [PublishCalls -> SUBSET (1..MessageCount)]
    BY DEF Init
  <2>5. /\ created \in [Calls -> BOOLEAN] /\ missing \in [PublishCalls -> BOOLEAN]
        /\ seen \in [Calls -> BOOLEAN] /\ gone \in [Calls -> BOOLEAN]
        /\ lost \in SUBSET Calls /\ dlqMade \in BOOLEAN
    BY DEF Init
  <2> QED
    BY <2>1, <2>2, <2>3, <2>4, <2>5 DEF TypeOK
<1>2. Progress
  <2> SUFFICES ASSUME NEW c \in PublishCalls
               PROVE  accepted[c] = 1..sent[c]
    BY DEF Progress
  <2>1. accepted[c] = {} /\ sent[c] = 0
    BY DEF Init
  <2>2. 1..0 = {}
    OBVIOUS
  <2> QED
    BY <2>1, <2>2
<1>3. NotBegun /\ ArnFirst /\ RedriveHasTarget
  BY DEF Init, NotBegun, ArnFirst, RedriveHasTarget, Exists, Queues
<1>4. ResolvesAgain /\ FailedPublishHeals
  BY DEF Init, ResolvesAgain, FailedPublishHeals, Calls
<1> QED
  BY <1>1, <1>2, <1>3, <1>4 DEF IInv

(* The invariant is inductive.                                             *)
LEMMA Inductive == IInv /\ [Next]_vars => IInv'
BY TypeStep, NotBegunStep, ProgressStep, ArnStep, HealStep DEF IInv

(* The inductive invariant: how far each Publish is, where a dead-letter   *)
(* queue must have been made, and what a Publish has seen of the queue.    *)
THEOREM Invariance == Spec => []IInv
BY InitInv, Inductive, PTL DEF Spec

(* Type correctness of the provisioning model.                             *)
THEOREM TypeCorrect == Spec => []TypeOK
<1>1. IInv => TypeOK
  BY DEF IInv
<1> QED
  BY <1>1, Invariance, PTL

(* publisher.go: Publish returns nil only if SQS accepted all its          *)
(* messages, and accepts them in the order they were given.                *)
THEOREM PublishedInOrderHolds == Spec => []PublishedInOrder
<1>1. IInv => PublishedInOrder
  <2> SUFFICES ASSUME IInv, NEW c \in PublishCalls
               PROVE  /\ pc[c] = "ok" => accepted[c] = 1..MessageCount
                      /\ \A i \in accepted[c] : 1..i \subseteq accepted[c]
    BY DEF PublishedInOrder
  <2>1. /\ sent[c] \in 0..MessageCount /\ MessageCount \in Nat
        /\ accepted[c] \subseteq 1..MessageCount
        /\ accepted[c] \in {1..sent[c], 1..(sent[c] + 1)}
        /\ pc[c] = "ok" <=> sent[c] = MessageCount
    BY ProvisioningAssumption DEF IInv, TypeOK, Progress
  <2>2. ASSUME pc[c] = "ok" PROVE accepted[c] = 1..MessageCount
    <3>1. 1..MessageCount \subseteq accepted[c]
      BY <2>1, <2>2
    <3> QED
      BY <2>1, <3>1
  <2>3. ASSUME NEW i \in accepted[c] PROVE 1..i \subseteq accepted[c]
    BY <2>1
  <2> QED
    BY <2>2, <2>3
<1> QED
  BY <1>1, Invariance, PTL

(* publisher.go: a Publish that fails because its queue is missing has     *)
(* made sure that the queue exists again.                                  *)
THEOREM FailedPublishHealsHolds == Spec => []FailedPublishHeals
<1>1. IInv => FailedPublishHeals
  BY DEF IInv
<1> QED
  BY <1>1, Invariance, PTL

(* subscriber.go: a redrive policy points to a dead-letter queue that was  *)
(* provisioned before the source queue.                                    *)
THEOREM RedriveHasTargetHolds == Spec => []RedriveHasTarget
<1>1. IInv => RedriveHasTarget
  BY DEF IInv
<1> QED
  BY <1>1, Invariance, PTL

-----------------------------------------------------------------------------
(* What a call knows of the queue when it creates, caches or gives up.     *)

MayCreate(k) == IF k = "publisher" THEN PublisherCreates ELSE SubscriberCreates
Creating == {"create", "dlqGet", "dlqRefresh", "dlqCreate", "dlqResolve", "dlqArn"}

(* A call is on a path to CreateQueue only if its client may create queues. *)
CreatesIfAllowed == \A c \in Calls : pc[c] \in Creating => MayCreate(Client(c))

(* Only GetQueueUrlByNameUrlResolver, with its cache on, caches a URL.     *)
CachedByName ==
    /\ \A k \in Clients : cache[k] => config[k].resolver = "byName"
    /\ \A c \in Calls : pc[c] = "store" => Resolver(c) = "byName"

(* A queue that a call made sure of is there until it is deleted.          *)
CreatedStays == \A c \in Calls : created[c] => Exists("source") \/ c \in lost

Findings == /\ CreatesIfAllowed /\ CachedByName /\ CreatedStays
            /\ CheckedQueueExisted /\ NotFoundIsTrue /\ NilUrlNeedsDeletion

(* The kinds of calls are disjoint, and each has its client.               *)
LEMMA CallFacts ==
    ASSUME NEW c \in Calls
    PROVE  /\ c \in PublishCalls <=> c \notin InitializeCalls \cup SubscribeCalls
           /\ ~(c \in InitializeCalls /\ c \in SubscribeCalls)
           /\ Client(c) \in Clients
           /\ Client(c) = "publisher" <=> c \in PublishCalls
  BY ProvisioningAssumption DEF Calls, Client, Clients

(* The histories of a call grow (but Publish forgets what it has seen when *)
(* SQS refuses a message), and every step of the call adds to them.        *)
LEMMA HistoryGrows ==
    ASSUME Witness, NEW c \in Calls
    PROVE  /\ gone[c] => gone'[c]
           /\ pc'[c] # pc[c] /\ ~Exists("source")' => gone'[c]
           /\ c \notin PublishCalls /\ seen[c] => seen'[c]
           /\ pc'[c] # pc[c] /\ Exists("source")' => seen'[c]
           /\ c \in lost => c \in lost'
           /\ created[c] /\ Exists("source") => Exists("source")' \/ c \in lost'
  BY DEF Witness, Exists

(* What one step of a call may lead to.                                    *)
Leads(c, label) ==
    /\ label \in Creating => MayCreate(Client(c))
    /\ label = "store" => Resolver(c) = "byName"
    /\ label = "absent" => Resolver(c) = "generate" \/ ~Exists("source")'
    /\ label = "panic" => c \in lost
    /\ label = "ok" /\ c \notin PublishCalls =>
          Resolver(c) # "byNameUncached" \/ Exists("source")'

(* The answers of ResolveQueueUrl, and what its callers make of them.      *)
LEMMA AnswerLeads ==
    ASSUME NEW c \in Calls, NEW exists \in {"yes", "no", "unknown"}, Resolved(c, exists),
           exists = "yes" => Resolver(c) = "byName" \/ Exists("source")',
           exists = "no" => ~Exists("source")' /\ (created[c] => c \in lost),
           exists = "unknown" => Resolver(c) = "generate"
    PROVE  \E label : Goto(c, label) /\ Leads(c, label)
<1>0. /\ c \in PublishCalls <=> c \notin InitializeCalls \cup SubscribeCalls
      /\ Client(c) = "publisher" <=> c \in PublishCalls
  BY CallFacts
<1> USE DEF Creating, MayCreate, Leads
<1>1. CASE c \in PublishCalls
  <2> DEFINE label == PublisherGoesOn(c, exists)
  <2>1. /\ Goto(c, label) /\ label \in {"error", "send", "create", "absent"}
        /\ label = "create" => PublisherCreates
        /\ label = "absent" => exists # "yes"
    BY <1>1 DEF Resolved, PublisherGoesOn, QueueCreated
  <2> QED
    BY <1>0, <1>1, <2>1
<1>2. CASE c \in InitializeCalls
  <2> DEFINE label == InitializeGoesOn(exists)
  <2>1. /\ Goto(c, label) /\ label \in {"ok", "dlqGet", "create", "absent"}
        /\ label \in {"dlqGet", "create"} => SubscriberCreates
        /\ label = "absent" => exists # "yes"
        /\ label = "ok" => exists = "yes"
    BY <1>2 DEF Resolved, InitializeGoesOn, CreateSourceQueue
  <2> QED
    BY <1>0, <1>2, <2>1
<1>3. CASE c \in SubscribeCalls
  <2> DEFINE label == SubscribeGoesOn(c, exists)
  <2>1. /\ Goto(c, label) /\ label \in {"ok", "panic", "dlqGet", "create", "absent"}
        /\ label \in {"dlqGet", "create"} => SubscriberCreates
        /\ label = "absent" => exists # "yes"
        /\ label = "panic" => exists = "no" /\ created[c]
        /\ label = "ok" => exists # "no"
    BY <1>3 DEF Resolved, SubscribeGoesOn, CreateSourceQueue
  <2> QED
    BY <1>0, <1>3, <2>1
<1> QED
  BY <1>0, <1>1, <1>2, <1>3

(* Each step of a call goes to one label, for which the call has the       *)
(* reason that Leads gives.                                                *)
LEMMA StepLeads ==
    ASSUME IInv, Findings, NEW c \in Calls, CallStep(c) \/ (c \in PublishCalls /\ PublishStep(c))
    PROVE  \E label : Goto(c, label) /\ Leads(c, label)
<1>0. /\ Client(c) \in Clients /\ (Client(c) = "publisher" <=> c \in PublishCalls)
      /\ Resolver(c) = config[Client(c)].resolver
  BY CallFacts DEF Resolver
<1>1. CASE Begin(c)
  BY <1>1 DEF Begin, Leads, Creating
<1>2. CASE ResolveQueueUrl(c)
  <2>1. CASE Resolver(c) = "generate" /\ Resolved(c, "unknown")
    BY <2>1, AnswerLeads
  <2>2. CASE cache[Client(c)] /\ Resolved(c, "yes")
    BY <1>0, <2>2, AnswerLeads DEF Findings, CachedByName
  <2>3. CASE Goto(c, "lookup")
    BY <2>3 DEF Leads, Creating
  <2> QED
    BY <1>2, <2>1, <2>2, <2>3 DEF ResolveQueueUrl
<1>3. CASE GetQueueUrl(c)
  <2>0. Exists("source")' <=> Exists("source")
    BY <1>3 DEF GetQueueUrl, Exists
  <2>1. CASE Resolver(c) = "byName" /\ Goto(c, "store")
    BY <2>1 DEF Leads, Creating
  <2>2. CASE Exists("source") /\ Resolved(c, "yes")
    BY <2>0, <2>2, AnswerLeads
  <2>3. CASE ~Exists("source") /\ Resolved(c, "no")
    BY <2>0, <2>3, AnswerLeads DEF Findings, CreatedStays
  <2> QED
    BY <1>3, <2>1, <2>2, <2>3 DEF GetQueueUrl
<1>4. CASE StoreUrl(c)
  BY <1>4, AnswerLeads DEF StoreUrl, Findings, CachedByName
<1>5. CASE CreateSource(c)
  <2>1. Exists("source")'
    BY <1>5 DEF CreateSource, CreateQueue, Exists, IInv, TypeOK, Queues, Client
  <2>2. PICK label \in PcType :
            /\ Goto(c, label)
            /\ c \in PublishCalls => label \in {"error", "send", "resolve", "failed"}
            /\ c \notin PublishCalls => label \in {"ok", "resolve", "failed"}
    BY <1>5, CreateGoesTo
  <2> QED
    BY <2>1, <2>2 DEF Leads, Creating
<1>6. CASE GetDlqUrl(c) \/ RefreshDlq(c) \/ CreateDlq(c) \/ ResolveDlq(c) \/ GetDlqArn(c) \/ ApiFails(c)
  <2>1. PICK label : Goto(c, label) /\ label \in Creating \cup {"failed"}
    BY <1>6 DEF GetDlqUrl, RefreshDlq, CreateDlq, ResolveDlq, GetDlqArn, ApiFails, AfterDlqMissing,
                AfterFailure, CreateQueue, Answer, Creating
  <2>2. pc[c] \in Creating \/ label = "failed"
    BY <1>6, <2>1 DEF GetDlqUrl, RefreshDlq, CreateDlq, ResolveDlq, GetDlqArn, ApiFails,
                AfterFailure, Goto, Creating, IInv, TypeOK
  <2>3. label \in Creating => MayCreate(Client(c))
    BY <2>2 DEF Findings, CreatesIfAllowed, Creating
  <2> QED
    BY <2>1, <2>3 DEF Leads, Creating
<1>7. CASE c \in PublishCalls /\ Send(c)
  <2>1. PICK label : Goto(c, label) /\ label \in {"send", "ok", "failed"}
    BY <1>7 DEF Send, Answer, AfterSend
  <2> QED
    BY <1>7, <2>1 DEF Leads, Creating
<1>8. CASE c \in PublishCalls /\ SendRefused(c)
  <2>1. PICK label : Goto(c, label) /\ label \in {"create", "error"}
                     /\ (label = "create" => PublisherCreates)
    BY <1>8 DEF SendRefused, AfterRefusal
  <2> QED
    BY <1>0, <1>8, <2>1 DEF Leads, Creating, MayCreate
<1> QED
  BY <1>1, <1>2, <1>3, <1>4, <1>5, <1>6, <1>7, <1>8 DEF CallStep, PublishStep

(* One step as one call sees it: its own, or one that leaves it where it is. *)
LEMMA OwnOrOther ==
    ASSUME IInv, Findings, [Next]_vars, NEW c \in Calls
    PROVE  \/ UNCHANGED <<pc, seen, gone, lost>>
           \/ Witness /\ (pc'[c] = pc[c] \/ Leads(c, pc'[c]))
<1>1. ASSUME NEW d \in Calls, CallStep(d) \/ (d \in PublishCalls /\ PublishStep(d))
      PROVE  Witness /\ (pc'[c] = pc[c] \/ Leads(c, pc'[c]))
  <2>1. Witness
    BY <1>1 DEF CallStep, PublishStep, Begin, ResolveQueueUrl, GetQueueUrl, StoreUrl, CreateSource,
          GetDlqUrl, RefreshDlq, CreateDlq, ResolveDlq, GetDlqArn, ApiFails, Send, SendRefused
  <2>2. PICK label : Goto(d, label) /\ Leads(d, label)
    BY <1>1, StepLeads
  <2>3. pc'[c] = IF c = d THEN label ELSE pc[c]
    BY <2>2 DEF Goto, IInv, TypeOK
  <2> QED
    BY <2>1, <2>2, <2>3
<1>2. ASSUME NEW q \in Queues, OtherProgram(q) PROVE Witness /\ pc'[c] = pc[c]
  BY <1>2 DEF OtherProgram
<1> QED
  BY <1>1, <1>2 DEF Next, Terminated, vars, Calls

(* The cache, and the queue that a call made sure of.                      *)
LEMMA CacheStep == ASSUME IInv, Findings, [Next]_vars PROVE CachedByName' /\ CreatedStays'
<1>0. config' = config
  BY ConfigStep
<1>1. ASSUME NEW k \in Clients, cache'[k] PROVE config'[k].resolver = "byName"
  <2>1. cache[k] \/ \E d \in Calls : StoreUrl(d) /\ k = Client(d)
    <3>1. ASSUME NEW d \in Calls, CallStep(d), ~StoreUrl(d) PROVE cache' = cache
      BY <3>1 DEF CallStep, Begin, ResolveQueueUrl, GetQueueUrl, CreateSource,
            GetDlqUrl, RefreshDlq, CreateDlq, ResolveDlq, GetDlqArn, ApiFails
    <3>2. ASSUME NEW d \in Calls, StoreUrl(d) PROVE cache[k] \/ k = Client(d)
      BY <1>1, <3>2 DEF StoreUrl, IInv, TypeOK
    <3> QED
      BY <1>1, <3>1, <3>2 DEF Next, PublishStep, Send, SendRefused, OtherProgram, Terminated, vars
  <2> QED
    BY <1>0, <2>1 DEF Findings, CachedByName, StoreUrl, Resolver
<1>2. ASSUME NEW c \in Calls, pc'[c] = "store" PROVE Resolver(c)' = "byName"
  <2>1. Resolver(c)' = Resolver(c)
    BY <1>0 DEF Resolver, Client
  <2> QED
    BY <1>2, <2>1, OwnOrOther DEF Findings, CachedByName, Leads
<1>3. ASSUME NEW c \in Calls, created'[c] PROVE Exists("source")' \/ c \in lost'
  <2>1. ASSUME NEW d \in Calls, CreateSource(d) PROVE Exists("source")'
    BY <2>1 DEF CreateSource, CreateQueue, Exists, IInv, TypeOK, Queues, Client
  <2>2. ASSUME created' = created, Witness PROVE Exists("source")' \/ c \in lost'
    BY <1>3, <2>2, HistoryGrows DEF Findings, CreatedStays
  <2>3. ASSUME NEW d \in Calls, CallStep(d), ~CreateSource(d)
        PROVE  created' = created /\ Witness
    BY <2>3 DEF CallStep, Begin, ResolveQueueUrl, GetQueueUrl, StoreUrl, GetDlqUrl, RefreshDlq,
          CreateDlq, ResolveDlq, GetDlqArn, ApiFails
  <2>4. ASSUME NEW d \in PublishCalls, PublishStep(d) PROVE created' = created /\ Witness
    BY <2>4 DEF PublishStep, Send, SendRefused
  <2>5. ASSUME NEW q \in Queues, OtherProgram(q) PROVE created' = created /\ Witness
    BY <2>5 DEF OtherProgram
  <2>6. CASE UNCHANGED vars
    BY <1>3, <2>6 DEF Findings, CreatedStays, Exists, vars
  <2> QED
    BY <2>1, <2>2, <2>3, <2>4, <2>5, <2>6 DEF Next, Terminated
<1> QED
  BY <1>1, <1>2, <1>3 DEF CachedByName, CreatedStays

(* The second invariant is inductive relative to the first.                *)
LEMMA FindingsStep == ASSUME IInv, Findings, [Next]_vars PROVE Findings'
<1>0. /\ config' = config
      /\ \A c : Client(c)' = Client(c) /\ Resolver(c)' = Resolver(c)
      /\ \A k : MayCreate(k)' <=> MayCreate(k)
  BY ConfigStep DEF Client, Resolver, MayCreate, PublisherCreates, SubscriberCreates
<1>1. ASSUME NEW c \in Calls
      PROVE  /\ pc'[c] \in Creating => MayCreate(Client(c))
             /\ pc'[c] = "absent" /\ Resolver(c) # "generate" => gone'[c]
             /\ c \notin PublishCalls /\ pc'[c] = "ok" /\ Resolver(c) = "byNameUncached" => seen'[c]
             /\ c \in SubscribeCalls /\ pc'[c] = "panic" => c \in lost'
  <2>1. /\ pc[c] \in Creating => MayCreate(Client(c))
        /\ pc[c] = "absent" /\ Resolver(c) # "generate" => gone[c]
        /\ c \notin PublishCalls /\ pc[c] = "ok" /\ Resolver(c) = "byNameUncached" => seen[c]
        /\ c \in SubscribeCalls /\ pc[c] = "panic" => c \in lost
    BY CallFacts DEF Findings, CreatesIfAllowed, NotFoundIsTrue, CheckedQueueExisted, NilUrlNeedsDeletion
  <2>2. CASE UNCHANGED <<pc, seen, gone, lost>>
    BY <2>1, <2>2
  <2>3. CASE Witness /\ pc'[c] = pc[c]
    BY <2>1, <2>3, HistoryGrows
  <2>4. CASE Witness /\ pc'[c] # pc[c] /\ Leads(c, pc'[c])
    BY <2>4, HistoryGrows DEF Leads
  <2> QED
    BY <2>2, <2>3, <2>4, OwnOrOther
<1>2. CreatesIfAllowed' /\ NotFoundIsTrue'
  BY <1>0, <1>1 DEF CreatesIfAllowed, NotFoundIsTrue
<1>3. CheckedQueueExisted'
  <2>1. ASSUME NEW c \in InitializeCalls \cup SubscribeCalls
        PROVE  c \in Calls /\ c \notin PublishCalls
    BY ProvisioningAssumption DEF Calls
  <2> QED
    BY <1>0, <1>1, <2>1 DEF CheckedQueueExisted
<1>4. NilUrlNeedsDeletion'
  BY <1>1 DEF NilUrlNeedsDeletion, Calls
<1> QED
  BY <1>2, <1>3, <1>4, CacheStep DEF Findings

(* A step that makes a queue is one of CreateQueue.                        *)
LEMMA CreateStep ==
    ASSUME IInv, Findings, [Next]_vars, NEW k \in Clients, NEW q \in Queues,
           queue[q] = "absent", queue'[q] = k
    PROVE  MayCreate(k)
<1>1. \A d \in PublishCalls : ~PublishStep(d)
  BY DEF PublishStep, Send, SendRefused, Clients
<1>2. \A r \in Queues : ~OtherProgram(r)
  BY DEF OtherProgram, Clients, IInv, TypeOK
<1>3. ASSUME NEW d \in Calls, CallStep(d)
      PROVE  pc[d] \in Creating /\ k = Client(d)
  <2>1. CreateSource(d) \/ CreateDlq(d)
    BY <1>3 DEF CallStep, Begin, ResolveQueueUrl, GetQueueUrl, StoreUrl, GetDlqUrl, RefreshDlq,
          ResolveDlq, GetDlqArn, ApiFails, Exists, Clients, IInv, TypeOK
  <2> QED
    BY <2>1 DEF CreateSource, CreateDlq, CreateQueue, Creating, Exists, Clients, IInv, TypeOK
<1> QED
  BY <1>1, <1>2, <1>3 DEF Next, Terminated, vars, Clients, Findings, CreatesIfAllowed

(* No call has made sure of anything, and no URL is cached.                *)
LEMMA InitFindings == Init => Findings
  BY DEF Init, Findings, CreatesIfAllowed, Creating, CachedByName, CreatedStays,
         CheckedQueueExisted, NotFoundIsTrue, NilUrlNeedsDeletion, Calls

(* Both invariants hold in every state.                                    *)
LEMMA FindingsInvariance == Spec => [](IInv /\ Findings)
<1>1. Init => IInv /\ Findings
  BY InitInv, InitFindings
<1>2. (IInv /\ Findings) /\ [Next]_vars => (IInv /\ Findings)'
  BY Inductive, FindingsStep
<1> QED
  BY <1>1, <1>2, PTL DEF Spec

(* subscriber.go: with a resolver that asks SQS every time,                *)
(* SubscribeInitialize and Subscribe return nil only if there was a queue. *)
THEOREM CheckedQueueExistedHolds == Spec => []CheckedQueueExisted
<1>1. Findings => CheckedQueueExisted
  BY DEF Findings
<1> QED
  BY <1>1, FindingsInvariance, PTL

(* "queue for topic %s doesn't exist" is true of some moment of the call.  *)
THEOREM NotFoundIsTrueHolds == Spec => []NotFoundIsTrue
<1>1. Findings => NotFoundIsTrue
  BY DEF Findings
<1> QED
  BY <1>1, FindingsInvariance, PTL

(* subscriber.go: Subscribe dereferences a nil QueueURL only if the queue  *)
(* was deleted after this call had been through createQueue, as far as a   *)
(* queue is visible once it is created.                                    *)
THEOREM NilUrlNeedsDeletionHolds == Spec => []NilUrlNeedsDeletion
<1>1. Findings => NilUrlNeedsDeletion
  BY DEF Findings
<1> QED
  BY <1>1, FindingsInvariance, PTL

(* DoNotCreateQueueIfNotExists: a client that may not create queues makes  *)
(* none, neither the source queue nor its dead-letter queue.               *)
THEOREM OnlyAllowedCreateHolds == Spec => OnlyAllowedCreate
<1> DEFINE Allowed ==
      \A k \in Clients : (\E q \in Queues : queue[q] = "absent" /\ queue'[q] = k)
          => IF k = "publisher" THEN PublisherCreates ELSE SubscriberCreates
<1>1. IInv /\ Findings /\ [Next]_vars => [Allowed]_vars
  BY CreateStep DEF MayCreate
<1> QED
  BY <1>1, FindingsInvariance, PTL DEF Spec, OnlyAllowedCreate
=============================================================================
