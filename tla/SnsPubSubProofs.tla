--------------------------- MODULE SnsPubSubProofs ---------------------------
(***************************************************************************)
(* What is proved of SnsPubSub for any number of topics, queues, calls and *)
(* messages, and any number of failures and of steps of other programs:    *)
(* types, and the safety properties, by way of one inductive invariant.    *)
(***************************************************************************)
EXTENDS SnsPubSub, TLAPS

-----------------------------------------------------------------------------
(* The inductive invariant. *)

PcType == {"idle"} \cup PublishLabels \cup SubscribeLabels \cup Final

(* A Publish has sent its messages 1..sent[c], each once. The next one may *)
(* have been accepted without the caller learning it, and if so, the call  *)
(* is over.                                                                *)
Progress == \A c \in PublishCalls :
    /\ pc[c] = "idle" => sent[c] = 0
    /\ pc[c] \in {"idle"} \cup PublishLabels => sent[c] < MessageCount
    /\ pc[c] = "ok" => sent[c] = MessageCount
    /\ \A i \in 1..MessageCount :
          /\ i <= sent[c] => accepted[c][i] = 1
          /\ i = sent[c] + 1 => accepted[c][i] = 0 \/ (accepted[c][i] = 1 /\ pc[c] \in Final)
          /\ i > sent[c] + 1 => accepted[c][i] = 0

(* What PublishSucceeds counts as a reason to fail.                        *)
Excused(c) == \/ failures > 0
              \/ c \in disturbed
              \/ ~config.topic
              \/ OwnArn[topicOf[c]] # topicOf[c]

(* A Publish sends again when its topic is there.                          *)
TopicThere == \A c \in PublishCalls :
    pc[c] = "resend" => Excused(c) \/ topicOf[c] \in topics

(* How far a call that subscribes has come, until it is disturbed.         *)
Subscribes(c) == c \notin disturbed /\ (c \in InitializeCalls \/ config.subscription)

SubscribeProgress == \A c \in SubscriberCalls : Subscribes(c) =>
    /\ pc[c] \in {"policy", "subscribe", "consume", "ok"} => QueueFor(c) \in queues
    /\ pc[c] \in {"subscribe", "consume", "ok"} /\ config.policy /\ ~Shared(QueueFor(c)) =>
          topicOf[c] \in policy[QueueFor(c)]
    /\ pc[c] \in {"consume", "ok"} => <<topicOf[c], QueueFor(c)>> \in subs

(* Queue q was given the permission of topic a, and nobody took it away.   *)
Served(a, q) ==
    /\ \E c \in SubscriberCalls : topicOf[c] = a /\ QueueFor(c) = q
    /\ \/ q \in disturbed \/ Shared(q) \/ ~config.policy
       \/ q \in queues /\ a \in policy[q]

Permitted ==
    /\ \A c \in SubscriberCalls : pc[c] = "subscribe" => Served(topicOf[c], QueueFor(c))
    /\ \A a \in Arns, q \in Queues : <<a, q>> \in subs => Served(a, q)
    /\ \A n \in inFlight : Served(topicOf[n[1]], n[3])

(* The queues that a Publish must reach are subscribed until other         *)
(* programs delete its topic.                                              *)
AudienceSubscribed == \A c \in PublishCalls :
    pc[c] # "idle" /\ c \notin disturbed /\ config.subscription =>
        \A q \in audience[c] : <<topicOf[c], q>> \in subs

(* SNS has made a notification of every accepted message for every one of  *)
(* them, whatever has become of it since.                                  *)
Notified == \A c \in PublishCalls :
    c \notin disturbed /\ config.subscription =>
        \A i \in 1..MessageCount, q \in audience[c] :
            accepted[c][i] > 0 => <<c, i, q>> \in inFlight \cup delivered \cup refused

IInv == /\ TypeOK /\ pc \in [Calls -> PcType]
        /\ Progress /\ TopicThere
        /\ SubscribeProgress /\ Permitted
        /\ AudienceSubscribed /\ Notified
        /\ PublishSucceeds /\ NoMessageRefused

-----------------------------------------------------------------------------
(* Steps. *)

(* The kinds of calls are disjoint.                                        *)
LEMMA CallFacts ==
    /\ PublishCalls \subseteq Calls /\ SubscriberCalls \subseteq Calls
    /\ \A c \in PublishCalls : c \notin SubscriberCalls
    /\ Calls = PublishCalls \cup SubscriberCalls
    /\ InitializeCalls \subseteq SubscriberCalls /\ SubscribeCalls \subseteq SubscriberCalls
  BY SnsAssumption DEF SnsAssumption, Calls, SubscriberCalls

(* Where the calls' topics and queues are.                                 *)
LEMMA NameFacts ==
    ASSUME TypeOK, NEW c \in Calls
    PROVE  topicOf[c] \in Arns /\ OwnArn[topicOf[c]] \in Arns /\ QueueFor(c) \in Queues
  BY SnsAssumption DEF SnsAssumption, TypeOK, QueueFor

(* What no step changes, and what only grows.                              *)
LEMMA Monotone ==
    ASSUME TypeOK, [Next]_vars
    PROVE  /\ config' = config /\ topicOf' = topicOf
           /\ disturbed \subseteq disturbed'
           /\ failures > 0 => failures' > 0
<1>0. failures \in Nat
  BY SnsAssumption DEF SnsAssumption, TypeOK
<1> USE <1>0 DEF sqs, sns, notified
<1>1. ASSUME NEW c \in PublishCalls, PublishStep(c)
      PROVE  /\ UNCHANGED <<config, topicOf, disturbed>>
             /\ failures > 0 => failures' > 0
  BY <1>1 DEF PublishStep, BeginPublish, SnsPublish, TopicNotFound, CreateTopic, Answer
<1>2. ASSUME NEW c \in SubscriberCalls, SubscribeStep(c)
      PROVE  /\ UNCHANGED <<config, topicOf, disturbed>>
             /\ failures > 0 => failures' > 0
  BY <1>2 DEF SubscribeStep, BeginSubscribe, InitializeQueue, GetQueueUrl, GetQueueArn,
              SetQueuePolicy, SnsSubscribe, Consume, ProvisionQueue, Answer
<1>3. ASSUME NEW c \in Calls, ApiFails(c)
      PROVE  UNCHANGED <<config, topicOf, disturbed>> /\ failures' > 0
  BY <1>3 DEF ApiFails
<1>4. ASSUME NEW n \in Notifications, Deliver(n)
      PROVE  UNCHANGED <<config, topicOf, disturbed, failures>>
  BY <1>4 DEF Deliver
<1>5. ASSUME NEW a \in Arns, OtherTopic(a)
      PROVE  UNCHANGED <<config, topicOf, failures>> /\ disturbed \subseteq disturbed'
  BY <1>5 DEF OtherTopic
<1>6. ASSUME NEW q \in Queues, OtherQueue(q)
      PROVE  UNCHANGED <<config, topicOf, failures>> /\ disturbed \subseteq disturbed'
  BY <1>6 DEF OtherQueue
<1> QED
  BY <1>1, <1>2, <1>3, <1>4, <1>5, <1>6 DEF Next, Terminated, vars

-----------------------------------------------------------------------------
(* Types. *)

(* A step of Publish keeps the types.                                      *)
LEMMA PublishTypes ==
    ASSUME TypeOK, pc \in [Calls -> PcType], Progress,
           NEW c \in PublishCalls, PublishStep(c) \/ ApiFails(c)
    PROVE  TypeOK' /\ pc' \in [Calls -> PcType]
<1>0. c \in Calls /\ c \notin SubscriberCalls /\ MessageCount \in Nat /\ MaxFailures \in Nat
  BY CallFacts, SnsAssumption DEF SnsAssumption
<1> USE <1>0 DEF sqs, sns, notified, Goto, PcType
<1>1. CASE BeginPublish(c)
  <2>1. ReadyQueues(topicOf[c]) \subseteq Queues
    BY NameFacts, CallFacts DEF ReadyQueues
  <2> QED
    BY <1>1, <2>1 DEF BeginPublish, TypeOK, PublishLabels
<1>2. CASE SnsPublish(c)
  <2>1. sent[c] + 1 \in 1..MessageCount
    BY <1>2 DEF SnsPublish, TypeOK, Progress, PublishLabels
  <2>2. accepted[c][sent[c] + 1] + 1 \in Nat
    BY <2>1 DEF TypeOK
  <2>3. accepted' \in [PublishCalls -> [1..MessageCount -> Nat]]
    BY <1>2, <2>1, <2>2 DEF SnsPublish, TypeOK
  <2>4. sent' \in [PublishCalls -> 0..MessageCount] /\ failures' \in 0..MaxFailures
    BY <1>2, <2>1 DEF SnsPublish, Answer, TypeOK
  <2>5. inFlight' \subseteq Notifications
    <3>1. ASSUME NEW q \in Queues PROVE <<c, sent[c] + 1, q>> \in Notifications
      BY <2>1 DEF Notifications
    <3>2. inFlight' = inFlight \cup
              {<<c, sent[c] + 1, q>> : q \in {r \in Queues : <<topicOf[c], r>> \in subs}}
      BY <1>2 DEF SnsPublish
    <3>3. inFlight \subseteq Notifications
      BY DEF TypeOK
    <3> HIDE DEF Notifications
    <3> QED
      BY <3>1, <3>2, <3>3
  <2>6. \E label \in {"send", "ok", "error"} : pc' = [pc EXCEPT ![c] = label]
    BY <1>2 DEF SnsPublish, Answer, AfterSend, AfterError
  <2>7. /\ pc' \in [Calls -> PcType]
        /\ \A d \in PublishCalls : pc'[d] \in {"idle"} \cup PublishLabels \cup Final
        /\ \A d \in SubscriberCalls : pc'[d] \in {"idle"} \cup SubscribeLabels \cup Final
    BY <2>6, CallFacts DEF TypeOK, PublishLabels, Final
  <2> QED
    BY <1>2, <2>3, <2>4, <2>5, <2>7 DEF SnsPublish, TypeOK
<1>3. CASE TopicNotFound(c) \/ ApiFails(c)
  <2>1. \E label \in {"create", "error"} : pc' = [pc EXCEPT ![c] = label]
    BY <1>3 DEF TopicNotFound, ApiFails, AfterFailure, AfterError
  <2>2. /\ pc' \in [Calls -> PcType]
        /\ \A d \in PublishCalls : pc'[d] \in {"idle"} \cup PublishLabels \cup Final
        /\ \A d \in SubscriberCalls : pc'[d] \in {"idle"} \cup SubscribeLabels \cup Final
    BY <2>1, CallFacts DEF TypeOK, PublishLabels, Final
  <2> QED
    BY <1>3, <2>2 DEF TopicNotFound, ApiFails, TypeOK
<1>4. CASE CreateTopic(c)
  <2>1. \E label \in {"resend", "error"} : pc' = [pc EXCEPT ![c] = label]
    BY <1>4 DEF CreateTopic, Answer, AfterCreateTopic
  <2>2. /\ pc' \in [Calls -> PcType]
        /\ \A d \in PublishCalls : pc'[d] \in {"idle"} \cup PublishLabels \cup Final
        /\ \A d \in SubscriberCalls : pc'[d] \in {"idle"} \cup SubscribeLabels \cup Final
    BY <2>1, CallFacts DEF TypeOK, PublishLabels, Final
  <2>3. topics' \subseteq Arns /\ topics \subseteq topics' /\ failures' \in 0..MaxFailures
    BY <1>4, NameFacts DEF CreateTopic, Answer, TypeOK
  <2>4. subs' \subseteq topics' \X Queues
    BY <1>4, <2>3 DEF CreateTopic, TypeOK
  <2> QED
    BY <1>4, <2>2, <2>3, <2>4 DEF CreateTopic, TypeOK
<1> QED
  BY <1>1, <1>2, <1>3, <1>4 DEF PublishStep

(* A step of SubscribeInitialize or Subscribe keeps the types.             *)
LEMMA SubscribeTypes ==
    ASSUME TypeOK, pc \in [Calls -> PcType],
           NEW c \in SubscriberCalls, SubscribeStep(c) \/ ApiFails(c)
    PROVE  TypeOK' /\ pc' \in [Calls -> PcType]
<1>0. c \in Calls /\ c \notin PublishCalls /\ MaxFailures \in Nat
  BY CallFacts, SnsAssumption DEF SnsAssumption
<1>1. QueueFor(c) \in Queues /\ topicOf[c] \in Arns
  BY <1>0, NameFacts
<1> USE <1>0, <1>1 DEF sqs, sns, notified, Goto
<1>2. ASSUME NEW label \in SubscribeLabels \cup Final, pc' = [pc EXCEPT ![c] = label]
      PROVE  /\ pc' \in [Calls -> PcType]
             /\ \A d \in PublishCalls : pc'[d] \in {"idle"} \cup PublishLabels \cup Final
             /\ \A d \in SubscriberCalls : pc'[d] \in {"idle"} \cup SubscribeLabels \cup Final
  BY <1>2, CallFacts DEF TypeOK, PcType
<1>3. ASSUME NEW label \in SubscribeLabels \cup Final, ProvisionQueue(c, label)
      PROVE  /\ \E l \in SubscribeLabels \cup Final : pc' = [pc EXCEPT ![c] = l]
             /\ queues' \subseteq Queues /\ cache' \subseteq Queues
             /\ policy' \in [Queues -> SUBSET Arns] /\ failures' \in 0..MaxFailures
  BY <1>3 DEF ProvisionQueue, Answer, Store, TypeOK, Final
<1>4. CASE BeginSubscribe(c) \/ GetQueueUrl(c) \/ GetQueueArn(c) \/ ApiFails(c)
  <2>1. /\ \E l \in SubscribeLabels \cup Final : pc' = [pc EXCEPT ![c] = l]
        /\ cache' \subseteq Queues /\ failures' \in 0..MaxFailures
        /\ UNCHANGED <<config, topicOf, sns, queues, policy, sent, others, accepted, audience,
                       notified, disturbed>>
    BY <1>4 DEF BeginSubscribe, GetQueueUrl, GetQueueArn, ApiFails, AfterFailure, AfterError,
                Store, SubscribeLabels, Final, TypeOK
  <2> QED
    BY <1>2, <2>1 DEF TypeOK
<1>5. CASE InitializeQueue(c)
  <2>1. /\ ProvisionQueue(c, "url")
        /\ UNCHANGED <<config, topicOf, sns, sent, others, accepted, audience, notified, disturbed>>
    BY <1>5 DEF InitializeQueue
  <2> QED
    BY <1>2, <1>3, <2>1 DEF TypeOK, SubscribeLabels
<1>6. CASE Consume(c)
  <2>1. /\ ProvisionQueue(c, "ok")
        /\ UNCHANGED <<config, topicOf, sns, sent, others, accepted, audience, notified, disturbed>>
    BY <1>6 DEF Consume
  <2> QED
    BY <1>2, <1>3, <2>1 DEF TypeOK, Final
<1>7. CASE SetQueuePolicy(c)
  <2>1. /\ \E l \in SubscribeLabels \cup Final : pc' = [pc EXCEPT ![c] = l]
        /\ policy' \in [Queues -> SUBSET Arns] /\ failures' \in 0..MaxFailures
    <3>1. CASE QueueFor(c) \in queues
      <4>1. policy' = [policy EXCEPT ![QueueFor(c)] = {topicOf[c]}]
        BY <1>7, <3>1 DEF SetQueuePolicy
      <4>2. policy' \in [Queues -> SUBSET Arns]
        BY <4>1 DEF TypeOK
      <4> QED
        BY <1>7, <3>1, <4>2 DEF SetQueuePolicy, Answer, TypeOK, SubscribeLabels, Final
    <3>2. CASE QueueFor(c) \notin queues
      BY <1>7, <3>2 DEF SetQueuePolicy, TypeOK, Final
    <3> QED
      BY <3>1, <3>2
  <2> QED
    BY <1>2, <1>7, <2>1 DEF SetQueuePolicy, TypeOK
<1>8. CASE SnsSubscribe(c)
  <2>1. /\ \E l \in SubscribeLabels \cup Final : pc' = [pc EXCEPT ![c] = l]
        /\ subs' \subseteq topics \X Queues /\ failures' \in 0..MaxFailures
    BY <1>8 DEF SnsSubscribe, Answer, AfterSubscribe, TypeOK, SubscribeLabels, Final
  <2> QED
    BY <1>2, <1>8, <2>1 DEF SnsSubscribe, TypeOK
<1> QED
  BY <1>4, <1>5, <1>6, <1>7, <1>8 DEF SubscribeStep

(* Every step keeps the types.                                             *)
LEMMA TypeStep ==
    ASSUME TypeOK, pc \in [Calls -> PcType], Progress, [Next]_vars
    PROVE  TypeOK' /\ pc' \in [Calls -> PcType]
<1> USE DEF sqs, sns, notified
<1>1. ASSUME NEW n \in Notifications, Deliver(n) PROVE TypeOK' /\ pc' \in [Calls -> PcType]
  <2>1. inFlight' \cup delivered' \cup refused' \subseteq Notifications
    BY <1>1 DEF Deliver, TypeOK
  <2> QED
    BY <1>1, <2>1 DEF Deliver, TypeOK
<1>2. ASSUME NEW a \in Arns, OtherTopic(a) PROVE TypeOK' /\ pc' \in [Calls -> PcType]
  <2>1. topics' \subseteq Arns /\ subs' \subseteq topics' \X Queues
    BY <1>2 DEF OtherTopic, TypeOK
  <2>2. others' \in 0..MaxOther
    BY <1>2, SnsAssumption DEF OtherTopic, TypeOK, SnsAssumption
  <2>3. disturbed' \subseteq Calls \cup Queues
    BY <1>2 DEF OtherTopic, TypeOK
  <2> QED
    BY <1>2, <2>1, <2>2, <2>3 DEF OtherTopic, TypeOK
<1>3. ASSUME NEW q \in Queues, OtherQueue(q) PROVE TypeOK' /\ pc' \in [Calls -> PcType]
  <2>1. queues' \subseteq Queues /\ policy' \in [Queues -> SUBSET Arns]
    BY <1>3 DEF OtherQueue, TypeOK
  <2>2. others' \in 0..MaxOther
    BY <1>3, SnsAssumption DEF OtherQueue, TypeOK, SnsAssumption
  <2>3. disturbed' \subseteq Calls \cup Queues
    BY <1>3 DEF OtherQueue, TypeOK
  <2> QED
    BY <1>3, <2>1, <2>2, <2>3 DEF OtherQueue, TypeOK
<1>4. CASE UNCHANGED vars
  BY <1>4 DEF vars, TypeOK
<1> QED
  BY <1>1, <1>2, <1>3, <1>4, PublishTypes, SubscribeTypes, CallFacts DEF Next, Terminated

-----------------------------------------------------------------------------
(* Publish. *)

(* Only its own steps move a call, and only a Publish changes its own      *)
(* history.                                                                *)
LEMMA OwnSteps ==
    ASSUME TypeOK, pc \in [Calls -> PcType], [Next]_vars, NEW c \in Calls
    PROVE  \/ pc'[c] = pc[c]
           \/ c \in PublishCalls /\ (PublishStep(c) \/ ApiFails(c))
           \/ c \in SubscriberCalls /\ (SubscribeStep(c) \/ ApiFails(c))
<1> DEFINE Moves(d) == \E label : pc' = [pc EXCEPT ![d] = label]
<1> USE DEF Goto
<1>1. ASSUME NEW d \in Calls, Moves(d), c # d PROVE pc'[c] = pc[c]
  BY <1>1
<1>2. ASSUME NEW d \in PublishCalls, PublishStep(d) PROVE Moves(d)
  BY <1>2 DEF PublishStep, BeginPublish, SnsPublish, TopicNotFound, CreateTopic, Answer
<1>3. ASSUME NEW d \in SubscriberCalls, SubscribeStep(d) PROVE Moves(d)
  BY <1>3 DEF SubscribeStep, BeginSubscribe, InitializeQueue, GetQueueUrl, GetQueueArn,
              SetQueuePolicy, SnsSubscribe, Consume, ProvisionQueue, Answer
<1>4. ASSUME NEW d \in Calls, ApiFails(d) PROVE Moves(d)
  BY <1>4 DEF ApiFails
<1>5. ASSUME NEW n \in Notifications, Deliver(n) PROVE UNCHANGED pc
  BY <1>5 DEF Deliver
<1>6. ASSUME \/ \E a \in Arns : OtherTopic(a)
             \/ \E q \in Queues : OtherQueue(q)
      PROVE  UNCHANGED pc
  BY <1>6 DEF OtherTopic, OtherQueue
<1> HIDE DEF Moves
<1> QED
  BY <1>1, <1>2, <1>3, <1>4, <1>5, <1>6, CallFacts DEF Next, Terminated, vars

(* SnsPublish alone counts what was sent and accepted; the audience is     *)
(* fixed when the call begins.                                             *)
LEMMA HistorySteps ==
    ASSUME TypeOK, [Next]_vars, NEW c \in PublishCalls
    PROVE  \/ SnsPublish(c)
           \/ /\ sent'[c] = sent[c] /\ accepted'[c] = accepted[c]
              /\ audience'[c] = audience[c] \/ BeginPublish(c)
<1> USE DEF TypeOK
<1>1. ASSUME NEW d \in PublishCalls, PublishStep(d), ~SnsPublish(c)
      PROVE  /\ sent'[c] = sent[c] /\ accepted'[c] = accepted[c]
             /\ audience'[c] = audience[c] \/ BeginPublish(c)
  <2>1. CASE d = c
    BY <1>1, <2>1 DEF PublishStep, BeginPublish, TopicNotFound, CreateTopic
  <2>2. CASE d # c
    BY <1>1, <2>2 DEF PublishStep, BeginPublish, SnsPublish, TopicNotFound, CreateTopic
  <2> QED
    BY <2>1, <2>2
<1>2. ASSUME NEW d \in SubscriberCalls, SubscribeStep(d) PROVE UNCHANGED <<sent, accepted, audience>>
  BY <1>2 DEF SubscribeStep, BeginSubscribe, InitializeQueue, GetQueueUrl, GetQueueArn,
              SetQueuePolicy, SnsSubscribe, Consume
<1>3. ASSUME NEW d \in Calls, ApiFails(d) PROVE UNCHANGED <<sent, accepted, audience>>
  BY <1>3 DEF ApiFails
<1>4. ASSUME NEW n \in Notifications, Deliver(n) PROVE UNCHANGED <<sent, accepted, audience>>
  BY <1>4 DEF Deliver
<1>5. ASSUME \/ \E a \in Arns : OtherTopic(a)
             \/ \E q \in Queues : OtherQueue(q)
      PROVE  UNCHANGED <<sent, accepted, audience>>
  BY <1>5 DEF OtherTopic, OtherQueue
<1> QED
  BY <1>1, <1>2, <1>3, <1>4, <1>5 DEF Next, Terminated, vars

(* A Publish is ahead of its count by the one message whose answer was     *)
(* lost, and has failed then.                                              *)
LEMMA ProgressStep ==
    ASSUME TypeOK, pc \in [Calls -> PcType], Progress, [Next]_vars
    PROVE  Progress'
<1> SUFFICES ASSUME NEW c \in PublishCalls
             PROVE  /\ pc'[c] = "idle" => sent'[c] = 0
                    /\ pc'[c] \in {"idle"} \cup PublishLabels => sent'[c] < MessageCount
                    /\ pc'[c] = "ok" => sent'[c] = MessageCount
                    /\ \A i \in 1..MessageCount :
                          /\ i <= sent'[c] => accepted'[c][i] = 1
                          /\ i = sent'[c] + 1 => \/ accepted'[c][i] = 0
                                                 \/ accepted'[c][i] = 1 /\ pc'[c] \in Final
                          /\ i > sent'[c] + 1 => accepted'[c][i] = 0
  BY DEF Progress
<1>0. /\ c \in Calls /\ c \notin SubscriberCalls /\ MessageCount \in Nat
      /\ sent[c] \in 0..MessageCount
  BY CallFacts, SnsAssumption DEF SnsAssumption, TypeOK
<1>1. /\ pc[c] = "idle" => sent[c] = 0
      /\ pc[c] \in {"idle"} \cup PublishLabels => sent[c] < MessageCount
      /\ pc[c] = "ok" => sent[c] = MessageCount
      /\ \A i \in 1..MessageCount :
            /\ i <= sent[c] => accepted[c][i] = 1
            /\ i = sent[c] + 1 => \/ accepted[c][i] = 0
                                  \/ accepted[c][i] = 1 /\ pc[c] \in Final
            /\ i > sent[c] + 1 => accepted[c][i] = 0
  BY DEF Progress
<1>2. CASE SnsPublish(c)
  <2>1. /\ pc[c] \in PublishLabels /\ sent[c] + 1 \in 1..MessageCount
        /\ accepted[c][sent[c] + 1] = 0
    BY <1>0, <1>1, <1>2 DEF SnsPublish, PublishLabels, Final
  <2>2. /\ accepted'[c][sent[c] + 1] = 1
        /\ \A i \in 1..MessageCount : i # sent[c] + 1 => accepted'[c][i] = accepted[c][i]
    <3>1. accepted \in [PublishCalls -> [1..MessageCount -> Nat]]
      BY DEF TypeOK
    <3>2. accepted' = [accepted EXCEPT ![c][sent[c] + 1] = @ + 1]
      BY <1>2 DEF SnsPublish
    <3> DEFINE k == sent[c] + 1
    <3>3. accepted' = [accepted EXCEPT ![c][k] = 1] /\ k \in 1..MessageCount
      BY <2>1, <3>2
    <3> HIDE DEF k
    <3>4. /\ accepted'[c][k] = 1
          /\ \A i \in 1..MessageCount : i # k => accepted'[c][i] = accepted[c][i]
      BY <3>1, <3>3
    <3> QED
      BY <3>4 DEF k
  <2>3. CASE failures' = failures
    <3>1. /\ sent'[c] = sent[c] + 1
          /\ pc'[c] = IF sent[c] + 1 = MessageCount THEN "ok" ELSE "send"
      <4>1. failures # failures + 1
        BY SnsAssumption DEF SnsAssumption, TypeOK
      <4> QED
        BY <1>0, <1>2, <2>3, <4>1 DEF SnsPublish, Answer, Goto, AfterSend, TypeOK
    <3>2. \A i \in 1..MessageCount :
             /\ i <= sent[c] + 1 => accepted'[c][i] = 1
             /\ i > sent[c] + 1 => accepted'[c][i] = 0
      <4>1. \A i \in 1..MessageCount : i <= sent[c] + 1 => i <= sent[c] \/ i = sent[c] + 1
        BY <1>0
      <4>2. \A i \in 1..MessageCount : i > sent[c] + 1 => i # sent[c] + 1
        BY <1>0
      <4> QED
        BY <1>1, <2>2, <4>1, <4>2
    <3>3. \A i \in 1..MessageCount : i >= (sent[c] + 1) + 1 => i > sent[c] + 1
      BY <1>0
    <3>4. sent[c] + 1 = MessageCount \/ sent[c] + 1 < MessageCount
      BY <1>0, <2>1
    <3> QED
      BY <1>0, <3>1, <3>2, <3>3, <3>4 DEF PublishLabels
  <2>4. CASE failures' # failures
    <3>1. sent'[c] = sent[c] /\ pc'[c] = "error"
      BY <1>0, <1>2, <2>4 DEF SnsPublish, Answer, Goto, AfterError, TypeOK
    <3>2. \A i \in 1..MessageCount : i <= sent[c] \/ i > sent[c] + 1 => i # sent[c] + 1
      BY <1>0
    <3> QED
      BY <1>1, <2>2, <3>1, <3>2 DEF PublishLabels, Final
  <2> QED
    BY <2>3, <2>4
<1>3. CASE ~SnsPublish(c)
  <2>1. sent'[c] = sent[c] /\ accepted'[c] = accepted[c]
    BY <1>3, HistorySteps
  <2>2. CASE pc'[c] = pc[c]
    BY <1>1, <2>1, <2>2
  <2>3. CASE BeginPublish(c) \/ TopicNotFound(c) \/ CreateTopic(c) \/ ApiFails(c)
    <3>1. /\ pc'[c] \in {"send", "create", "resend", "error"} /\ pc[c] \notin Final
          /\ pc[c] \in {"idle"} \cup PublishLabels
      BY <1>0, <2>3 DEF BeginPublish, TopicNotFound, CreateTopic, ApiFails, Goto, Answer,
             AfterCreateTopic, AfterFailure, AfterError, TypeOK, PublishLabels, SubscribeLabels, Final
    <3> QED
      BY <1>1, <2>1, <3>1 DEF PublishLabels, Final
  <2> QED
    BY <1>0, <1>3, <2>2, <2>3, OwnSteps DEF PublishStep
<1> QED
  BY <1>2, <1>3

(* A topic goes only when other programs delete it, and its subscriptions  *)
(* with it: the calls that are about it are disturbed.                     *)
LEMMA TopicSteps ==
    ASSUME TypeOK, [Next]_vars, NEW c \in Calls, pc[c] # "idle", c \notin disturbed'
    PROVE  /\ topicOf[c] \in topics => topicOf[c] \in topics'
           /\ \A q \in Queues : <<topicOf[c], q>> \in subs => <<topicOf[c], q>> \in subs'
<1> DEFINE Stays == topics \subseteq topics' /\ subs \subseteq subs'
<1> USE DEF sqs, sns, notified
<1>1. ASSUME NEW d \in PublishCalls, PublishStep(d) PROVE Stays
  BY <1>1 DEF PublishStep, BeginPublish, SnsPublish, TopicNotFound, CreateTopic
<1>2. ASSUME NEW d \in SubscriberCalls, SubscribeStep(d) PROVE Stays
  BY <1>2 DEF SubscribeStep, BeginSubscribe, InitializeQueue, GetQueueUrl, GetQueueArn,
              SetQueuePolicy, SnsSubscribe, Consume
<1>3. ASSUME NEW d \in Calls, ApiFails(d) PROVE Stays
  BY <1>3 DEF ApiFails
<1>4. ASSUME NEW n \in Notifications, Deliver(n) PROVE Stays
  BY <1>4 DEF Deliver
<1>5. ASSUME NEW q \in Queues, OtherQueue(q) PROVE Stays
  BY <1>5 DEF OtherQueue
<1>6. ASSUME NEW a \in Arns, OtherTopic(a)
      PROVE  /\ topicOf[c] \in topics => topicOf[c] \in topics'
             /\ \A q \in Queues : <<topicOf[c], q>> \in subs => <<topicOf[c], q>> \in subs'
  <2>1. a \in topics => topicOf[c] # a
    BY <1>6 DEF OtherTopic
  <2>2. topicOf[c] \in topics => topicOf[c] \in topics'
    BY <1>6, <2>1 DEF OtherTopic
  <2>3. ASSUME NEW q \in Queues, <<topicOf[c], q>> \in subs PROVE <<topicOf[c], q>> \in subs'
    <3>1. topicOf[c] \in topics
      BY <2>3 DEF TypeOK
    <3> QED
      BY <1>6, <2>2, <2>3, <3>1 DEF OtherTopic
  <2> QED
    BY <2>2, <2>3
<1> QED
  BY <1>1, <1>2, <1>3, <1>4, <1>5, <1>6 DEF Next, Terminated, vars

(* A Publish creates its topic before it sends again, and has an excuse if *)
(* it fails after that.                                                    *)
LEMMA SucceedsStep ==
    ASSUME TypeOK, pc \in [Calls -> PcType], TopicThere, PublishSucceeds, [Next]_vars
    PROVE  TopicThere' /\ PublishSucceeds'
<1> SUFFICES ASSUME NEW c \in PublishCalls, ~Excused(c)'
             PROVE  /\ pc'[c] = "resend" => topicOf'[c] \in topics'
                    /\ pc'[c] # "error"
  BY DEF TopicThere, PublishSucceeds, Excused
<1>0. /\ c \in Calls /\ c \notin SubscriberCalls /\ topicOf' = topicOf /\ config' = config
      /\ failures \in Nat /\ ~(failures' > 0) /\ c \notin disturbed' /\ ~Excused(c)
      /\ config.topic /\ OwnArn[topicOf[c]] = topicOf[c]
  BY CallFacts, Monotone, SnsAssumption DEF Excused, SnsAssumption, TypeOK
<1>1. /\ pc[c] = "resend" => topicOf[c] \in topics
      /\ pc[c] # "error"
  BY <1>0 DEF TopicThere, PublishSucceeds, Excused
<1>2. CASE pc'[c] = pc[c]
  BY <1>0, <1>1, <1>2, TopicSteps
<1>3. failures' # failures + 1
  BY <1>0
<1>4. CASE BeginPublish(c)
  BY <1>0, <1>4 DEF BeginPublish, Goto
<1>5. CASE SnsPublish(c)
  <2>1. pc'[c] \in {"ok", "send"}
    BY <1>0, <1>3, <1>5 DEF SnsPublish, Answer, Goto, AfterSend
  <2> QED
    BY <2>1
<1>6. CASE TopicNotFound(c)
  <2>1. pc'[c] = "create"
    BY <1>0, <1>1, <1>6 DEF TopicNotFound, Goto
  <2> QED
    BY <2>1
<1>7. CASE CreateTopic(c)
  BY <1>0, <1>3, <1>7 DEF CreateTopic, Answer, AfterCreateTopic, Goto
<1>8. CASE ApiFails(c)
  BY <1>3, <1>8 DEF ApiFails
<1> QED
  BY <1>0, <1>2, <1>4, <1>5, <1>6, <1>7, <1>8, OwnSteps DEF PublishStep

-----------------------------------------------------------------------------
(* Subscribe. *)

(* What a step does to a queue and to its policy.                          *)
LEMMA QueueSteps ==
    ASSUME TypeOK, pc \in [Calls -> PcType], [Next]_vars, NEW q \in Queues, q \in queues
    PROVE  \/ q \in queues' /\ policy'[q] = policy[q]
           \/ /\ q \in queues'
              /\ \E c \in SubscriberCalls : QueueFor(c) = q /\ policy'[q] = {topicOf[c]}
           \/ /\ q \in disturbed'
              /\ \A c \in Calls : QueueFor(c) = q /\ pc[c] # "idle" => c \in disturbed'
<1> DEFINE Kept == q \in queues' /\ policy'[q] = policy[q]
<1> USE DEF sqs, sns, notified
<1>1. ASSUME NEW d \in PublishCalls, PublishStep(d) PROVE Kept
  BY <1>1 DEF PublishStep, BeginPublish, SnsPublish, TopicNotFound, CreateTopic
<1>2. ASSUME NEW d \in SubscriberCalls, NEW label, ProvisionQueue(d, label) PROVE Kept
  BY <1>2 DEF ProvisionQueue, TypeOK
<1>3. ASSUME NEW d \in SubscriberCalls, SetQueuePolicy(d)
      PROVE  Kept \/ (q \in queues' /\ QueueFor(d) = q /\ policy'[q] = {topicOf[d]})
  BY <1>3 DEF SetQueuePolicy, TypeOK
<1>4. ASSUME NEW d \in SubscriberCalls, SubscribeStep(d), ~SetQueuePolicy(d) PROVE Kept
  BY <1>2, <1>4 DEF SubscribeStep, BeginSubscribe, InitializeQueue, GetQueueUrl, GetQueueArn,
              SnsSubscribe, Consume
<1>5. ASSUME NEW d \in Calls, ApiFails(d) PROVE Kept
  BY <1>5 DEF ApiFails
<1>6. ASSUME NEW n \in Notifications, Deliver(n) PROVE Kept
  BY <1>6 DEF Deliver
<1>7. ASSUME NEW a \in Arns, OtherTopic(a) PROVE Kept
  BY <1>7 DEF OtherTopic
<1>8. ASSUME NEW r \in Queues, OtherQueue(r)
      PROVE  \/ Kept
             \/ /\ q \in disturbed'
                /\ \A c \in Calls : QueueFor(c) = q /\ pc[c] # "idle" => c \in disturbed'
  BY <1>8 DEF OtherQueue, TypeOK
<1> QED
  BY <1>1, <1>3, <1>4, <1>5, <1>6, <1>7, <1>8 DEF Next, Terminated, vars

(* The queue of an undisturbed call stays, and so does the permission of   *)
(* its topic, if the queue has no other.                                   *)
LEMMA QueueStays ==
    ASSUME TypeOK, pc \in [Calls -> PcType], [Next]_vars,
           NEW c \in SubscriberCalls, pc[c] # "idle", c \notin disturbed', QueueFor(c) \in queues
    PROVE  /\ QueueFor(c) \in queues'
           /\ ~Shared(QueueFor(c)) /\ topicOf[c] \in policy[QueueFor(c)] =>
                 topicOf[c] \in policy'[QueueFor(c)]
<1> DEFINE q == QueueFor(c)
<1>1. q \in Queues /\ c \in Calls
  BY NameFacts, CallFacts
<1>2. \A d \in SubscriberCalls : ~Shared(q) /\ QueueFor(d) = q => topicOf[d] = topicOf[c]
  BY DEF Shared
<1> QED
  BY <1>1, <1>2, QueueSteps

(* Which topics share a queue depends on the configuration alone.          *)
LEMMA SharedStays ==
    ASSUME TypeOK, [Next]_vars, NEW q \in Queues
    PROVE  /\ \A c : QueueFor(c)' = QueueFor(c)
           /\ Shared(q)' <=> Shared(q)
  BY Monotone DEF Shared, QueueFor

(* A call that subscribes moves through its stages in order, and what it   *)
(* has left behind stays unless it is disturbed.                           *)
LEMMA SubscribeProgressStep ==
    ASSUME TypeOK, pc \in [Calls -> PcType], SubscribeProgress, [Next]_vars
    PROVE  SubscribeProgress'
<1> SUFFICES ASSUME NEW c \in SubscriberCalls, Subscribes(c)'
             PROVE  /\ pc'[c] \in {"policy", "subscribe", "consume", "ok"} => QueueFor(c)' \in queues'
                    /\ pc'[c] \in {"subscribe", "consume", "ok"} /\ config'.policy /\ ~Shared(QueueFor(c))' =>
                          topicOf'[c] \in policy'[QueueFor(c)']
                    /\ pc'[c] \in {"consume", "ok"} => <<topicOf'[c], QueueFor(c)'>> \in subs'
  BY DEF SubscribeProgress
<1> DEFINE q == QueueFor(c)
           a == topicOf[c]
<1>0. /\ c \in Calls /\ c \notin PublishCalls /\ q \in Queues /\ QueueFor(c)' = q /\ topicOf' = topicOf
      /\ config' = config /\ (Shared(q)' <=> Shared(q)) /\ c \notin disturbed' /\ Subscribes(c)
      /\ (c \in InitializeCalls \/ config.subscription)
  BY CallFacts, NameFacts, Monotone, SharedStays DEF Subscribes
<1>1. /\ pc[c] \in {"policy", "subscribe", "consume", "ok"} => q \in queues
      /\ pc[c] \in {"subscribe", "consume", "ok"} /\ config.policy /\ ~Shared(q) => a \in policy[q]
      /\ pc[c] \in {"consume", "ok"} => <<a, q>> \in subs
  BY <1>0 DEF SubscribeProgress
<1>2. /\ pc[c] \in {"policy", "subscribe", "consume", "ok"} => q \in queues'
      /\ pc[c] \in {"subscribe", "consume", "ok"} /\ config.policy /\ ~Shared(q) => a \in policy'[q]
      /\ pc[c] \in {"consume", "ok"} => <<a, q>> \in subs'
  BY <1>0, <1>1, QueueStays, TopicSteps
<1> SUFFICES /\ pc'[c] \in {"policy", "subscribe", "consume", "ok"} => q \in queues'
             /\ pc'[c] \in {"subscribe", "consume", "ok"} /\ config.policy /\ ~Shared(q) => a \in policy'[q]
             /\ pc'[c] \in {"consume", "ok"} => <<a, q>> \in subs'
  BY <1>0
<1> USE DEF Goto
<1>3. CASE pc'[c] = pc[c]
  BY <1>2, <1>3
<1>4. CASE BeginSubscribe(c) \/ InitializeQueue(c) \/ GetQueueUrl(c) \/ ApiFails(c)
  <2>1. \E label \in {"queue", "url", "arn", "error"} : pc' = [pc EXCEPT ![c] = label]
    <3>1. CASE BeginSubscribe(c)
      BY <1>0, <3>1 DEF BeginSubscribe
    <3>2. CASE InitializeQueue(c) \/ GetQueueUrl(c) \/ ApiFails(c)
      BY <3>2 DEF InitializeQueue, ProvisionQueue, Answer, GetQueueUrl, ApiFails,
                  AfterFailure, AfterError
    <3> QED
      BY <1>4, <3>1, <3>2
  <2> QED
    BY <1>0, <2>1
<1>5. CASE GetQueueArn(c)
  <2>1. UNCHANGED <<queues, policy>>
    BY <1>5 DEF GetQueueArn, sqs
  <2>2. \/ pc'[c] = "error"
        \/ q \in queues /\ pc'[c] = "policy"
        \/ q \in queues /\ pc'[c] = "subscribe" /\ ~config.policy
    BY <1>0, <1>5 DEF GetQueueArn
  <2> QED
    BY <2>1, <2>2
<1>6. CASE SetQueuePolicy(c)
  <2>1. /\ pc[c] = "policy" /\ q \in queues' /\ policy'[q] = {a}
        /\ pc'[c] \in {"subscribe", "error"}
    BY <1>0, <1>1, <1>2, <1>6 DEF SetQueuePolicy, Answer, TypeOK
  <2> QED
    BY <2>1
<1>7. CASE SnsSubscribe(c)
  <2>1. pc[c] = "subscribe" /\ pc'[c] \in {"consume", "ok", "error"}
    BY <1>0, <1>7 DEF SnsSubscribe, Answer, AfterSubscribe
  <2>2. pc'[c] # "error" => <<a, q>> \in subs'
    BY <1>0, <1>7 DEF SnsSubscribe, Answer, AfterSubscribe
  <2> QED
    BY <1>2, <2>1, <2>2
<1>8. CASE Consume(c)
  <2>1. pc[c] = "consume" /\ pc'[c] \in {"ok", "error"}
    BY <1>0, <1>8 DEF Consume, ProvisionQueue, Answer
  <2> QED
    BY <1>2, <2>1
<1> QED
  BY <1>0, <1>3, <1>4, <1>5, <1>6, <1>7, <1>8, OwnSteps DEF SubscribeStep

(* A permission lasts, unless other programs delete the queue or another   *)
(* topic shares it.                                                        *)
LEMMA ServedStays ==
    ASSUME TypeOK, pc \in [Calls -> PcType], [Next]_vars,
           NEW a, NEW q \in Queues, Served(a, q)
    PROVE  Served(a, q)'
<1>0. /\ config' = config /\ topicOf' = topicOf /\ disturbed \subseteq disturbed'
      /\ (Shared(q)' <=> Shared(q)) /\ \A c : QueueFor(c)' = QueueFor(c)
  BY Monotone, SharedStays
<1>1. PICK c \in SubscriberCalls : topicOf[c] = a /\ QueueFor(c) = q
  BY DEF Served
<1>2. \/ q \in disturbed' \/ Shared(q) \/ ~config.policy
      \/ q \in queues' /\ a \in policy'[q]
  <2>1. CASE q \in disturbed \/ Shared(q) \/ ~config.policy
    BY <1>0, <2>1
  <2>2. CASE q \in queues /\ a \in policy[q] /\ ~Shared(q)
    <3>1. ASSUME NEW d \in SubscriberCalls, QueueFor(d) = q PROVE topicOf[d] = a
      BY <1>1, <2>2, <3>1 DEF Shared
    <3> QED
      BY <2>2, <3>1, QueueSteps
  <2> QED
    BY <2>1, <2>2 DEF Served
<1> QED
  BY <1>0, <1>1, <1>2 DEF Served

(* A call is ready to subscribe its queue only after it has set the        *)
(* policy, if it is to set one.                                            *)
LEMMA ReadyToSubscribe ==
    ASSUME TypeOK, pc \in [Calls -> PcType], [Next]_vars, NEW c \in SubscriberCalls,
           pc[c] = "subscribe" => Served(topicOf[c], QueueFor(c)), pc'[c] = "subscribe"
    PROVE  Served(topicOf[c], QueueFor(c))'
<1> DEFINE q == QueueFor(c)
           a == topicOf[c]
<1>0. /\ c \in Calls /\ c \notin PublishCalls /\ q \in Queues /\ QueueFor(c)' = q /\ topicOf' = topicOf
      /\ config' = config /\ (Shared(q)' <=> Shared(q))
  BY CallFacts, NameFacts, Monotone, SharedStays
<1> USE DEF Goto
<1>1. CASE pc'[c] = pc[c]
  BY <1>0, <1>1, ServedStays
<1>2. CASE GetQueueArn(c)
  <2>1. ~config.policy
    BY <1>0, <1>2 DEF GetQueueArn
  <2> QED
    BY <1>0, <2>1 DEF Served
<1>3. CASE SetQueuePolicy(c)
  <2>1. q \in queues' /\ policy'[q] = {a}
    BY <1>0, <1>3 DEF SetQueuePolicy, Answer, TypeOK
  <2> QED
    BY <1>0, <2>1 DEF Served
<1>4. CASE BeginSubscribe(c) \/ InitializeQueue(c) \/ GetQueueUrl(c) \/ ApiFails(c)
           \/ SnsSubscribe(c) \/ Consume(c)
  <2>1. \E label \in {"queue", "url", "arn", "consume", "ok", "error"} : pc' = [pc EXCEPT ![c] = label]
    <3>1. CASE BeginSubscribe(c) \/ GetQueueUrl(c) \/ ApiFails(c)
      BY <3>1 DEF BeginSubscribe, GetQueueUrl, ApiFails, AfterFailure, AfterError
    <3>2. CASE InitializeQueue(c) \/ Consume(c)
      BY <3>2 DEF InitializeQueue, Consume, ProvisionQueue, Answer
    <3>3. CASE SnsSubscribe(c)
      BY <3>3 DEF SnsSubscribe, Answer, AfterSubscribe
    <3> QED
      BY <1>4, <3>1, <3>2, <3>3
  <2> QED
    BY <1>0, <2>1
<1> QED
  BY <1>0, <1>1, <1>2, <1>3, <1>4, OwnSteps DEF SubscribeStep

(* A subscription is there, or a call has just made it.                    *)
LEMMA SubscriptionSteps ==
    ASSUME TypeOK, [Next]_vars, NEW s \in subs', s \notin subs
    PROVE  \E c \in SubscriberCalls : pc[c] = "subscribe" /\ s = <<topicOf[c], QueueFor(c)>>
<1> USE DEF sqs, sns, notified
<1>1. ASSUME NEW d \in PublishCalls, PublishStep(d) PROVE UNCHANGED subs
  BY <1>1 DEF PublishStep, BeginPublish, SnsPublish, TopicNotFound, CreateTopic
<1>2. ASSUME NEW d \in SubscriberCalls, SubscribeStep(d), ~SnsSubscribe(d) PROVE UNCHANGED subs
  BY <1>2 DEF SubscribeStep, BeginSubscribe, InitializeQueue, GetQueueUrl, GetQueueArn,
              SetQueuePolicy, Consume
<1>3. ASSUME NEW d \in SubscriberCalls, SnsSubscribe(d)
      PROVE  pc[d] = "subscribe" /\ s = <<topicOf[d], QueueFor(d)>>
  BY <1>3 DEF SnsSubscribe
<1>4. ASSUME NEW d \in Calls, ApiFails(d) PROVE UNCHANGED subs
  BY <1>4 DEF ApiFails
<1>5. ASSUME NEW n \in Notifications, Deliver(n) PROVE UNCHANGED subs
  BY <1>5 DEF Deliver
<1>6. ASSUME NEW a \in Arns, OtherTopic(a) PROVE FALSE
  BY <1>6 DEF OtherTopic
<1>7. ASSUME NEW q \in Queues, OtherQueue(q) PROVE UNCHANGED subs
  BY <1>7 DEF OtherQueue
<1> QED
  BY <1>1, <1>2, <1>3, <1>4, <1>5, <1>6, <1>7 DEF Next, Terminated, vars

(* A notification is made for a subscription, and ends at its queue.       *)
LEMMA NotificationSteps ==
    ASSUME TypeOK, [Next]_vars
    PROVE  /\ \A n \in inFlight' : n \in inFlight \/ <<topicOf[n[1]], n[3]>> \in subs
           /\ inFlight \cup delivered \cup refused \subseteq inFlight' \cup delivered' \cup refused'
           /\ \A n \in refused' : \/ n \in refused
                                  \/ /\ n \in inFlight
                                     /\ ~(n[3] \in queues /\ topicOf[n[1]] \in policy[n[3]])
<1> USE DEF sqs, sns, notified
<1>1. ASSUME NEW d \in PublishCalls, PublishStep(d), ~SnsPublish(d)
      PROVE  UNCHANGED <<inFlight, notified>>
  BY <1>1 DEF PublishStep, BeginPublish, TopicNotFound, CreateTopic
<1>2. ASSUME NEW d \in PublishCalls, SnsPublish(d)
      PROVE  /\ \A n \in inFlight' : n \in inFlight \/ <<topicOf[n[1]], n[3]>> \in subs
             /\ inFlight \subseteq inFlight' /\ UNCHANGED notified
  <2>1. /\ inFlight \subseteq inFlight' /\ UNCHANGED notified
    BY <1>2 DEF SnsPublish
  <2>2. ASSUME NEW n \in inFlight', n \notin inFlight
        PROVE  <<topicOf[n[1]], n[3]>> \in subs
    <3>1. n \in {<<d, sent[d] + 1, q>> : q \in {r \in Queues : <<topicOf[d], r>> \in subs}}
      BY <1>2, <2>2 DEF SnsPublish
    <3>2. PICK q \in Queues : <<topicOf[d], q>> \in subs /\ n = <<d, sent[d] + 1, q>>
      BY <3>1
    <3>3. n[1] = d /\ n[3] = q
      BY <3>2
    <3> QED
      BY <3>2, <3>3
  <2> QED
    BY <2>1, <2>2
<1>3. ASSUME NEW d \in SubscriberCalls, SubscribeStep(d) PROVE UNCHANGED <<inFlight, notified>>
  BY <1>3 DEF SubscribeStep, BeginSubscribe, InitializeQueue, GetQueueUrl, GetQueueArn,
              SetQueuePolicy, SnsSubscribe, Consume
<1>4. ASSUME NEW d \in Calls, ApiFails(d) PROVE UNCHANGED <<inFlight, notified>>
  BY <1>4 DEF ApiFails
<1>5. ASSUME NEW n \in Notifications, Deliver(n)
      PROVE  /\ inFlight' \subseteq inFlight
             /\ inFlight \cup delivered \cup refused \subseteq inFlight' \cup delivered' \cup refused'
             /\ \A m \in refused' : \/ m \in refused
                                    \/ /\ m \in inFlight
                                       /\ ~(m[3] \in queues /\ topicOf[m[1]] \in policy[m[3]])
  BY <1>5 DEF Deliver
<1>6. ASSUME \/ \E a \in Arns : OtherTopic(a)
             \/ \E q \in Queues : OtherQueue(q)
      PROVE  UNCHANGED <<inFlight, notified>>
  BY <1>6 DEF OtherTopic, OtherQueue
<1> QED
  BY <1>1, <1>2, <1>3, <1>4, <1>5, <1>6 DEF Next, Terminated, vars

(* A notification is of a call of Publish, one of its messages and a       *)
(* queue.                                                                  *)
LEMMA NotificationType ==
    ASSUME NEW n \in Notifications
    PROVE  n[1] \in PublishCalls /\ n[2] \in 1..MessageCount /\ n[3] \in Queues
  BY DEF Notifications

(* A subscription has its permission, and so has each notification on its  *)
(* way.                                                                    *)
LEMMA PermittedStep ==
    ASSUME TypeOK, pc \in [Calls -> PcType], Progress, Permitted, [Next]_vars
    PROVE  Permitted'
<1>0. topicOf' = topicOf /\ \A c : QueueFor(c)' = QueueFor(c)
  BY Monotone DEF QueueFor
<1>1. ASSUME NEW c \in SubscriberCalls, pc'[c] = "subscribe"
      PROVE  Served(topicOf[c], QueueFor(c))'
  BY <1>1, ReadyToSubscribe DEF Permitted
<1>2. ASSUME NEW a \in Arns, NEW q \in Queues, <<a, q>> \in subs' PROVE Served(a, q)'
  <2>1. Served(a, q)
    <3>1. CASE <<a, q>> \in subs
      BY <3>1 DEF Permitted
    <3>2. CASE <<a, q>> \notin subs
      <4>1. PICK c \in SubscriberCalls : pc[c] = "subscribe" /\ <<a, q>> = <<topicOf[c], QueueFor(c)>>
        BY <1>2, <3>2, SubscriptionSteps
      <4>2. a = topicOf[c] /\ q = QueueFor(c)
        BY <4>1
      <4> QED
        BY <4>1, <4>2 DEF Permitted
    <3> QED
      BY <3>1, <3>2
  <2> QED
    BY <2>1, ServedStays
<1>3. ASSUME NEW n \in inFlight' PROVE Served(topicOf[n[1]], n[3])'
  <2>1. n \in Notifications
    <3>1. n \in inFlight \/ n \in inFlight' \ inFlight
      BY <1>3
    <3>2. TypeOK'
      BY TypeStep
    <3> QED
      BY <3>1, <3>2 DEF TypeOK
  <2>2. topicOf[n[1]] \in Arns /\ n[3] \in Queues
    BY <2>1, NotificationType, NameFacts, CallFacts
  <2>3. Served(topicOf[n[1]], n[3])
    BY <1>3, <2>2, NotificationSteps DEF Permitted
  <2>4. ASSUME NEW a, a = topicOf[n[1]] PROVE Served(a, n[3])'
    BY <2>2, <2>3, <2>4, ServedStays
  <2> QED
    BY <1>0, <2>4
<1> QED
  BY <1>0, <1>1, <1>2, <1>3 DEF Permitted

(* A queue refuses no notification of a topic it has the permission of.    *)
LEMMA RefusedStep ==
    ASSUME TypeOK, pc \in [Calls -> PcType], Permitted, NoMessageRefused, [Next]_vars
    PROVE  NoMessageRefused'
<1> SUFFICES ASSUME NEW n \in refused'
             PROVE  n[3] \in disturbed' \/ Shared(n[3])' \/ ~config'.policy
  BY DEF NoMessageRefused
<1>1. n[3] \in disturbed \/ Shared(n[3]) \/ ~config.policy
  BY NotificationSteps DEF NoMessageRefused, Permitted, Served
<1>2. (Shared(n[3])' <=> Shared(n[3])) /\ config' = config /\ disturbed \subseteq disturbed'
  BY Monotone DEF Shared, QueueFor
<1> QED
  BY <1>1, <1>2

-----------------------------------------------------------------------------
(* From Publish to the queues. *)

(* Who is subscribed when a Publish begins remains so until others delete  *)
(* the topic.                                                              *)
LEMMA AudienceStep ==
    ASSUME TypeOK, pc \in [Calls -> PcType], SubscribeProgress, AudienceSubscribed, [Next]_vars
    PROVE  AudienceSubscribed'
<1> SUFFICES ASSUME NEW c \in PublishCalls, pc'[c] # "idle", c \notin disturbed', config'.subscription,
                    NEW q \in audience'[c]
             PROVE  <<topicOf'[c], q>> \in subs'
  BY DEF AudienceSubscribed
<1>0. c \in Calls /\ c \notin disturbed /\ config.subscription /\ topicOf' = topicOf
  BY CallFacts, Monotone
<1>1. CASE BeginPublish(c)
  <2>1. audience'[c] = ReadyQueues(topicOf[c]) /\ subs' = subs
    BY <1>1 DEF BeginPublish, TypeOK, sns
  <2>2. PICK d \in SubscriberCalls : /\ topicOf[d] = topicOf[c] /\ pc[d] = "ok" /\ d \notin disturbed
                                     /\ q = QueueFor(d)
    BY <2>1 DEF ReadyQueues
  <2>3. <<topicOf[d], QueueFor(d)>> \in subs
    BY <1>0, <2>2 DEF SubscribeProgress, Subscribes
  <2> QED
    BY <1>0, <2>1, <2>2, <2>3
<1>2. CASE ~BeginPublish(c)
  <2>1. pc[c] # "idle"
    <3>1. pc[c] = "idle" => pc'[c] = pc[c]
      BY <1>0, <1>2, CallFacts, OwnSteps
         DEF PublishStep, SnsPublish, TopicNotFound, CreateTopic, ApiFails, PublishLabels, SubscribeLabels
    <3> QED
      BY <3>1
  <2>2. audience'[c] = audience[c]
    BY <1>2, HistorySteps DEF SnsPublish
  <2>3. q \in Queues /\ <<topicOf[c], q>> \in subs
    BY <1>0, <2>1, <2>2 DEF AudienceSubscribed, TypeOK
  <2> QED
    BY <1>0, <2>1, <2>3, TopicSteps
<1> QED
  BY <1>1, <1>2

(* An accepted message goes to every queue subscribed to its topic, so to  *)
(* the whole audience.                                                     *)
LEMMA ReachedStep ==
    ASSUME TypeOK, pc \in [Calls -> PcType], Progress, AudienceSubscribed, Notified,
           [Next]_vars
    PROVE  Notified'
<1> DEFINE Made == inFlight \cup delivered \cup refused
<1> SUFFICES ASSUME NEW c \in PublishCalls, c \notin disturbed', config'.subscription,
                    NEW i \in 1..MessageCount, NEW q \in audience'[c], accepted'[c][i] > 0
             PROVE  <<c, i, q>> \in Made'
  BY DEF Notified
<1>0. /\ c \notin disturbed /\ config.subscription /\ Made \subseteq Made'
      /\ MessageCount \in Nat /\ sent[c] \in Nat
  <2>1. c \notin disturbed /\ config.subscription
    BY Monotone
  <2>2. Made \subseteq Made'
    BY NotificationSteps
  <2>3. MessageCount \in Nat /\ sent[c] \in Nat
    BY SnsAssumption DEF SnsAssumption, TypeOK
  <2> QED
    BY <2>1, <2>2, <2>3
<1> HIDE DEF Made
<1>1. CASE SnsPublish(c)
  <2>1. audience'[c] = audience[c] /\ q \in Queues /\ pc[c] # "idle"
    BY <1>1 DEF SnsPublish, TypeOK
  <2>2. CASE i = sent[c] + 1
    <3>1. <<topicOf[c], q>> \in subs
      BY <1>0, <2>1 DEF AudienceSubscribed
    <3>2. <<c, i, q>> \in inFlight'
      BY <1>1, <2>1, <2>2, <3>1 DEF SnsPublish
    <3> QED
      BY <3>2 DEF Made
  <2>3. CASE i # sent[c] + 1
    <3>1. accepted'[c][i] = accepted[c][i]
      <4>1. accepted' = [accepted EXCEPT ![c][sent[c] + 1] = @ + 1]
        BY <1>1 DEF SnsPublish
      <4>2. accepted \in [PublishCalls -> [1..MessageCount -> Nat]]
        BY DEF TypeOK
      <4> DEFINE k == sent[c] + 1
      <4>3. accepted' = [accepted EXCEPT ![c][k] = @ + 1] /\ i # k
        BY <2>3, <4>1
      <4> HIDE DEF k
      <4> QED
        BY <4>2, <4>3
    <3> QED
      BY <1>0, <2>1, <3>1 DEF Notified, Made
  <2> QED
    BY <2>2, <2>3
<1>2. CASE BeginPublish(c) /\ ~SnsPublish(c)
  <2>1. sent[c] = 0 /\ accepted'[c] = accepted[c]
    BY <1>2, HistorySteps DEF BeginPublish, Progress
  <2>2. accepted[c][i] = 0
    <3>1. i = sent[c] + 1 \/ i > sent[c] + 1
      BY <2>1
    <3>2. pc[c] \notin Final
      BY <1>2 DEF BeginPublish, Final
    <3> QED
      BY <3>1, <3>2 DEF Progress
  <2> QED
    BY <2>1, <2>2
<1>3. CASE ~BeginPublish(c) /\ ~SnsPublish(c)
  <2>1. audience'[c] = audience[c] /\ accepted'[c] = accepted[c]
    BY <1>3, HistorySteps
  <2> QED
    BY <1>0, <2>1 DEF Notified, Made
<1> QED
  BY <1>1, <1>2, <1>3

-----------------------------------------------------------------------------
(* The theorems. *)

(* No call has begun.                                                      *)
LEMMA InitInv == Init => IInv
<1> SUFFICES ASSUME Init PROVE IInv
  OBVIOUS
<1> USE DEF Init
<1>0. MessageCount \in Nat \ {0} /\ MaxOther \in Nat /\ MaxFailures \in Nat
  BY SnsAssumption DEF SnsAssumption
<1>1. pc \in [Calls -> PcType] /\ \A c \in Calls : pc[c] = "idle"
  BY DEF PcType
<1>2. TypeOK
  BY <1>0, <1>1, CallFacts DEF TypeOK
<1>3. Progress
  <2> SUFFICES ASSUME NEW c \in PublishCalls PROVE Progress!(c)
    BY DEF Progress
  <2>1. pc[c] = "idle" /\ sent[c] = 0 /\ \A i \in 1..MessageCount : accepted[c][i] = 0
    BY <1>1, CallFacts
  <2> QED
    BY <1>0, <2>1
<1>4. TopicThere /\ PublishSucceeds /\ SubscribeProgress
  BY <1>1, CallFacts DEF TopicThere, PublishSucceeds, SubscribeProgress
<1>5. Permitted /\ AudienceSubscribed
  BY <1>1, CallFacts DEF Permitted, AudienceSubscribed
<1>6. NoMessageRefused /\ Notified
  BY DEF NoMessageRefused, Notified
<1> QED
  BY <1>1, <1>2, <1>3, <1>4, <1>5, <1>6 DEF IInv

(* The invariant is inductive.                                             *)
LEMMA Inductive == IInv /\ [Next]_vars => IInv'
  BY TypeStep, ProgressStep, SucceedsStep, SubscribeProgressStep, PermittedStep, RefusedStep,
     AudienceStep, ReachedStep DEF IInv

(* The inductive invariant: how far each call has come, what it has left   *)
(* in SNS and SQS by then, and the invariants below that are inductive     *)
(* with that.                                                              *)
THEOREM Invariance == Spec => []IInv
  BY InitInv, Inductive, PTL DEF Spec

(* Type correctness of the model of Publish and Subscribe through SNS.     *)
THEOREM TypeCorrect == Spec => []TypeOK
<1>1. IInv => TypeOK
  BY DEF IInv
<1> QED
  BY <1>1, Invariance, PTL

(* sns/publisher.go: Publish sends its messages in order and none twice,   *)
(* and returns nil only if SNS accepted all of them.                       *)
THEOREM AcceptedInOrder == Spec => []PublishedOnce
<1>1. IInv => PublishedOnce
  <2> SUFFICES ASSUME IInv, NEW c \in PublishCalls PROVE PublishedOnce!(c)
    BY DEF PublishedOnce
  <2>0. MessageCount \in Nat /\ sent[c] \in Nat
    BY SnsAssumption DEF SnsAssumption, IInv, TypeOK
  <2>1. /\ pc[c] = "ok" => sent[c] = MessageCount
        /\ \A i \in 1..MessageCount :
              /\ i <= sent[c] => accepted[c][i] = 1
              /\ i = sent[c] + 1 => accepted[c][i] \in {0, 1}
              /\ i > sent[c] + 1 => accepted[c][i] = 0
    BY DEF IInv, Progress
  <2>2. ASSUME NEW i \in 1..MessageCount
        PROVE  accepted[c][i] \in {0, 1} /\ (i <= sent[c] + 1 \/ accepted[c][i] = 0)
    <3>1. i <= sent[c] \/ i = sent[c] + 1 \/ i > sent[c] + 1
      BY <2>0
    <3> QED
      BY <2>0, <2>1, <3>1
  <2>3. ASSUME NEW i \in 2..MessageCount PROVE accepted[c][i] <= accepted[c][i - 1]
    <3>1. i \in 1..MessageCount /\ i - 1 \in 1..MessageCount
      BY <2>0
    <3>2. CASE i <= sent[c] + 1
      <4>1. accepted[c][i - 1] = 1
        BY <2>0, <2>1, <3>1, <3>2
      <4> QED
        BY <2>2, <3>1, <4>1
    <3>3. CASE accepted[c][i] = 0
      BY <2>2, <3>1, <3>3
    <3> QED
      BY <2>2, <3>1, <3>2, <3>3
  <2>4. \A i \in 1..MessageCount : accepted[c][i] <= 1
    BY <2>2
  <2>5. pc[c] = "ok" => \A i \in 1..MessageCount : accepted[c][i] = 1
    BY <2>0, <2>1
  <2> QED
    BY <2>3, <2>4, <2>5
<1> QED
  BY <1>1, Invariance, PTL

(* sns/publisher.go, "now topic should exist": a Publish that creates its  *)
(* topic fails only after a failed call, a deletion of the topic by others *)
(* or for a topic that this client cannot create.                          *)
THEOREM CreatedTopicServes == Spec => []PublishSucceeds
<1>1. IInv => PublishSucceeds
  BY DEF IInv
<1> QED
  BY <1>1, Invariance, PTL

(* sns/subscriber.go: once SubscribeInitialize or Subscribe has returned   *)
(* nil, the queue exists, is subscribed and lets the topic send to it,     *)
(* until other programs delete one of them.                                *)
THEOREM ReadyOnReturn == Spec => []SubscribedIsReady
<1>1. IInv => SubscribedIsReady
  BY DEF IInv, SubscribeProgress, Subscribes, SubscribedIsReady
<1> QED
  BY <1>1, Invariance, PTL

(* sns/subscriber.go sets the policy before it subscribes the queue: no    *)
(* notification is refused for the lack of it.                             *)
THEOREM NeverRefused == Spec => []NoMessageRefused
<1>1. IInv => NoMessageRefused
  BY DEF IInv
<1> QED
  BY <1>1, Invariance, PTL

(* A notification that is not refused is delivered or on its way.          *)
LEMMA NotRefused == NoMessageRefused /\ Notified => SubscriberReached
<1> SUFFICES ASSUME NoMessageRefused, Notified, config.subscription, config.policy,
                    NEW c \in PublishCalls \ disturbed, NEW q \in audience[c] \ disturbed,
                    ~Shared(q), NEW i \in 1..MessageCount, accepted[c][i] > 0
             PROVE  <<c, i, q>> \in inFlight \cup delivered
  BY DEF SubscriberReached
<1>1. <<c, i, q>> \in inFlight \cup delivered \cup refused
  BY DEF Notified
<1>2. ASSUME NEW n, n = <<c, i, q>> PROVE n \notin refused
  <2>1. n[3] = q
    BY <1>2
  <2> QED
    BY <2>1 DEF NoMessageRefused
<1> QED
  BY <1>1, <1>2

(* A message published after a Subscribe has returned is delivered to the  *)
(* queue of that Subscribe, or on its way to it, unless the queue has no   *)
(* policy or shares it with another topic, or others touch queue or topic. *)
THEOREM ReachesSubscribers == Spec => []SubscriberReached
<1>1. IInv => SubscriberReached
  BY NotRefused DEF IInv
<1> QED
  BY <1>1, Invariance, PTL
=============================================================================
