------------------------------ MODULE SnsPubSub ------------------------------
(***************************************************************************)
(* Publish and subscribe through SNS (sns/publisher.go, sns/subscriber.go, *)
(* sns/sns.go): calls of Publish, which creates a missing topic and sends  *)
(* the message again, and calls of SubscribeInitialize and Subscribe,      *)
(* which make a queue, let the topic send to it, and subscribe it, while   *)
(* other programs create and delete topics and queues.                     *)
(*                                                                         *)
(* Every call of an AWS API is one step. The calls of the SQS subscriber   *)
(* that make sure of a queue are one step each: QueueProvisioning has      *)
(* their details. Where this module ends, with "ok" of a Subscribe, module *)
(* Subscriber begins.                                                      *)
(***************************************************************************)
EXTENDS Naturals

CONSTANTS Arns,             \* what a TopicResolver may resolve a topic to
          OwnArn,           \* the topic that CreateTopic creates for an ARN
          Queues,
          QueueOf,          \* SubscriberConfig.GenerateSqsQueueName
          PublishCalls,     \* calls of Publisher.Publish
          InitializeCalls,  \* calls of Subscriber.SubscribeInitialize
          SubscribeCalls,   \* calls of Subscriber.Subscribe
          MessageCount,     \* messages given to each call of Publish
          TopicChoices,     \* the topics the calls may be about
          Configs,          \* how publisher and subscriber may be configured
          MaxOther,         \* bound on the steps of other programs
          MaxFailures       \* bound on API calls that fail for another reason

SubscriberCalls == InitializeCalls \cup SubscribeCalls
Calls == PublishCalls \cup SubscriberCalls

(* ~DoNotCreateTopicIfNotExists, ~DoNotCreateQueueIfNotExists,             *)
(* ~DoNotSetQueueAccessPolicy, ~DoNotCreateSqsSubscription, and            *)
(* ~DoNotCacheQueues of the by-name QueueUrlResolver.                      *)
ConfigType == [topic : BOOLEAN, queue : BOOLEAN, policy : BOOLEAN,
               subscription : BOOLEAN, cache : BOOLEAN]

(* CreateTopic knows only the last segment of an ARN (sns.go) and creates  *)
(* the topic in the account and region of the client: for the ARN of       *)
(* another account that is another topic.                                  *)
ASSUME SnsAssumption ==
    /\ OwnArn \in [Arns -> Arns]
    /\ \A a \in Arns : OwnArn[OwnArn[a]] = OwnArn[a]
    /\ QueueOf \in [Arns -> Queues]
    /\ PublishCalls \cap SubscriberCalls = {}
    /\ InitializeCalls \cap SubscribeCalls = {}
    /\ MessageCount \in Nat \ {0}
    /\ TopicChoices \subseteq [Calls -> Arns]
    /\ Configs \subseteq ConfigType
    /\ MaxOther \in Nat
    /\ MaxFailures \in Nat

VARIABLES config,     \* PublisherConfig, SubscriberConfig
          topicOf,    \* the ARN each call's topic resolves to
          topics,     \* SNS: the topics that exist
          subs,       \* SNS: the subscriptions
          queues,     \* SQS: the queues that exist
          policy,     \* SQS: the topics a queue's policy lets send to it
          inFlight,   \* SNS: notifications on their way to a queue
          cache,      \* the queues whose URL the subscriber has cached
          pc,         \* where each call is, and in the end what it returned
          sent,       \* how many messages this Publish has sent
          others,     \* steps of other programs so far
          failures,   \* failed API calls so far
          accepted,   \* history: how often SNS accepted each message
          audience,   \* history: the queues subscribed when Publish began
          delivered,  \* history: notifications a queue took
          refused,    \* history: notifications a queue did not take
          disturbed   \* history: calls whose topic or queue other programs
                      \*   touched since they began, and queues they touched

sns == <<topics, subs, inFlight>>
sqs == <<queues, policy, cache>>
notified == <<delivered, refused>>
vars == <<config, topicOf, sns, sqs, pc, sent, others, failures, accepted,
          audience, notified, disturbed>>

PublishLabels == {"send", "create", "resend"}
SubscribeLabels == {"queue", "url", "arn", "policy", "subscribe", "consume"}
Final == {"ok", "error"}
Notifications == PublishCalls \X (1..MessageCount) \X Queues
QueueFor(c) == QueueOf[topicOf[c]]

TypeOK ==
    /\ config \in Configs
    /\ topicOf \in TopicChoices
    /\ topics \subseteq Arns
    /\ subs \subseteq topics \X Queues
    /\ queues \subseteq Queues
    /\ policy \in [Queues -> SUBSET Arns]
    /\ cache \subseteq Queues
    /\ \A c \in PublishCalls : pc[c] \in {"idle"} \cup PublishLabels \cup Final
    /\ \A c \in SubscriberCalls : pc[c] \in {"idle"} \cup SubscribeLabels \cup Final
    /\ sent \in [PublishCalls -> 0..MessageCount]
    /\ others \in 0..MaxOther
    /\ failures \in 0..MaxFailures
    /\ accepted \in [PublishCalls -> [1..MessageCount -> Nat]]
    /\ audience \in [PublishCalls -> SUBSET Queues]
    /\ inFlight \cup delivered \cup refused \subseteq Notifications
    /\ disturbed \subseteq Calls \cup Queues

Init ==
    /\ config \in Configs
    /\ topicOf \in TopicChoices
    /\ topics = {}
    /\ subs = {}
    /\ queues = {}
    /\ policy = [q \in Queues |-> {}]
    /\ inFlight = {}
    /\ cache = {}
    /\ pc = [c \in Calls |-> "idle"]
    /\ sent = [c \in PublishCalls |-> 0]
    /\ others = 0
    /\ failures = 0
    /\ accepted = [c \in PublishCalls |-> [i \in 1..MessageCount |-> 0]]
    /\ audience = [c \in PublishCalls |-> {}]
    /\ delivered = {}
    /\ refused = {}
    /\ disturbed = {}

Goto(c, label) == pc' = [pc EXCEPT ![c] = label]

(* AWS has executed the call, and the caller learns so, or sees an error   *)
(* because the answer was lost.                                            *)
Answer(c, label, labelIfLost) ==
    \/ Goto(c, label) /\ UNCHANGED failures
    \/ failures < MaxFailures /\ failures' = failures + 1 /\ Goto(c, labelIfLost)

-----------------------------------------------------------------------------
(* Publish. *)

(* The queues that a call has subscribed to the topic and not lost since.  *)
ReadyQueues(a) == {QueueFor(c) : c \in {d \in SubscriberCalls :
                      topicOf[d] = a /\ pc[d] = "ok" /\ d \notin disturbed}}

BeginPublish(c) ==
    /\ pc[c] = "idle"
    /\ Goto(c, "send")
    /\ audience' = [audience EXCEPT ![c] = ReadyQueues(topicOf[c])]
    /\ UNCHANGED <<config, topicOf, sns, sqs, sent, others, failures, accepted, notified, disturbed>>

(* Mutant: one message too many is sent.                                   *)
NeverLastMessage(c) == IF sent[c] = MessageCount THEN "ok" ELSE "send"

AfterSend(c) == IF sent[c] + 1 = MessageCount THEN "ok" ELSE "send"

(* Mutant: Publish sends again after any error.                            *)
ResendAnyway(c) == IF pc[c] = "send" THEN "resend" ELSE "error"

(* An error other than NotFoundException.                                  *)
AfterError(c) == "error"

(* sns.Publish of the next message, the first or the second time: SNS has  *)
(* a notification for every subscription of the topic.                     *)
SnsPublish(c) ==
    /\ pc[c] \in {"send", "resend"}
    /\ topicOf[c] \in topics
    /\ Answer(c, AfterSend(c), AfterError(c))
    /\ sent' = [sent EXCEPT ![c] = IF failures' = failures THEN @ + 1 ELSE @]
    /\ accepted' = [accepted EXCEPT ![c][sent[c] + 1] = @ + 1]
    /\ inFlight' = inFlight \cup
          {<<c, sent[c] + 1, q>> : q \in {r \in Queues : <<topicOf[c], r>> \in subs}}
    /\ UNCHANGED <<config, topicOf, topics, subs, sqs, others, audience, notified, disturbed>>

(* NotFoundException: the first time, Publish creates the topic.           *)
TopicNotFound(c) ==
    /\ pc[c] \in {"send", "resend"}
    /\ topicOf[c] \notin topics
    /\ Goto(c, IF pc[c] = "send" /\ config.topic THEN "create" ELSE "error")
    /\ UNCHANGED <<config, topicOf, sns, sqs, sent, others, failures, accepted, audience, notified, disturbed>>

(* Mutant: after CreateTopic, Publish returns the first error.             *)
NeverResends(c) == "error"

(* CreateTopic compares the ARN it got with the one it wanted.             *)
AfterCreateTopic(c) == IF OwnArn[topicOf[c]] = topicOf[c] THEN "resend" ELSE "error"

CreateTopic(c) ==
    /\ pc[c] = "create"
    /\ topics' = topics \cup {OwnArn[topicOf[c]]}
    /\ Answer(c, AfterCreateTopic(c), "error")
    /\ UNCHANGED <<config, topicOf, subs, inFlight, sqs, sent, others, accepted, audience, notified, disturbed>>

-----------------------------------------------------------------------------
(* SubscribeInitialize and Subscribe. *)

BeginSubscribe(c) ==
    /\ pc[c] = "idle"
    /\ Goto(c, IF c \in InitializeCalls \/ config.subscription THEN "queue" ELSE "consume")
    /\ UNCHANGED <<config, topicOf, sns, sqs, sent, others, failures, accepted, audience, notified, disturbed>>

Store(q) == cache' = IF config.cache THEN cache \cup {q} ELSE cache

(* The queue exists, or its URL is cached, or it can be created: what the  *)
(* SQS subscriber does in SubscribeInitialize and in Subscribe. A new      *)
(* queue has no policy.                                                    *)
ProvisionQueue(c, label) ==
    LET q == QueueFor(c)
    IN \/ /\ q \in queues \cup cache
          /\ Goto(c, label)
          /\ IF q \in cache THEN UNCHANGED cache ELSE Store(q)
          /\ UNCHANGED <<queues, policy, failures>>
       \/ /\ q \notin queues \cup cache
          /\ config.queue
          /\ queues' = queues \cup {q}
          /\ policy' = [policy EXCEPT ![q] = {}]
          /\ Answer(c, label, "error")
          /\ IF label = "ok" /\ failures' = failures THEN Store(q) ELSE UNCHANGED cache
       \/ /\ q \notin queues \cup cache
          /\ ~config.queue
          /\ Goto(c, "error")
          /\ UNCHANGED <<queues, policy, cache, failures>>

InitializeQueue(c) ==
    /\ pc[c] = "queue"
    /\ ProvisionQueue(c, "url")
    /\ UNCHANGED <<config, topicOf, sns, sent, others, accepted, audience, notified, disturbed>>

GetQueueUrl(c) ==
    /\ pc[c] = "url"
    /\ IF QueueFor(c) \in queues \cup cache
       THEN Goto(c, "arn") /\ Store(QueueFor(c))
       ELSE Goto(c, "error") /\ UNCHANGED cache
    /\ UNCHANGED <<config, topicOf, sns, queues, policy, sent, others, failures, accepted, audience, notified, disturbed>>

(* Mutant: the queue is subscribed before its policy is set.               *)
SubscribesFirst(c) ==
    /\ pc[c] = "arn"
    /\ QueueFor(c) \in queues /\ topicOf[c] \in topics
    /\ subs' = subs \cup {<<topicOf[c], QueueFor(c)>>}
    /\ Goto(c, IF config.policy THEN "policy" ELSE "subscribe")
    /\ UNCHANGED <<config, topicOf, topics, inFlight, sqs, sent, others, failures, accepted, audience, notified, disturbed>>

(* GetQueueAttributes: the first call that notices a stale cached URL.     *)
GetQueueArn(c) ==
    /\ pc[c] = "arn"
    /\ Goto(c, IF QueueFor(c) \notin queues THEN "error"
               ELSE IF config.policy THEN "policy" ELSE "subscribe")
    /\ UNCHANGED <<config, topicOf, sns, sqs, sent, others, failures, accepted, audience, notified, disturbed>>

(* setSqsQueuePolicy: the whole policy of the queue is replaced.           *)
SetQueuePolicy(c) ==
    /\ pc[c] = "policy"
    /\ IF QueueFor(c) \in queues
       THEN /\ policy' = [policy EXCEPT ![QueueFor(c)] = {topicOf[c]}]
            /\ Answer(c, "subscribe", "error")
       ELSE Goto(c, "error") /\ UNCHANGED <<policy, failures>>
    /\ UNCHANGED <<config, topicOf, sns, queues, cache, sent, others, accepted, audience, notified, disturbed>>

AfterSubscribe(c) == IF c \in SubscribeCalls THEN "consume" ELSE "ok"

SnsSubscribe(c) ==
    /\ pc[c] = "subscribe"
    /\ IF topicOf[c] \in topics
       THEN /\ subs' = subs \cup {<<topicOf[c], QueueFor(c)>>}
            /\ Answer(c, AfterSubscribe(c), "error")
       ELSE Goto(c, "error") /\ UNCHANGED <<subs, failures>>
    /\ UNCHANGED <<config, topicOf, topics, inFlight, sqs, sent, others, accepted, audience, notified, disturbed>>

(* s.sqs.Subscribe, which may find the queue deleted and create it again.  *)
Consume(c) ==
    /\ pc[c] = "consume"
    /\ ProvisionQueue(c, "ok")
    /\ UNCHANGED <<config, topicOf, sns, sent, others, accepted, audience, notified, disturbed>>

-----------------------------------------------------------------------------
(* An API call fails without effect (network, throttling, access).         *)
(* Mutants: an error of SetQueueAttributes or of sns.Subscribe is ignored. *)
PolicyFailureIgnored(c) == IF pc[c] = "policy" THEN "subscribe" ELSE "error"
SubscribeFailureIgnored(c) == IF pc[c] = "subscribe" THEN AfterSubscribe(c) ELSE "error"

AfterFailure(c) == IF pc[c] = "send" THEN AfterError(c) ELSE "error"

ApiFails(c) ==
    /\ pc[c] \in PublishLabels \cup SubscribeLabels
    /\ failures < MaxFailures
    /\ failures' = failures + 1
    /\ Goto(c, AfterFailure(c))
    /\ UNCHANGED <<config, topicOf, sns, sqs, sent, others, accepted, audience, notified, disturbed>>

(* SNS delivers a notification. It drops it if the queue is gone or does   *)
(* not let the topic send to it.                                           *)
Deliver(n) ==
    /\ n \in inFlight
    /\ inFlight' = inFlight \ {n}
    /\ IF n[3] \in queues /\ topicOf[n[1]] \in policy[n[3]]
       THEN delivered' = delivered \cup {n} /\ UNCHANGED refused
       ELSE refused' = refused \cup {n} /\ UNCHANGED delivered
    /\ UNCHANGED <<config, topicOf, topics, subs, sqs, pc, sent, others, failures, accepted, audience, disturbed>>

(* Other programs create and delete topics and queues; the subscriptions   *)
(* of a topic go with it.                                                  *)
OtherTopic(a) ==
    /\ others < MaxOther
    /\ others' = others + 1
    /\ topics' = IF a \in topics THEN topics \ {a} ELSE topics \cup {a}
    /\ subs' = {s \in subs : s[1] \in topics'}
    /\ disturbed' = disturbed \cup
          (IF a \in topics THEN {c \in Calls : topicOf[c] = a /\ pc[c] # "idle"} ELSE {})
    /\ UNCHANGED <<config, topicOf, inFlight, sqs, pc, sent, failures, accepted, audience, notified>>

OtherQueue(q) ==
    /\ others < MaxOther
    /\ others' = others + 1
    /\ queues' = IF q \in queues THEN queues \ {q} ELSE queues \cup {q}
    /\ policy' = [policy EXCEPT ![q] = {}]
    /\ disturbed' = disturbed \cup {q} \cup
          (IF q \in queues THEN {c \in Calls : QueueFor(c) = q /\ pc[c] # "idle"} ELSE {})
    /\ UNCHANGED <<config, topicOf, sns, cache, pc, sent, failures, accepted, audience, notified>>

PublishStep(c) == BeginPublish(c) \/ SnsPublish(c) \/ TopicNotFound(c) \/ CreateTopic(c)

SubscribeStep(c) ==
    \/ BeginSubscribe(c) \/ InitializeQueue(c) \/ GetQueueUrl(c) \/ GetQueueArn(c)
    \/ SetQueuePolicy(c) \/ SnsSubscribe(c) \/ Consume(c)

(* The program is done when every call has returned.                       *)
Terminated ==
    /\ \A c \in Calls : pc[c] \in Final
    /\ UNCHANGED vars

Next ==
    \/ \E c \in PublishCalls : PublishStep(c)
    \/ \E c \in SubscriberCalls : SubscribeStep(c)
    \/ \E c \in Calls : ApiFails(c)
    \/ \E n \in Notifications : Deliver(n)
    \/ \E a \in Arns : OtherTopic(a)
    \/ \E q \in Queues : OtherQueue(q)
    \/ Terminated

Spec == Init /\ [][Next]_vars

-----------------------------------------------------------------------------
(* Safety. *)

(* Publish returns no error only if SNS accepted all its messages. SNS     *)
(* accepts them in order and none of them twice: Publish sends again only  *)
(* what SNS has refused.                                                   *)
PublishedOnce == \A c \in PublishCalls :
    /\ pc[c] = "ok" => \A i \in 1..MessageCount : accepted[c][i] = 1
    /\ \A i \in 1..MessageCount : accepted[c][i] <= 1
    /\ \A i \in 2..MessageCount : accepted[c][i] <= accepted[c][i - 1]

(* "now topic should exist": without failed calls and without others that  *)
(* delete the topic, a Publish that may create its topic succeeds, however *)
(* many publishers and subscribers find it missing at the same time.       *)
PublishSucceeds == \A c \in PublishCalls :
    pc[c] = "error" => \/ failures > 0
                       \/ c \in disturbed
                       \/ ~config.topic
                       \/ OwnArn[topicOf[c]] # topicOf[c]

(* Two topics whose messages go to one queue: GenerateSqsQueueName maps    *)
(* both to it, like GenerateSqsQueueNameEqualToTopicName the topics of one *)
(* name in two accounts, or the function of a consumer group all topics.   *)
Shared(q) == \E c, d \in SubscriberCalls :
    QueueFor(c) = q /\ QueueFor(d) = q /\ topicOf[c] # topicOf[d]

(* When a call has subscribed a queue to a topic, the subscription stands, *)
(* the queue exists and the topic may send to it, whatever failed, raced   *)
(* or was stale, until other programs delete one of them. (A queue with    *)
(* two topics keeps the permission of the last one only.)                  *)
SubscribedIsReady == \A c \in SubscriberCalls :
    pc[c] = "ok" /\ c \notin disturbed /\ (c \in InitializeCalls \/ config.subscription) =>
        /\ <<topicOf[c], QueueFor(c)>> \in subs
        /\ QueueFor(c) \in queues
        /\ config.policy /\ ~Shared(QueueFor(c)) => topicOf[c] \in policy[QueueFor(c)]

(* No notification meets a queue without permission for it: the policy is  *)
(* set before the queue is subscribed.                                     *)
NoMessageRefused == \A n \in refused :
    \/ n[3] \in disturbed
    \/ Shared(n[3])
    \/ ~config.policy

(* What Publish sends after a Subscribe has returned is delivered to the   *)
(* queue of that Subscribe, or on its way to it, every message of it. Lost *)
(* are messages to a queue without a policy, to one whose policy another   *)
(* topic overwrites (Shared), and those of a queue that other programs     *)
(* touch or of a topic that they delete.                                   *)
SubscriberReached == config.subscription /\ config.policy =>
    \A c \in PublishCalls \ disturbed : \A q \in audience[c] \ disturbed :
        ~Shared(q) => \A i \in 1..MessageCount :
            accepted[c][i] > 0 => <<c, i, q>> \in inFlight \cup delivered
=============================================================================
