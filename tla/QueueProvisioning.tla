-------------------------- MODULE QueueProvisioning --------------------------
(***************************************************************************)
(* How queues come into being: a publisher and a subscriber of one topic,  *)
(* each with its own QueueUrlResolver (sqs/url_resolver.go) and cache,     *)
(* running calls of Publish (sqs/publisher.go), SubscribeInitialize and    *)
(* Subscribe (sqs/subscriber.go) concurrently, while other programs create *)
(* and delete the same queues. SqsQueue describes a queue that stays; here *)
(* a queue only exists or not, and remembers who created it.               *)
(*                                                                         *)
(* Every call of the SQS API is one step; between two of them anything may *)
(* happen to the queues. The queue's URL is a function of its name, so it  *)
(* needs no variable: what a call learns is whether the queue exists.      *)
(***************************************************************************)
EXTENDS Naturals

CONSTANTS PublishCalls,      \* calls of Publisher.Publish
          InitializeCalls,   \* calls of Subscriber.SubscribeInitialize
          SubscribeCalls,    \* calls of Subscriber.Subscribe
          MessageCount,      \* messages given to each call of Publish
          Configs,           \* how publisher and subscriber may be configured
          DeadLetters,       \* SubscriberConfig.DeadLetterQueue # nil
          MaxOther,          \* bound on the steps of other programs
          MaxFailures        \* bound on SQS calls that fail for another reason

Clients == {"publisher", "subscriber"}

(* The part of PublisherConfig and SubscriberConfig that is about queues:  *)
(* the QueueUrlResolver, and ~DoNotCreateQueueIfNotExists.                 *)
(* "byName" is GetQueueUrlByNameUrlResolver, "byNameUncached" the same with *)
(* DoNotCacheQueues; "generate" stands for GenerateQueueUrlResolver and    *)
(* TransparentUrlResolver, which know a URL and nothing else.              *)
ClientConfigs == [resolver : {"byName", "byNameUncached", "generate"}, creates : BOOLEAN]

ASSUME ProvisioningAssumption ==
    /\ PublishCalls \cap (InitializeCalls \cup SubscribeCalls) = {}
    /\ InitializeCalls \cap SubscribeCalls = {}
    /\ MessageCount \in Nat \ {0}
    /\ Configs \subseteq [Clients -> ClientConfigs]
    /\ DeadLetters \in BOOLEAN
    /\ MaxOther \in Nat
    /\ MaxFailures \in Nat

Calls == PublishCalls \cup InitializeCalls \cup SubscribeCalls
Queues == {"source", "dlq"}
Client(c) == IF c \in PublishCalls THEN "publisher" ELSE "subscriber"

VARIABLES config,    \* how each client is configured
          queue,     \* who created each queue, or "absent"
          cache,     \* the client's queuesCache has the source queue's URL
          pc,        \* where each call is, and in the end what it returned
          created,   \* the call has been through createQueue
          missing,   \* SQS refused a SendMessage of this Publish: no queue
          sent,      \* how many messages this Publish has sent
          others,    \* steps of other programs so far
          failures,  \* failed SQS calls so far
          accepted,  \* history: the messages SQS accepted from each Publish
          seen,      \* history: the queue existed during this call (or, once
                     \*   a SendMessage was refused, since then)
          gone,      \* history: the queue was absent during this call
          lost,      \* history: the calls whose queue was deleted after they
                     \*   had been through createQueue
          dlqMade    \* history: the dead-letter queue has existed

vars == <<config, queue, cache, pc, created, missing, sent, others, failures,
          accepted, seen, gone, lost, dlqMade>>

(* "ok", "absent" (the call reports that the queue doesn't exist), "failed" *)
(* (an error of SQS), "error" (one of Publish's own) and "panic" are final. *)
Final == {"ok", "absent", "failed", "error", "panic"}
ApiCalls == {"lookup", "create", "send", "dlqGet", "dlqRefresh", "dlqCreate",
             "dlqResolve", "dlqArn"}
Active(c) == pc[c] \notin Final \cup {"idle"}
Resolver(c) == config[Client(c)].resolver
PublisherCreates == config["publisher"].creates
SubscriberCreates == config["subscriber"].creates
Exists(q) == queue[q] # "absent"

TypeOK ==
    /\ config \in Configs
    /\ queue \in [Queues -> Clients \cup {"absent", "other"}]
    /\ cache \in [Clients -> BOOLEAN]
    /\ pc \in [Calls -> {"idle", "resolve", "store"} \cup ApiCalls \cup Final]
    /\ created \in [Calls -> BOOLEAN]
    /\ missing \in [PublishCalls -> BOOLEAN]
    /\ sent \in [PublishCalls -> 0..MessageCount]
    /\ \A c \in PublishCalls : pc[c] = "ok" <=> sent[c] = MessageCount
    /\ others \in 0..MaxOther
    /\ failures \in 0..MaxFailures
    /\ accepted \in [PublishCalls -> SUBSET (1..MessageCount)]
    /\ seen \in [Calls -> BOOLEAN]
    /\ gone \in [Calls -> BOOLEAN]
    /\ lost \in SUBSET Calls
    /\ dlqMade \in BOOLEAN

Init ==
    /\ config \in Configs
    /\ queue = [q \in Queues |-> "absent"]
    /\ cache = [k \in Clients |-> FALSE]
    /\ pc = [c \in Calls |-> "idle"]
    /\ created = [c \in Calls |-> FALSE]
    /\ missing = [c \in PublishCalls |-> FALSE]
    /\ sent = [c \in PublishCalls |-> 0]
    /\ others = 0
    /\ failures = 0
    /\ accepted = [c \in PublishCalls |-> {}]
    /\ seen = [c \in Calls |-> FALSE]
    /\ gone = [c \in Calls |-> FALSE]
    /\ lost = {}
    /\ dlqMade = FALSE

Goto(c, label) == pc' = [pc EXCEPT ![c] = label]

-----------------------------------------------------------------------------
(* What the callers of ResolveQueueUrl do with Exists: "yes", "no", or     *)
(* "unknown" for nil.                                                      *)

(* Mutant: one message too many is sent.                                   *)
NeverLastMessage(c) == IF sent[c] = MessageCount THEN "ok" ELSE "send"

(* Publish returns after the last message.                                 *)
AfterSend(c) == IF sent[c] + 1 = MessageCount THEN "ok" ELSE "send"

(* Mutant: err is that of createQueue, so Publish goes on as if it had sent *)
(* the message.                                                            *)
ErrOverwritten(c) == IF missing[c] THEN AfterSend(c) ELSE "send"

(* Publisher.createQueue has a URL. If Publish called it because of a      *)
(* refused SendMessage, it still returns the error of that SendMessage:    *)
(* the err of createQueue is declared in the inner block.                  *)
QueueCreated(c) == IF missing[c] THEN "error" ELSE "send"

(* Publisher.GetQueueUrl, and createQueue resolving after QueueNameExists. *)
PublisherGoesOn(c, exists) ==
    CASE created[c] /\ exists = "no"                       -> "error"
      [] created[c] /\ exists # "no"                       -> QueueCreated(c)
      [] ~created[c] /\ exists = "yes"                     -> "send"
      [] ~created[c] /\ exists # "yes" /\ PublisherCreates -> "create"
      [] OTHER                                             -> "absent"

CreateSourceQueue == IF DeadLetters THEN "dlqGet" ELSE "create"

InitializeGoesOn(exists) ==
    CASE exists = "yes"                       -> "ok"
      [] exists # "yes" /\ SubscriberCreates  -> CreateSourceQueue
      [] OTHER                                -> "absent"

(* Subscribe dereferences QueueURL, which is nil if the second resolution  *)
(* finds no queue. Its "ok" is where module Subscriber takes over.         *)
SubscribeGoesOn(c, exists) ==
    CASE exists # "no"                                     -> "ok"
      [] exists = "no" /\ created[c]                       -> "panic"
      [] exists = "no" /\ ~created[c] /\ SubscriberCreates -> CreateSourceQueue
      [] OTHER                                             -> "absent"

Resolved(c, exists) ==
    /\ c \in PublishCalls => Goto(c, PublisherGoesOn(c, exists))
    /\ c \in InitializeCalls => Goto(c, InitializeGoesOn(exists))
    /\ c \in SubscribeCalls => Goto(c, SubscribeGoesOn(c, exists))

(* Bookkeeping for the properties, no part of the code.                    *)
Witness ==
    /\ seen' = [c \in Calls |->
                  IF Active(c) \/ pc'[c] # pc[c]
                  THEN \/ queue'["source"] # "absent"
                       \/ seen[c] /\ ~(c \in PublishCalls /\ missing'[c] /\ ~missing[c])
                  ELSE seen[c]]
    /\ gone' = [c \in Calls |->
                  IF Active(c) \/ pc'[c] # pc[c]
                  THEN gone[c] \/ queue'["source"] = "absent"
                  ELSE gone[c]]
    /\ lost' = IF Exists("source") /\ queue'["source"] = "absent"
               THEN lost \cup {c \in Calls : created[c]}
               ELSE lost
    /\ dlqMade' = (dlqMade \/ queue'["dlq"] # "absent")

(* Publish, SubscribeInitialize or Subscribe is called.                    *)
Begin(c) ==
    /\ pc[c] = "idle"
    /\ Goto(c, "resolve")
    /\ UNCHANGED <<config, queue, cache, created, missing, sent, others, failures, accepted>>
    /\ Witness

(* ResolveQueueUrl up to its call of SQS, if it needs one.                 *)
ResolveQueueUrl(c) ==
    /\ pc[c] = "resolve"
    /\ \/ Resolver(c) = "generate" /\ Resolved(c, "unknown")
       \/ Resolver(c) # "generate" /\ cache[Client(c)] /\ Resolved(c, "yes")
       \/ Resolver(c) # "generate" /\ ~cache[Client(c)] /\ Goto(c, "lookup")
    /\ UNCHANGED <<config, queue, cache, created, missing, sent, others, failures, accepted>>
    /\ Witness

GetQueueUrl(c) ==
    /\ pc[c] = "lookup"
    /\ \/ Exists("source") /\ Resolver(c) = "byName" /\ Goto(c, "store")
       \/ Exists("source") /\ Resolver(c) # "byName" /\ Resolved(c, "yes")
       \/ ~Exists("source") /\ Resolved(c, "no")
    /\ UNCHANGED <<config, queue, cache, created, missing, sent, others, failures, accepted>>
    /\ Witness

(* The deferred function of ResolveQueueUrl. Nothing empties the cache.    *)
StoreUrl(c) ==
    /\ pc[c] = "store"
    /\ cache' = [cache EXCEPT ![Client(c)] = TRUE]
    /\ Resolved(c, "yes")
    /\ UNCHANGED <<config, queue, created, missing, sent, others, failures, accepted>>
    /\ Witness

(* SQS has executed the call, and the caller learns so, or sees an error   *)
(* because the answer was lost.                                            *)
Answer(c, label) ==
    \/ Goto(c, label) /\ UNCHANGED failures
    \/ failures < MaxFailures /\ failures' = failures + 1 /\ Goto(c, "failed")

(* Mutant: createQueue takes every error for QueueNameExists.              *)
AnyErrorTolerated(c, q, withUrl, withoutUrl) ==
    \/ /\ queue' = [queue EXCEPT ![q] = IF Exists(q) THEN @ ELSE Client(c)]
       /\ Answer(c, withUrl)
    \/ /\ UNCHANGED queue
       /\ failures < MaxFailures
       /\ failures' = failures + 1
       /\ Goto(c, withoutUrl)

(* createQueue (sqs.go): after a QueueNameExists, which SQS answers if the *)
(* queue exists with other attributes, it returns neither URL nor error.   *)
CreateQueue(c, q, withUrl, withoutUrl) ==
    /\ queue' = [queue EXCEPT ![q] = IF Exists(q) THEN @ ELSE Client(c)]
    /\ \/ Answer(c, withUrl)
       \/ queue[q] \notin {"absent", Client(c)} /\ Answer(c, withoutUrl)

(* The subscriber takes both answers for success.                          *)
AfterCreate(c) ==
    CASE c \in PublishCalls    -> QueueCreated(c)
      [] c \in InitializeCalls -> "ok"
      [] c \in SubscribeCalls  -> "resolve"

AfterNameExists(c) == IF c \in PublishCalls THEN "resolve" ELSE AfterCreate(c)

CreateSource(c) ==
    /\ pc[c] = "create"
    /\ CreateQueue(c, "source", AfterCreate(c), AfterNameExists(c))
    /\ created' = [created EXCEPT ![c] = TRUE]
    /\ UNCHANGED <<config, cache, missing, sent, others, accepted>>
    /\ Witness

(* SendMessage of the next message. If the queue is missing, Publish       *)
(* creates it, unless it may not.                                          *)
(* Mutants: the queue is never created here; it is always created.         *)
NeverRecreates(c) == "error"
AlwaysRecreates(c) == "create"

AfterRefusal(c) == IF PublisherCreates THEN "create" ELSE "error"

Send(c) ==
    /\ pc[c] = "send"
    /\ Exists("source")
    /\ Answer(c, AfterSend(c))
    /\ accepted' = [accepted EXCEPT ![c] = @ \cup {sent[c] + 1}]
    /\ sent' = [sent EXCEPT ![c] = IF pc'[c] = "failed" THEN @ ELSE @ + 1]
    /\ UNCHANGED <<config, queue, cache, created, missing, others>>
    /\ Witness

SendRefused(c) ==
    /\ pc[c] = "send"
    /\ ~Exists("source")
    /\ missing' = [missing EXCEPT ![c] = TRUE]
    /\ Goto(c, AfterRefusal(c))
    /\ UNCHANGED <<config, queue, cache, created, sent, others, failures, accepted>>
    /\ Witness

-----------------------------------------------------------------------------
(* ensureDeadLetterQueue, before the source queue is created.              *)

(* Mutant: the dead-letter queue is taken for granted.                     *)
DlqTakenForGranted == "create"

AfterDlqMissing == "dlqCreate"

GetDlqUrl(c) ==
    /\ pc[c] = "dlqGet"
    /\ Goto(c, IF Exists("dlq") THEN "dlqRefresh" ELSE AfterDlqMissing)
    /\ UNCHANGED <<config, queue, cache, created, missing, sent, others, failures, accepted>>
    /\ Witness

(* SetQueueAttributes, whose error is only logged, then TagQueue.          *)
RefreshDlq(c) ==
    /\ pc[c] = "dlqRefresh"
    /\ \/ Exists("dlq") /\ queue' = [queue EXCEPT !["dlq"] = "subscriber"]
       \/ UNCHANGED queue
    /\ Answer(c, "dlqArn")
    /\ UNCHANGED <<config, cache, created, missing, sent, others, accepted>>
    /\ Witness

CreateDlq(c) ==
    /\ pc[c] = "dlqCreate"
    /\ CreateQueue(c, "dlq", "dlqArn", "dlqResolve")
    /\ UNCHANGED <<config, cache, created, missing, sent, others, accepted>>
    /\ Witness

ResolveDlq(c) ==
    /\ pc[c] = "dlqResolve"
    /\ Goto(c, IF Exists("dlq") THEN "dlqArn" ELSE "failed")
    /\ UNCHANGED <<config, queue, cache, created, missing, sent, others, failures, accepted>>
    /\ Witness

(* getARNUrl. With the ARN, createSourceQueue has its redrive policy.      *)
GetDlqArn(c) ==
    /\ pc[c] = "dlqArn"
    /\ Goto(c, IF Exists("dlq") THEN "create" ELSE "failed")
    /\ UNCHANGED <<config, queue, cache, created, missing, sent, others, failures, accepted>>
    /\ Witness

-----------------------------------------------------------------------------
(* A call of SQS fails without effect, for a reason other than a missing   *)
(* queue (network, throttling, access).                                    *)
(* Mutant: a failed GetQueueUrl counts as "does not exist".                *)
FailureIsAbsence(c) ==
    IF pc[c] = "lookup" /\ c \in PublishCalls THEN PublisherGoesOn(c, "no") ELSE "failed"

AfterFailure(c) == "failed"

ApiFails(c) ==
    /\ pc[c] \in ApiCalls
    /\ failures < MaxFailures
    /\ failures' = failures + 1
    /\ Goto(c, AfterFailure(c))
    /\ UNCHANGED <<config, queue, cache, created, missing, sent, others, accepted>>
    /\ Witness

(* Other programs and operators create and delete queues.                  *)
OtherProgram(q) ==
    /\ others < MaxOther
    /\ others' = others + 1
    /\ queue' = [queue EXCEPT ![q] = IF Exists(q) THEN "absent" ELSE "other"]
    /\ UNCHANGED <<config, cache, pc, created, missing, sent, failures, accepted>>
    /\ Witness

CallStep(c) ==
    \/ Begin(c) \/ ResolveQueueUrl(c) \/ GetQueueUrl(c) \/ StoreUrl(c)
    \/ CreateSource(c)
    \/ GetDlqUrl(c) \/ RefreshDlq(c) \/ CreateDlq(c) \/ ResolveDlq(c) \/ GetDlqArn(c)
    \/ ApiFails(c)

PublishStep(c) == Send(c) \/ SendRefused(c)

(* The program is done when every call has returned.                       *)
Terminated ==
    /\ \A c \in Calls : pc[c] \in Final
    /\ UNCHANGED vars

Next ==
    \/ \E c \in Calls : CallStep(c)
    \/ \E c \in PublishCalls : PublishStep(c)
    \/ \E q \in Queues : OtherProgram(q)
    \/ Terminated

Spec == Init /\ [][Next]_vars

-----------------------------------------------------------------------------
(* Safety. *)

(* Publish returns no error only if SQS accepted every message it was      *)
(* given; if it fails on the way, what SQS accepted is an initial part.    *)
PublishedInOrder == \A c \in PublishCalls :
    /\ pc[c] = "ok" => accepted[c] = 1..MessageCount
    /\ \A i \in accepted[c] : 1..i \subseteq accepted[c]

(* A Publish that fails because the queue is gone (through a stale cache,  *)
(* or deleted on the way) has seen to it that the queue exists again, so   *)
(* that publishing again can succeed.                                      *)
FailedPublishHeals == PublisherCreates =>
    \A c \in PublishCalls : pc[c] = "error" => seen[c]

(* SubscribeInitialize and Subscribe succeed only if the queue existed     *)
(* while they ran, whoever created it and whatever failed meanwhile.       *)
ReadyQueueExisted == \A c \in InitializeCalls \cup SubscribeCalls :
    pc[c] = "ok" => seen[c]

(* The same, for a resolver that asks SQS every time it is used. (A cached *)
(* URL may be that of a deleted queue, "generate" does not know.)          *)
CheckedQueueExisted == \A c \in InitializeCalls \cup SubscribeCalls :
    pc[c] = "ok" /\ Resolver(c) = "byNameUncached" => seen[c]

(* "queue for topic %s doesn't exist": unless the resolver does not know,  *)
(* a call says so only if the queue was missing while it ran.              *)
NotFoundIsTrue == \A c \in Calls :
    pc[c] = "absent" /\ Resolver(c) # "generate" => gone[c]

(* Subscribe dereferences a nil QueueURL only if the queue was deleted     *)
(* after this very call had been through createQueue: no failed or lost    *)
(* call, no step of another program before, and no race between publisher  *)
(* and subscriber leads there. (Here a queue is visible as soon as it is   *)
(* created. If SQS does not show it to GetQueueUrl at once, the same line  *)
(* panics with no deletion; Publisher.createQueue returns an error then.)  *)
NilUrlNeedsDeletion == \A c \in SubscribeCalls : pc[c] = "panic" => c \in lost

(* A source queue the subscriber creates with a redrive policy names a     *)
(* dead-letter queue that has been provisioned before.                     *)
RedriveHasTarget == DeadLetters /\ queue["source"] = "subscriber" => dlqMade

(* With DoNotCreateQueueIfNotExists a client creates no queue, on none of  *)
(* the paths that lead to CreateQueue.                                     *)
OnlyAllowedCreate == [][
    \A k \in Clients : (\E q \in Queues : queue[q] = "absent" /\ queue'[q] = k)
        => IF k = "publisher" THEN PublisherCreates ELSE SubscriberCreates]_vars
=============================================================================
