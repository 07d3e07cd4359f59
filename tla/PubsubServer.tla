---------------------------- MODULE PubsubServer ----------------------------
(***************************************************************************)
(* The publish-subscribe server (misc/src/pubsub/robusto_pubsub_server.c)  *)
(* with the adapter through which the other processor subscribes           *)
(* (robusto_c6_pubsub_backend.c, robusto_proxy_pubsub_adapter.c).          *)
(*                                                                         *)
(* Three tasks call the server: the bridge, for the other processor; the   *)
(* worker of the incoming queue, for peers; the application.  The server   *)
(* has a mutex that is waited for at most ten seconds and is held for all  *)
(* of a publish; the adapter has one that is waited for without limit and  *)
(* is held while the adapter calls the server.  A publish that hands its   *)
(* message to a slot of the adapter takes them in the other order.         *)
(*                                                                         *)
(* What a task does while it holds the mutex of the server, and waits for  *)
(* nothing, is one action.                                                 *)
(***************************************************************************)
EXTENDS Integers, Sequences, SequencesExt

CONSTANTS
  Topic,         \* topics, and their hashes
  Slot,          \* slots of the adapter (16 in the code)
  Peer,          \* robusto_peer_t structures
  MaxMessages    \* bound: how many messages are published

App == "app"
Nobody == "nobody"
NoTopic == "no topic"

ASSUME KindAssumption == /\ Slot \cap Peer = {}
                         /\ {App, Nobody} \cap (Slot \cup Peer) = {}
                         /\ NoTopic \notin Topic
ASSUME BoundAssumption == MaxMessages \in Nat

Task == {"bridge", "incoming", "application"}
Subscriber == Slot \cup Peer \cup {App}
Message == 1 .. MaxMessages

VARIABLES
  topics,    \* the topics there are; none is ever removed
  list,      \* of each topic: its subscribers, in the order of the list
  slot,      \* of each slot of the adapter: its topic, if it is active
  server,    \* who holds the mutex of the server
  adapter,   \* who holds the mutex of the adapter
  call,      \* of each task: the call it is in
  peer,      \* of each peer: has it a relation, has it been deleted
  received,  \* of each subscriber: the messages handed to it
  result,    \* of each message: what its publisher was told
  missed     \* peers whose deletion could not find their subscriptions

vars == <<topics, list, slot, server, adapter, call, peer, received, result,
          missed>>

Call == [at : {"idle", "subscribe", "unsubscribe", "create", "publish",
               "walk", "nested"},
         topic : Topic \cup {NoTopic}, who : Subscriber \cup {Nobody},
         message : 0 .. MaxMessages, next : Nat, failed : BOOLEAN]

Idle == [at |-> "idle", topic |-> NoTopic, who |-> Nobody, message |-> 0,
         next |-> 0, failed |-> FALSE]

TypeOK ==
  /\ topics \subseteq Topic
  /\ list \in [Topic -> Seq(Subscriber)]
  /\ slot \in [Slot -> Topic \cup {NoTopic}]
  /\ server \in Task \cup {Nobody}
  /\ adapter \in Task \cup {Nobody}
  /\ call \in [Task -> Call]
  /\ peer \in [Peer -> {"new", "related", "deleted"}]
  /\ received \in [Subscriber -> Seq(Message)]
  /\ result \in [Message -> {"none", "ok", "some_fail", "refused"}]
  /\ missed \subseteq Peer

Init ==
  /\ topics = {}
  /\ list = [t \in Topic |-> <<>>]
  /\ slot = [s \in Slot |-> NoTopic]
  /\ server = Nobody
  /\ adapter = Nobody
  /\ call = [k \in Task |-> Idle]
  /\ peer = [p \in Peer |-> "new"]
  /\ received = [s \in Subscriber |-> <<>>]
  /\ result = [m \in Message |-> "none"]
  /\ missed = {}

-----------------------------------------------------------------------------
(* Calls and the lists.                                                    *)

Free(k) == call[k] = Idle
Enters(k, c) == call' = [call EXCEPT ![k] = c]
Returns(k) == call' = [call EXCEPT ![k] = Idle]

CallOf(at, topic, who) == [Idle EXCEPT !.at = at, !.topic = topic, !.who = who]

\* pubsub_lock: the mutex, or after ten seconds nothing.
Locks == server = Nobody

\* Mutant: the mutex is waited for without limit.
LockWaits == FALSE

LockTimesOut == server # Nobody

Members(t) == Range(list[t])

\* Peers are told apart by relation_id_incoming, which is 0 for all peers that
\* have not been presented to yet.  That of a deleted peer is read from freed
\* memory: stale are those whose old content matches.
Same(p, stale) ==
  {q \in Peer : \/ q = p
                \/ peer[q] = peer[p] /\ peer[p] = "new"
                \/ q \in stale /\ peer[q] = "deleted"}

\* Mutant: who subscribes again is added again.
AddedAgain(t, who, same) == Append(list[t], who)

\* robusto_pubsub_add_subscriber
Added(t, who, same) ==
  IF Members(t) \cap same # {} THEN list[t] ELSE Append(list[t], who)

\* robusto_pubsub_server_subscribe and _with_context.  Memory may run out.
Subscribe(t, who, same) ==
  /\ Locks
  /\ topics' = topics \cup {t}
  /\ list' = [list EXCEPT ![t] = Added(t, who, same)]

\* robusto_pubsub_server_unsubscribe and _with_context remove the first
\* subscriber that matches.
Matching(t, same) == {i \in DOMAIN list[t] : list[t][i] \in same}
FirstOf(set) == CHOOSE i \in set : \A j \in set : i <= j
Unsubscribe(t, same) ==
  /\ Locks
  /\ list' = IF Matching(t, same) = {} THEN list
             ELSE [list EXCEPT ![t] = RemoveAt(@, FirstOf(Matching(t, same)))]

-----------------------------------------------------------------------------
(* The bridge: the adapter with its mutex.                                 *)

\* adapter_subscribe up to the call of the server.  A topic that has a slot, or
\* that there is no slot for, is answered at once.
AdapterSubscribe(s, t) ==
  /\ Free("bridge")
  /\ adapter = Nobody
  /\ slot[s] = NoTopic
  /\ \A r \in Slot : slot[r] # t
  /\ adapter' = "bridge"
  /\ slot' = [slot EXCEPT ![s] = t]
  /\ Enters("bridge", CallOf("subscribe", t, s))
  /\ UNCHANGED <<topics, list, server, peer, received, result, missed>>

Bridge(at) == call["bridge"].at = at /\ adapter = "bridge"

AdapterReturns ==
  /\ adapter' = Nobody
  /\ Returns("bridge")
  /\ UNCHANGED <<server, peer, received, result, missed>>

\* Mutant: the slot is not cleared if the server has failed.
SubscribeFailsKeeps == AdapterReturns /\ UNCHANGED <<slot, topics, list>>

\* The server has no memory or its mutex was not to be had.
SubscribeFails ==
  /\ slot' = [slot EXCEPT ![call["bridge"].who] = NoTopic]
  /\ UNCHANGED <<topics, list>>
  /\ AdapterReturns

AdapterSubscribed ==
  /\ Bridge("subscribe")
  /\ LET c == call["bridge"]
     IN  \/ /\ Subscribe(c.topic, c.who, {c.who})
            /\ UNCHANGED slot
            /\ AdapterReturns
         \/ SubscribeFails

AdapterUnsubscribe(s) ==
  /\ Free("bridge")
  /\ adapter = Nobody
  /\ slot[s] # NoTopic
  /\ adapter' = "bridge"
  /\ Enters("bridge", CallOf("unsubscribe", slot[s], s))
  /\ UNCHANGED <<topics, list, slot, server, peer, received, result,
                 missed>>

\* A slot that the server did not remove stays active.
AdapterUnsubscribed ==
  /\ Bridge("unsubscribe")
  /\ LET c == call["bridge"]
     IN  \/ /\ Unsubscribe(c.topic, {c.who})
            /\ slot' = IF c.who \in Members(c.topic)
                       THEN [slot EXCEPT ![c.who] = NoTopic] ELSE slot
         \/ LockTimesOut /\ UNCHANGED <<list, slot>>
  /\ UNCHANGED topics
  /\ AdapterReturns

-----------------------------------------------------------------------------
(* Publishing.                                                             *)

Unused == {m \in Message : /\ result[m] = "none"
                           /\ \A k \in Task : call[k].message # m}
NextMessage == CHOOSE m \in Unused : \A n \in Unused : m <= n

\* A task calls robusto_pubsub_server_publish, the bridge after it has looked
\* for the topic.
Publishes(k, at, t) ==
  /\ Free(k)
  /\ Unused # {}
  /\ Enters(k, [CallOf(at, t, Nobody) EXCEPT !.message = NextMessage])

BridgePublishes(t) ==
  /\ Publishes("bridge", "create", t)
  /\ UNCHANGED <<topics, list, slot, server, adapter, peer, received,
                 result, missed>>

ApplicationPublishes(t) ==
  /\ t \in topics
  /\ Publishes("application", "publish", t)
  /\ UNCHANGED <<topics, list, slot, server, adapter, peer, received,
                 result, missed>>

Refused(k) ==
  /\ result' = [result EXCEPT ![call[k].message] = "refused"]
  /\ Returns(k)
  /\ UNCHANGED <<list, slot, server, adapter, peer, received, missed>>

\* backend_publish: find or create the topic, unless there is no memory.
CreateTopic ==
  /\ call["bridge"].at = "create"
  /\ \/ /\ Locks
        /\ topics' = topics \cup {call["bridge"].topic}
        /\ Enters("bridge", [call["bridge"] EXCEPT !.at = "publish"])
        /\ UNCHANGED <<list, slot, server, adapter, peer, received,
                       result, missed>>
     \/ Refused("bridge") /\ UNCHANGED topics

BeginPublish(k) ==
  /\ call[k].at = "publish"
  /\ Locks
  /\ call[k].topic \in topics
  /\ server' = k
  /\ Enters(k, [call[k] EXCEPT !.at = "walk", !.next = 1])
  /\ UNCHANGED <<topics, list, slot, adapter, peer, received, result,
                 missed>>

\* The topic is unknown or the mutex was not to be had.
PublishRefused(k) ==
  /\ call[k].at = "publish"
  /\ LockTimesOut \/ call[k].topic \notin topics
  /\ Refused(k)
  /\ UNCHANGED topics

Walks(k) == call[k].at = "walk"
Left(k) == call[k].next <= Len(list[call[k].topic])
Current(k) == list[call[k].topic][call[k].next]

\* publish_topic has handed the message to the subscriber, or has not, and the
\* walk goes on to the next.
Handed(k, got, fails) ==
  /\ received' = IF got
                 THEN [received EXCEPT ![Current(k)] =
                                         Append(@, call[k].message)]
                 ELSE received
  /\ Enters(k, [call[k] EXCEPT !.at = "walk", !.next = @ + 1,
                               !.failed = @ \/ fails])
  /\ UNCHANGED <<topics, list, slot, server, adapter, peer, result,
                 missed>>

\* The message for a peer is queued for one of its media, or is not.
HandToPeer(k) ==
  /\ Walks(k) /\ Left(k)
  /\ Current(k) \in Peer
  /\ \E got \in BOOLEAN : Handed(k, got, ~got)

\* queue_delivery: the event queue of the adapter drops what it cannot hold,
\* and says nothing.
HandToSlot(k) ==
  /\ Walks(k) /\ Left(k)
  /\ Current(k) \in Slot
  /\ adapter = Nobody
  /\ \E got \in BOOLEAN : Handed(k, got /\ slot[Current(k)] # NoTopic, FALSE)

HandToApp(k) ==
  /\ Walks(k) /\ Left(k)
  /\ Current(k) = App
  /\ Handed(k, TRUE, FALSE)

\* The callback of the application may publish, and waits for the mutex that its
\* own task holds: the mutex is not recursive.
HandToEcho(k) ==
  /\ Walks(k) /\ Left(k)
  /\ Current(k) = App
  /\ Enters(k, [call[k] EXCEPT !.at = "nested"])
  /\ UNCHANGED <<topics, list, slot, server, adapter, peer, received,
                 result, missed>>

NestedTimesOut(k) ==
  /\ call[k].at = "nested"
  /\ LockTimesOut
  /\ Handed(k, TRUE, TRUE)

\* Mutant: the mutex is not given back after a delivery has failed.
EndPublishKeeps(k) ==
  /\ Walks(k) /\ ~Left(k)
  /\ server' = IF call[k].failed THEN server ELSE Nobody
  /\ result' = [result EXCEPT ![call[k].message] =
                                IF call[k].failed THEN "some_fail" ELSE "ok"]
  /\ Returns(k)
  /\ UNCHANGED <<topics, list, slot, adapter, peer, received, missed>>

EndPublish(k) ==
  /\ Walks(k) /\ ~Left(k)
  /\ server' = Nobody
  /\ result' = [result EXCEPT ![call[k].message] =
                                IF call[k].failed THEN "some_fail" ELSE "ok"]
  /\ Returns(k)
  /\ UNCHANGED <<topics, list, slot, adapter, peer, received, missed>>

-----------------------------------------------------------------------------
(* The application subscribes a callback of its own.                       *)

ApplicationSubscribes(t) ==
  /\ Free("application")
  /\ Subscribe(t, App, {App})
  /\ UNCHANGED <<slot, server, adapter, call, peer, received, result,
                 missed>>

-----------------------------------------------------------------------------
(* The worker of the incoming queue.                                       *)

\* The worker has a message of peer p, which was heard before it was deleted:
\* the message in the queue still has a pointer to it.
Worker == Free("incoming")
Late(p) == missed' = IF peer[p] = "deleted" THEN missed \cup {p} ELSE missed

\* PUBSUB_GET_TOPIC
PeerGetsTopic(t) ==
  /\ Worker
  /\ Locks
  /\ topics' = topics \cup {t}
  /\ UNCHANGED <<list, slot, server, adapter, call, peer, received, result,
                 missed>>

\* If the call of the server fails the peer is answered 0.
PeerSubscribes(p, t) ==
  /\ Worker
  /\ \/ \E stale \in SUBSET Peer : Subscribe(t, p, Same(p, stale))
     \/ UNCHANGED <<topics, list>>
  /\ Late(p)
  /\ UNCHANGED <<slot, server, adapter, call, peer, received, result>>

PeerUnsubscribes(p, t) ==
  /\ Worker
  /\ \/ \E stale \in SUBSET Peer : Unsubscribe(t, Same(p, stale))
     \/ LockTimesOut /\ UNCHANGED list
  /\ UNCHANGED <<topics, slot, server, adapter, call, peer, received, result,
                 missed>>

PeerPublishes(t) ==
  /\ Publishes("incoming", "publish", t)
  /\ UNCHANGED <<topics, list, slot, server, adapter, peer, received, result,
                 missed>>

\* A presentation of a peer that is not known yet by another structure: the
\* reply gives it a relation.
PeerPresents(p) ==
  /\ Worker
  /\ peer[p] = "new"
  /\ peer' = [peer EXCEPT ![p] = "related"]
  /\ UNCHANGED <<topics, list, slot, server, adapter, call, received, result,
                 missed>>

\* A list is walked from its first subscriber, and who is gone is unlinked.
Unlinked(s, gone) ==
  LET kept[n \in 0 .. Len(s)] ==
        IF n = 0 THEN <<>>
        ELSE IF s[n] \in gone THEN kept[n - 1] ELSE Append(kept[n - 1], s[n])
  IN  kept[Len(s)]

\* Mutant: the first subscriber of a list is not unlinked.
ForgetButFirst(gone) ==
  list' = [t \in Topic |-> IF list[t] # <<>> /\ Head(list[t]) \in gone
                           THEN list[t] ELSE Unlinked(list[t], gone)]

\* robusto_pubsub_server_unsubscribe_peer_from_all
Forget(gone) == list' = [t \in Topic |-> Unlinked(list[t], gone)]

\* The presentation shows that there is another structure for this peer: this
\* one is deleted.  pubsub_on_delete_peer comes first, if it has a relation.
DuplicateDeleted(p) ==
  /\ Worker
  /\ peer[p] # "deleted"
  /\ peer' = [peer EXCEPT ![p] = "deleted"]
  /\ \/ /\ peer[p] = "related" /\ Locks
        /\ \E stale \in SUBSET Peer : Forget(Same(p, stale))
        /\ UNCHANGED missed
     \/ /\ peer[p] = "new" \/ LockTimesOut
        /\ missed' = missed \cup {p}
        /\ UNCHANGED list
  /\ UNCHANGED <<topics, slot, server, adapter, call, received, result>>

-----------------------------------------------------------------------------
BridgeSteps ==
  \/ AdapterSubscribed \/ AdapterUnsubscribed \/ CreateTopic
PublishSteps(k) ==
  \/ BeginPublish(k) \/ PublishRefused(k) \/ HandToPeer(k) \/ HandToApp(k)
  \/ HandToEcho(k) \/ NestedTimesOut(k) \/ EndPublish(k)
WorkerSteps(p) ==
  \/ PeerPresents(p) \/ DuplicateDeleted(p)
  \/ \E t \in Topic : PeerSubscribes(p, t) \/ PeerUnsubscribes(p, t)

Next ==
  \/ \E s \in Slot : AdapterUnsubscribe(s) \/ \E t \in Topic :
                                                AdapterSubscribe(s, t)
  \/ BridgeSteps
  \/ \E t \in Topic : \/ BridgePublishes(t) \/ ApplicationPublishes(t)
                      \/ ApplicationSubscribes(t) \/ PeerPublishes(t)
                      \/ PeerGetsTopic(t)
  \/ \E k \in Task : PublishSteps(k) \/ HandToSlot(k)
  \/ \E p \in Peer : WorkerSteps(p)

Spec == Init /\ [][Next]_vars

\* Every task gets to run.  A task that waits for the mutex of the adapter gets
\* it although others take it again and again: it is handed to who waits.
FairSpec ==
  /\ Spec
  /\ WF_vars(BridgeSteps)
  /\ \A k \in Task : WF_vars(PublishSteps(k)) /\ SF_vars(HandToSlot(k))

-----------------------------------------------------------------------------
\* Whoever holds a mutex is in a call that gives it back, whichever of its steps
\* has failed, and who walks along a list holds the mutex that guards it.
MutexesGivenBack ==
  /\ \A k \in Task : server = k <=> call[k].at \in {"walk", "nested"}
  /\ adapter # Nobody <=> call["bridge"].at \in {"subscribe", "unsubscribe"}

\* The slots of the adapter and the list of the server are guarded by different
\* mutexes and agree whenever nobody is in the adapter, whatever fails there.
SlotsAgree ==
  adapter = Nobody =>
    \A s \in Slot, t \in Topic : slot[s] = t <=> s \in Members(t)

\* A deleted peer stays in a list, where the next publish reads it, only if its
\* deletion could not remove it or it was heard again after that.
DeletedAreForgotten ==
  \A p \in Peer, t \in Topic :
    peer[p] = "deleted" /\ p \in Members(t) => p \in missed

\* Taking the two mutexes in both orders does not stop the tasks: each call
\* comes to its end.
CallsReturn == \A k \in Task : []<>(call[k] = Idle)

-----------------------------------------------------------------------------
(* A publish takes effect, for all its subscribers, when it ends.          *)

Walking == {call[k].message : k \in {j \in Task : call[j].at \in
                                                    {"walk", "nested"}}}

MemberSets == [t \in Topic |-> Members(t)]
Delivered == [s \in Subscriber |-> Unlinked(received[s], Walking)]

Board == INSTANCE PubsubBoard WITH
  Lossy <- Slot, members <- MemberSets, received <- Delivered

ImplementsBoard == Board!Spec

=============================================================================
