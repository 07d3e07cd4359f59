---------------------------- MODULE ProxyDelivery ----------------------------
(***************************************************************************)
(* Subscribing through the delegate and getting the messages: the          *)
(* subscription slots of the client, their reconciliation after a new      *)
(* HELLO and the reassembly of large messages (robusto_proxy_pubsub_       *)
(* client.c, robusto_proxy_client.c); the receive and event tasks of the   *)
(* controller (robusto_proxy_sdio.c); the delegate's subscriptions and its *)
(* queue of events (robusto_proxy_pubsub_adapter.c), which the bridge task *)
(* sends one piece at a time (robusto_c6_proxy_server.c).                  *)
(*                                                                         *)
(* An application task makes the calls; the event task of the controller   *)
(* dispatches what arrives, and reads and writes the same slots WITHOUT a  *)
(* lock.  Finding the slot of an event and calling its callback are        *)
(* therefore two steps.  Events carry the id that the delegate gave to the *)
(* subscription, and not its boot id.                                      *)
(*                                                                         *)
(* Names with Sub are of what ProxyPublish has in its own way.             *)
(***************************************************************************)
EXTENDS ProxyExchange, FiniteSets, FiniteSetsExt

CONSTANTS
    Topics, NoTopic,
    SlotCount,      \* pubsub_subscription_capacity
    EventQueue,     \* ROBUSTO_PROXY_SDIO_EVENT_QUEUE_CAPACITY
    EventLimit,     \* ROBUSTO_PROXY_PUBSUB_EVENT_DESCRIPTOR_LIMIT
    MaxMessages,    \* bound: messages of the local PubSub
    MaxSubscribes,  \* bound: calls of robusto_proxy_pubsub_subscribe
    MaxUnsubscribes \* bound: calls of robusto_proxy_pubsub_unsubscribe

ASSUME DeliveryAssumption ==
    /\ NoTopic \notin Topics
    /\ {SlotCount, EventQueue, EventLimit} \subseteq Nat \ {0}
    /\ {MaxMessages, MaxSubscribes, MaxUnsubscribes} \subseteq Nat

VARIABLES
    peerBoot,       \* session.peer_boot_id
    slot,           \* the client's subscriptions, with the boot their id is of
    held,           \* the large message being reassembled, and whose parts it has
    upcall,         \* the message the event task has found the slot of
    inbox,          \* the controller's event_queue
    boot,           \* the delegate's boot id
    table,          \* the delegate's subscriptions
    nextId,         \* next_subscription_id
    events,         \* the delegate's queue of events
    stage,          \* pieces sent of the first of them
    released,       \* ids for which an UNSUBSCRIBE went on the link in this boot
    given,          \* the last of its messages that each subscription got
    used            \* what the bounds count

subscriber == <<session, peerBoot, task, slot>>
arrivals   == <<held, upcall, inbox>>
registry   == <<boot, greeted, table, nextId>>
outbox     == <<events, stage>>
history    == <<released, given, used>>
subVars    == <<link, subscriber, arrivals, registry, outbox, history>>

Slots   == 1..SlotCount
Unused  == [topic |-> NoTopic, id |-> 0, next |-> 0, active |-> FALSE, boot |-> 0]
NoSub   == [id |-> 0, next |-> 0]
NoneHeld == [id |-> 0, seq |-> 0, got |-> 0, boots |-> {}]
NoCall  == [slot |-> 0]
SubIdle == [at |-> "idle", slot |-> 0, topic |-> NoTopic, tries |-> 0]
Calls   == {"idle", "hello", "reset", "reconcile", "subscribe", "unsubscribe"}
Limits == [messages |-> MaxMessages, connects |-> MaxConnects,
           subscribes |-> MaxSubscribes, unsubscribes |-> MaxUnsubscribes,
           restarts |-> MaxRestarts]

SubTypeOK ==
    /\ correlation \in Nat \ {0} /\ awaiting \in 0..correlation
    /\ Len(frames) <= FrameQueue /\ Len(replies) <= OnTheLink
    /\ session \in {"negotiating", "established", "degraded", "reset"}
    /\ task \in [at : Calls, slot : Slots \cup {0}, topic : Topics \cup {NoTopic},
                 tries : 0..HelloRetries]
    /\ slot \in [Slots -> [topic : Topics \cup {NoTopic}, id : Nat, next : Nat,
                           active : BOOLEAN, boot : Nat]]
    /\ held \in [id : Nat, seq : Nat, got : 0..Chunks, boots : SUBSET Nat]
    /\ Len(inbox) <= EventQueue /\ Len(events) <= EventLimit
    /\ {boot, nextId} \subseteq Nat \ {0} /\ peerBoot \in 0..boot /\ greeted \in BOOLEAN
    /\ table \in [Topics -> [id : Nat, next : Nat]]
    /\ stage \in 0..(Chunks + 1) /\ released \subseteq Nat /\ given \in [Slots -> Nat]

SubInit ==
    /\ LinkInit
    /\ session = "reset" /\ peerBoot = 0 /\ task = SubIdle
    /\ slot = [s \in Slots |-> Unused]
    /\ held = NoneHeld /\ upcall = NoCall /\ inbox = <<>>
    /\ boot = 1 /\ greeted = FALSE /\ nextId = 1
    /\ table = [t \in Topics |-> NoSub]
    /\ events = <<>> /\ stage = 0
    /\ released = {} /\ given = [s \in Slots |-> 0] /\ used = [b \in DOMAIN Limits |-> 0]

MayStill(b) == used[b] < Limits[b]
Count(b)    == used' = [used EXCEPT ![b] = @ + 1]

-----------------------------------------------------------------------------
(* The application task: calls                                              *)

Allocated == {s \in Slots : slot[s].topic # NoTopic}

SubConnect ==
    /\ At("idle") /\ MayStill("connects") /\ Count("connects")
    /\ session' = "negotiating"
    /\ task' = [SubIdle EXCEPT !.at = "hello"]
    /\ UNCHANGED <<link, peerBoot, slot, arrivals, registry, outbox, released, given>>

Subscribe(t) ==
    /\ At("idle") /\ session = "established" /\ Allocated # Slots
    /\ MayStill("subscribes") /\ Count("subscribes")
    /\ task' = [SubIdle EXCEPT !.at = "subscribe", !.topic = t,
                            !.slot = Min(Slots \ Allocated)]
    /\ UNCHANGED <<link, session, peerBoot, slot, arrivals, registry, outbox, released, given>>

Unsubscribe(s) ==
    /\ At("idle") /\ session = "established" /\ s \in Allocated
    /\ MayStill("unsubscribes") /\ Count("unsubscribes")
    /\ task' = [SubIdle EXCEPT !.at = "unsubscribe", !.slot = s]
    /\ UNCHANGED <<link, session, peerBoot, slot, arrivals, registry, outbox, released, given>>

-----------------------------------------------------------------------------
(* The application task: what follows a result                              *)

(* The slots become others; the event task may be about to use one of them. *)
Rewritten(S) ==
    /\ upcall' = IF upcall.slot \in S THEN [upcall EXCEPT !.fresh = FALSE] ELSE upcall
    /\ given' = [s \in Slots |-> IF s \in S THEN 0 ELSE given[s]]

(* The inactive subscriptions are subscribed to again, one after another.   *)
Reconcile(subscriptions, after) ==
    LET todo == {s \in Slots : /\ s > after /\ subscriptions[s].topic # NoTopic
                               /\ ~ subscriptions[s].active}
    IN task' = IF todo = {} THEN SubIdle
               ELSE [SubIdle EXCEPT !.at = "reconcile", !.slot = Min(todo),
                                 !.topic = subscriptions[Min(todo)].topic]

AfterSubHello(r) ==
    /\ At("hello")
    /\ \/ r.status = "ok"
          /\ session' = "established" /\ peerBoot' = r.boot
          /\ IF peerBoot \notin {0, r.boot}
             THEN task' = [SubIdle EXCEPT !.at = "reset"]
             ELSE Reconcile(slot, 0)
       \/ r.status # "ok" /\ task.tries < HelloRetries
          /\ task' = [task EXCEPT !.tries = @ + 1]
          /\ UNCHANGED <<session, peerBoot>>
       \/ r.status # "ok" /\ task.tries = HelloRetries
          /\ session' = "reset" /\ task' = SubIdle
          /\ UNCHANGED peerBoot
    /\ UNCHANGED <<slot, held, upcall, given>>

(* Mutant of SessionReset: the subscriptions stay as they are.              *)
SessionResetKeeps ==
    /\ At("reset")
    /\ held' = NoneHeld
    /\ task' = SubIdle
    /\ UNCHANGED <<slot, upcall, link, session, peerBoot, inbox, registry, outbox, history>>

(* robusto_proxy_pubsub_session_reset: the delegate has restarted.          *)
SessionReset ==
    /\ At("reset")
    /\ held' = NoneHeld
    /\ slot' = [s \in Slots |->
                  IF s \in Allocated
                  THEN [slot[s] EXCEPT !.active = FALSE, !.id = 0, !.next = 1]
                  ELSE slot[s]]
    /\ Rewritten(Allocated)
    /\ Reconcile(slot', 0)
    /\ UNCHANGED <<link, session, peerBoot, inbox, registry, outbox, released, used>>

AfterReconcile(r) ==
    /\ At("reconcile")
    /\ IF r.status = "ok"
       THEN /\ slot' = [slot EXCEPT ![task.slot].id = r.id, ![task.slot].next = 1,
                                    ![task.slot].active = TRUE,
                                    ![task.slot].boot = r.boot]
            /\ Rewritten({task.slot})
            /\ Reconcile(slot', task.slot)
            /\ UNCHANGED session
       ELSE /\ session' = "degraded" /\ task' = SubIdle
            /\ UNCHANGED <<slot, upcall, given>>
    /\ UNCHANGED <<peerBoot, held>>

AfterSubscribe(r) ==
    /\ At("subscribe")
    /\ task' = SubIdle
    /\ IF r.status = "ok"
       THEN /\ slot' = [slot EXCEPT ![task.slot] =
                          [topic |-> task.topic, id |-> r.id, next |-> 1,
                           active |-> TRUE, boot |-> r.boot]]
            /\ Rewritten({task.slot})
       ELSE UNCHANGED <<slot, upcall, given>>
    /\ UNCHANGED <<session, peerBoot, held>>

AfterUnsubscribe(r) ==
    /\ At("unsubscribe")
    /\ task' = SubIdle
    /\ IF r.status = "ok"
       THEN /\ slot' = [slot EXCEPT ![task.slot] = Unused]
            /\ held' = IF held.id = slot[task.slot].id THEN NoneHeld ELSE held
            /\ Rewritten({task.slot})
       ELSE UNCHANGED <<slot, held, upcall, given>>
    /\ UNCHANGED <<session, peerBoot>>

SubResult(r) ==
    /\ \/ AfterSubHello(r) \/ AfterReconcile(r) \/ AfterSubscribe(r) \/ AfterUnsubscribe(r)
    /\ UNCHANGED inbox

-----------------------------------------------------------------------------
(* The application task: exchanges                                          *)

SubRequest == [kind  |-> IF At("reconcile") THEN "subscribe" ELSE task.at,
            topic |-> task.topic,
            id    |-> IF At("unsubscribe") THEN slot[task.slot].id ELSE 0]

Exchanging == ~ At("idle") /\ ~ At("reset")

SendSubRequest ==
    /\ Exchanging
    /\ Transmit(SubRequest, Again)
    /\ released' = IF At("unsubscribe") THEN released \cup {SubRequest.id} ELSE released
    /\ UNCHANGED <<subscriber, arrivals, registry, outbox, given, used>>

SubRequestRefused ==
    /\ Exchanging
    /\ Refuse(Again)
    /\ SubResult([status |-> "refused"])
    /\ UNCHANGED <<registry, outbox, released, used>>

SubRequestAnswered ==
    LET r == Head(replies).result
    IN /\ Answered(r) /\ SubResult(r)
       /\ UNCHANGED <<registry, outbox, released, used>>

SubRequestTimesOut ==
    /\ Expired
    /\ SubResult([status |-> "unknown"])
    /\ UNCHANGED <<registry, outbox, released, used>>

Application ==
    \/ SendSubRequest \/ SubRequestRefused \/ SubRequestAnswered \/ SubRequestTimesOut
    \/ SessionReset

-----------------------------------------------------------------------------
(* The event task                                                           *)

Matching(id) == {s \in Slots : slot[s].active /\ slot[s].id = id}

(* The callback of the first matching subscription will be called.          *)
Found(e, boots) ==
    upcall' = [slot |-> Min(Matching(e.id)), seq |-> e.seq, topic |-> e.topic,
               boots |-> boots, fresh |-> TRUE]

HandleDelivery(e) ==
    /\ e.kind = "inline"
    /\ IF held.id = e.id \/ Matching(e.id) = {}
       THEN UNCHANGED upcall
       ELSE Found(e, {e.boot})
    /\ UNCHANGED held

(* There may be no memory for the message.                                  *)
HandleEventBegin(e) ==
    /\ e.kind = "begin"
    /\ \/ held # NoneHeld /\ held' = NoneHeld
       \/ held = NoneHeld /\ UNCHANGED held
       \/ held = NoneHeld /\ Matching(e.id) # {}
          /\ held' = [id |-> e.id, seq |-> e.seq, got |-> 0, boots |-> {e.boot}]
    /\ UNCHANGED upcall

Continues(e) == held # NoneHeld /\ held.id = e.id /\ held.seq = e.seq

HandleEventChunk(e) ==
    /\ e.kind = "chunk"
    /\ held' = IF Continues(e) /\ e.part = held.got
               THEN [held EXCEPT !.got = @ + 1, !.boots = @ \cup {e.boot}]
               ELSE NoneHeld
    /\ UNCHANGED upcall

HandleEventCommit(e) ==
    /\ e.kind = "commit"
    /\ held' = NoneHeld
    /\ IF Continues(e) /\ held.got = Chunks /\ Matching(e.id) # {}
       THEN Found(e, held.boots \cup {e.boot})
       ELSE UNCHANGED upcall

HandleEvent ==
    /\ inbox # <<>> /\ upcall = NoCall
    /\ inbox' = Tail(inbox)
    /\ LET e == Head(inbox)
       IN IF session # "established"
          THEN UNCHANGED <<held, upcall>>
          ELSE \/ HandleDelivery(e) \/ HandleEventBegin(e)
               \/ HandleEventChunk(e) \/ HandleEventCommit(e)
    /\ UNCHANGED <<link, subscriber, registry, outbox, history>>

(* The slot was not rewritten since it was found, and the message is not of *)
(* an earlier boot of the delegate than the subscription.                   *)
Own(u) == u.fresh /\ u.boots = {slot[u.slot].boot}

(* dispatch_delivery.  A slot that was cleared has no callback to call: the *)
(* processor panics, and the event task goes no further.                    *)
DispatchDelivery ==
    /\ upcall # NoCall /\ upcall.slot \in Allocated
    /\ slot' = [slot EXCEPT ![upcall.slot].next = upcall.seq + 1]
    /\ given' = IF Own(upcall) THEN [given EXCEPT ![upcall.slot] = upcall.seq] ELSE given
    /\ upcall' = NoCall
    /\ UNCHANGED <<link, session, peerBoot, task, held, inbox, registry, outbox, released, used>>

-----------------------------------------------------------------------------
(* The delegate: requests                                                   *)

SubHandshakeRequired ==
    /\ bridge # NoFrame /\ ~ Handling("hello") /\ ~ greeted
    /\ Respond([status |-> "notready"])
    /\ UNCHANGED <<registry, outbox>>

(* Queued events are discarded, also those of the present subscriptions.    *)
HandleSubHello ==
    /\ Handling("hello")
    /\ greeted' = TRUE
    /\ events' = <<>> /\ stage' = 0
    /\ Respond([status |-> "ok", boot |-> boot])
    /\ UNCHANGED <<boot, table, nextId>>

Ok(id) == [status |-> "ok", id |-> id, boot |-> boot]

(* The local PubSub may fail to subscribe or to unsubscribe.                *)
HandleSubscribe ==
    /\ Handling("subscribe") /\ greeted
    /\ LET t == bridge.request.topic
       IN \/ table[t] # NoSub /\ Respond(Ok(table[t].id)) /\ UNCHANGED <<table, nextId>>
          \/ table[t] = NoSub /\ Respond(Ok(nextId))
             /\ table' = [table EXCEPT ![t] = [id |-> nextId, next |-> 1]]
             /\ nextId' = nextId + 1
          \/ table[t] = NoSub /\ Respond([status |-> "failed"])
             /\ nextId' = nextId + 1 /\ UNCHANGED table
    /\ UNCHANGED <<boot, greeted, outbox>>

(* Mutant of HandleUnsubscribe: the next subscription gets the id.          *)
HandleUnsubscribeReuses ==
    /\ Handling("unsubscribe") /\ greeted
    /\ LET id == bridge.request.id
       IN /\ table' = [t \in Topics |-> IF table[t].id = id THEN NoSub ELSE table[t]]
          /\ nextId' = id
          /\ Respond([status |-> "ok"])
    /\ UNCHANGED <<boot, greeted, outbox>>

HandleUnsubscribe ==
    /\ Handling("unsubscribe") /\ greeted
    /\ LET id == bridge.request.id
           known == \E t \in Topics : table[t].id = id
       IN \/ Respond([status |-> "ok"])
             /\ table' = [t \in Topics |-> IF table[t].id = id THEN NoSub ELSE table[t]]
          \/ known /\ Respond([status |-> "failed"]) /\ UNCHANGED table
    /\ UNCHANGED <<boot, greeted, nextId, outbox>>

HandleRequest ==
    /\ SubHandshakeRequired \/ HandleSubHello \/ HandleSubscribe \/ HandleUnsubscribe
    /\ UNCHANGED <<subscriber, arrivals, history>>

-----------------------------------------------------------------------------
(* The delegate: messages                                                   *)

(* queue_delivery: a message that finds no room in the queue or the pool,   *)
(* or no memory, has taken a sequence number all the same.                  *)
Publish(t, large) ==
    /\ table[t] # NoSub /\ MayStill("messages") /\ Count("messages")
    /\ table' = [table EXCEPT ![t].next = @ + 1]
    /\ \/ Len(events) < EventLimit
          /\ events' = Append(events, [id |-> table[t].id, seq |-> table[t].next,
                                       large |-> large, topic |-> t])
       \/ UNCHANGED events
    /\ UNCHANGED <<link, subscriber, arrivals, boot, greeted, nextId, stage, released, given>>

Piece(e) ==
    [id |-> e.id, seq |-> e.seq, topic |-> e.topic, boot |-> boot, part |-> stage - 1,
     kind |-> CASE ~ e.large -> "inline"
                [] e.large /\ stage = 0 -> "begin"
                [] e.large /\ stage \in 1..Chunks -> "chunk"
                [] OTHER -> "commit"]

(* The controller's receive task drops what its event task is too slow for. *)
(* A piece that cannot be sent is sent again later.                         *)
SendPiece ==
    /\ bridge = NoFrame /\ greeted /\ events # <<>>
    /\ LET p == Piece(Head(events))
       IN /\ inbox' = IF Len(inbox) < EventQueue THEN Append(inbox, p) ELSE inbox
          /\ IF p.kind \in {"inline", "commit"}
             THEN events' = Tail(events) /\ stage' = 0
             ELSE stage' = stage + 1 /\ UNCHANGED events
    /\ UNCHANGED <<link, subscriber, held, upcall, registry, history>>

(* What has reached the controller's queue stays there.                     *)
SubRestart ==
    /\ MayStill("restarts") /\ Count("restarts")
    /\ LoseFrames
    /\ boot' = boot + 1 /\ greeted' = FALSE /\ nextId' = 1
    /\ table' = [t \in Topics |-> NoSub]
    /\ events' = <<>> /\ stage' = 0
    /\ released' = {}
    /\ UNCHANGED <<subscriber, arrivals, given>>

SubNext ==
    \/ SubConnect
    \/ \E t \in Topics : Subscribe(t) \/ Publish(t, TRUE) \/ Publish(t, FALSE)
    \/ \E s \in Slots : Unsubscribe(s)
    \/ Application \/ HandleEvent \/ DispatchDelivery
    \/ DropStaleResponse /\ UNCHANGED <<subscriber, arrivals, registry, outbox, history>>
    \/ TakeFrame /\ UNCHANGED <<subscriber, arrivals, registry, outbox, history>>
    \/ HandleRequest \/ SendPiece \/ SubRestart

SubSpec == SubInit /\ [][SubNext]_subVars

-----------------------------------------------------------------------------
(* The callback that is about to be called is that of the subscription the  *)
(* message was published to, and the message comes after all that it was    *)
(* given before, whatever was lost, repeated, restarted or unsubscribed in  *)
(* between: unless the slot was rewritten since it was found, or the        *)
(* message is of an earlier boot of the delegate than the subscription (the *)
(* ids begin again, and an event does not carry the boot id).               *)
OwnMessagesInOrder ==
    upcall # NoCall /\ Own(upcall) =>
        /\ upcall.topic = slot[upcall.slot].topic
        /\ upcall.seq > given[upcall.slot]

(* Between calls, in a session with the present boot of the delegate, every *)
(* subscription of the application is one of the delegate's, unless an      *)
(* UNSUBSCRIBE went out for its id: losses, retries, requests that come     *)
(* late, restarts and half-done reconciliations leave no subscription that  *)
(* looks alive and gets nothing.                                            *)
SubscriptionsAreKnown ==
    /\ session = "established" /\ At("idle") /\ peerBoot = boot
    => \A s \in Allocated :
          /\ slot[s].active
          /\ slot[s].id \in released \/ table[slot[s].topic].id = slot[s].id
=============================================================================
