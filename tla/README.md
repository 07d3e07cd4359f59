# Robusto: a TLA+ verification project

Robusto is a C framework for microcontrollers and single-board computers: nodes
find each other and exchange messages over several media at once (ESP-NOW, BLE,
LoRa, CAN bus, I2C, wired), judge the quality of each medium, recover the bad
ones, publish and subscribe, and, with the proxy, let a processor without radio
(the P4) use the radio of another (the C6). This directory holds TLA+ models of
its core logic, the configurations TLC checks them under, and theorems about
them that TLAPS proves. Paths below are relative to `src/components/robusto/`,
and each definition that models code is tied to its lines by the `map` of
`PROJECT.json`.

Contents: [the system](#1-the-system) · [the modules](#2-the-modules) ·
[the runs](#3-the-runs-and-their-bounds) · [fairness](#4-fairness) ·
[the proofs](#5-the-proofs) · [disagreements found](#6-disagreements-found) ·
[what is not modelled](#7-what-is-not-modelled) · [the plan](#8-the-plan) ·
[running it](#9-running-it)

## 1. The system

### 1.1 Components, their state and operations

| component | state | operations | interacts with |
|---|---|---|---|
| **Work queue and worker** `server/src/queue` | list of items, `count`, limits, mutex, `blocked`, `shutdown`; one `queue_state` of three bytes per watched item | add (evict, insert, reject), worker loop, wait for a result, release the `queue_state`, block, shut down | every medium has one; incoming messages, conductor, pubsub and UMTS have one |
| **Message sending** `network/src/message/robusto_message_sending.c`, choice of a medium in `network/src/peer/robusto_peer.c` | media queue items, depth, excluded media | `send_message_*`, `send_work_item` with attempts and hand-over to another medium | work queue of each medium, QoS, fragmentation |
| **Fragmentation** `network/src/message/robusto_message_fragment.c` | list of `fragmented_message_t`: received bits, counters, state | send, answer REQUEST, FRAGMENT, CHECK, RESEND, RESULT | media below, incoming queue above |
| **Peers, relations, presentation** `network/src/peer` | peer list, `peer->state`, relation ids, `relations[]` in memory that survives | add, find, remove; send and handle HI and HIR; recover relations | QoS (recovery presents), incoming worker, application |
| **Quality of service** `network/src/qos` | per peer and medium: state, problem, last heartbeats, `postpone_qos`; scores | monitor callback, heartbeats, recovery task, scoring | presentation, sending, media queues |
| **Incoming messages and services** `network/src/incoming` | queue, table of services | parse, look up, dispatch in the worker or a task | fragmentation, presentation, pubsub, conductor |
| **Pubsub** `misc/src/pubsub` | server: topics and subscribers under one mutex; client: topics with a state | subscribe, publish, remove; client recovery | services, proxy adapter |
| **Proxy client and service** `proxy/src` | P4: session, slots of subscriptions, reassembly; C6: greeted session, publish transfer, subscriptions, event descriptors | HELLO, publish (inline or BEGIN, DATA, COMMIT, ABORT), subscribe, unsubscribe, events, health, reboot | SDIO link, local pubsub |
| **Proxy link** `proxy/transports` | outstanding request, frame queue of one, event queue | exchange, bridge task, receive and event tasks, host recovery | proxy client and service, updater |
| **Firmware update of the C6** `proxy/transports/esp_sdio/src/c6/update`, `.../p4`, example `provisioning` | flash slots, boot slot, confirmation record, updater session; P4: migration phase in NVS | boot guard, read and confirm the identity, BEGIN, WRITE, END, ACTIVATE; provision, migrate | SDIO link |
| **Conductor** `conductor/src` | server: time of the next window, who asked; client: sleep schedule | ask for time, take and give control, sleep | services, sleep |
| **Init, services, runlevels** `base/src/init` | `curr_runlevel`, list of services | start and stop in order | all |
| **Repeater, memory monitor, UMTS, input, UI, flash, logging** | callbacks, drivers | | |

### 1.2 How they interact, and what is hard

A message of the application is built and put on the queue of the best medium.
The worker of that medium sends it, in fragments if it is large. When it fails
and a receipt is wanted, the *worker* puts the data on the queue of another
medium and waits for that one. The caller learns the outcome from one status
byte that it polls and both sides may free. On the other node the receive
callback hands the message to the incoming queue, whose worker calls a service:
presentation, pubsub, conductor, or one of the application.

What makes this hard to test:

* **Unlocked sharing.** The status byte, `peer->state`, the media states, the
  `fragmented_message_t` and the subscription slots are read and written by
  several tasks without a lock. The order of a timeout and a late result, of a
  mark and the write that takes it back, decides what the caller is told and who
  owns the memory.
* **Waiting in workers.** A worker that waits for another medium stops its own
  queue; two can wait for each other.
* **Loss and lateness.** Fragments, checks, receipts, presentations, requests,
  responses and events are lost independently; answers come after their request
  was given up.
* **Restarts.** A node restarts and forgets; the delegate restarts between two
  requests of one call; either processor restarts between two writes to flash.
* **Limits.** Queues with a reserve for important items, a frame queue of one,
  events dropped when a queue is full, clocks of 32 bits.

`PROJECT.json` lists each such hazard at the line where it bites, with the
properties that would catch it, or why none does yet.

### 1.3 What makes each component correct

* Work queue: no side uses a `queue_state` that the other has freed; every
  message buffer is freed once; "succeeded" is told only of a message that was
  sent; the reserve is kept; what was accepted is settled.
* Sending: data has one owner; a message does not return to a medium that has
  failed it; a good verdict means that the peer was reached; every send ends.
* Fragmentation: success means that the peer has the whole message (it hands it
  on afterwards); at most one delivery for each attempt; lost fragments are recovered; it returns.
* Presentation: nodes that can hear each other end up knowing each other;
  nobody leaves a peer marked as being presented to.
* Proxy: a call returns; what it returns is never contradicted later; nothing is
  published twice or out of order; a callback gets the messages of its own topic
  in order; a new session leaves no subscription that only looks alive.
* Firmware: the C6 can always boot; a confirmed image stays until another is
  activated; "complete" means exactly that image, confirmed; migration completes
  whatever is interrupted.
* QoS: silence, and not being heard, are noticed in time and not forgotten; a
  medium that works again is used again.
* Pubsub: whoever holds a mutex gives it back, every call ends, a publish is one
  event for all its subscribers; the client's topics are brought back when the
  server has restarted.
* Conductor: a client that asked meets the server awake; granted time is kept
  and bounded, but for races that are named; a client out of step comes into step.
* Runlevels, peer list: see the plan.

## 2. The modules

| module | models | extends or implements |
|---|---|---|
| `WorkQueue` | queue, worker, `queue_state`, callers | |
| `WorkQueueProofs` | five theorems | `WorkQueue` |
| `MCWorkQueue` | which bytes fresh memory may hold | `WorkQueue` |
| `MediaSend` | sending over several media | implements `MessageDelivery` |
| `MessageDelivery` | *abstract*: held, reached, told | |
| `MediaSendProofs` | three theorems, one a refinement | `MediaSend` |
| `Fragmentation` | one large message, three threads and the air | implements `Transfer` |
| `FragmentationProofs` | two theorems, one a refinement | `Fragmentation` |
| `Transfer` | *abstract*: attempts, deliveries, outcome | |
| `TwoNodes` | two nodes, and how much goes wrong between them | |
| `Presentation` | two nodes with four threads each | extends `TwoNodes` |
| `MediumQos` | quality of service of one medium between two nodes | extends `TwoNodes` |
| `MCMediumQos` | the ways in which the links can be broken | `MediumQos` |
| `PeerProofs` | four theorems | `Presentation`, `MediumQos` |
| `ProxyExchange` | one outstanding request on the SDIO link | |
| `ProxyPublish` | publishing through the delegate | extends `ProxyExchange`, implements `RemotePublish` |
| `RemotePublish` | *abstract*: order of publications, verdicts | |
| `ProxyDelivery` | subscribing and getting messages | extends `ProxyExchange` |
| `MCProxyDelivery` | symmetry of the topics | `ProxyDelivery` |
| `ProxyProofs` | six theorems, one a refinement | `ProxyPublish`, `ProxyDelivery` |
| `UpdateDelegate` | the C6 side of an update | |
| `FirmwareUpdate` | the P4 side, composed with it | extends `UpdateDelegate` |
| `FirmwareUpdateProofs` | three theorems | `FirmwareUpdate` |
| `PubsubServer` | the pubsub server with the adapter of the proxy | implements `PubsubBoard` |
| `PubsubBoard` | *abstract*: who gets what, what publishers are told | |
| `PubsubClient` | one topic of the pubsub client, its server and the air | |
| `PubsubProofs` | six theorems, one a refinement | `PubsubServer`, `PubsubClient` |
| `ConductorServer` | the cycle of the server, tasks that ask for time, deep sleep | |
| `Conductor` | a client that gives control to the server | extends `ConductorServer` |
| `MCConductor` | who takes part: the tasks or a client | `Conductor` |
| `ConductorProofs` | four theorems | `Conductor` |

### 2.1 WorkQueue

`queue`, `count`, `mutex`, `blocked` and `shutdown` are the fields of
`queue_context_t`; `cell[r]` is the status byte of r's `queue_state` and
`life[r]` its allocation; `pc`, `wpc`, `cur`, `retval` are the local state of the
callers and the worker; `frees[r]` counts how often the message buffer was freed;
`accepted`, `verdict` and `sent` remember what happened. Each access to the
status byte is a step of its own, since nothing locks it; the regions under the
mutex are cut where they contain such an access. `Submit` allocates the cell with
whatever the heap held (`Garbage`), DROPPED included, `TakeMutex`, `Evict`, `StoreEvicted`,
`Insert` and `RejectFull` are `safe_add_work_queue`; `MarkQueued` writes QUEUED
after the item is already visible to the worker, as the code does; `SeeResult`
and `WaitTimesOut` are the two ends of `robusto_waitfor_queue_state`; `Release`
and `Drop` are `robusto_free_queue_state`, `Finish` and `StoreResult`
`robusto_set_queue_state_result`. `origin` tells a byte of the heap from one that the
program has stored; `FreeDropped` is the worker freeing a cell that is DROPPED, and
a cell that it frees because the heap held that value is `misread` from then on,
of which nothing can be said any more. `Counted` and `Evicting` tell the queue of
ESP-NOW, whose callbacks count and drop, from the others, whose `count` stays 0.

### 2.2 MediaSend

One queue, one worker and one media state for each medium. `work[x]` is where
`send_work_item` of medium x is, with its item, attempts and the medium it chose
next; `cell[m][d]` is the status byte of m's item at depth d. `Choose` takes any
medium that the guards of `set_suitable_media` admit (the score is floating
point and becomes a free choice); `TestedBit` is the bit that the code tests for a
medium, which for BLE is that of ESP-NOW. `Forward`, `MarkChild`, `ChildSeen` and `ChildTimesOut` are the
hand-over and the wait of 6 s, during which the worker serves nothing else.
The inside of one queue is in `WorkQueue`; here adding is one step that may be
refused. `Stage`, defined from `pc` and `frees`, maps it to `MessageDelivery`.

### 2.3 Fragmentation

`tx` is the sender's `fragmented_message_t`, shared without a lock by `main`
(`send_message_fragmented`, in the worker of the medium) and `handler` (the
receive callback: RESEND and RESULT); `rx` is the receiver's, and `rx.whole` tells
that `CheckFragments` has found all fragments and the CRC right and has sent the good
result. The message is handed to the incoming queue only by the next step of the
receiver, `HandOver`, the call of `robusto_handle_incoming` (which may still refuse
it), so that the sender may return success in between, as in the code. `fwd` and `bwd` are
the air in both directions, in order, with losses; a fragment may be corrupted,
since only the whole message carries a CRC. The time-outs are choices:
`WaitTimesOut` (one wait) and `Expire` (the total). `Patient` restricts them
to when nothing is on its way. `Transfer` has `attempts`, `complete` (the peer has the whole message), `delivered`
and `outcome`.

### 2.4 Presentation

`state[n]` is the state of the other node in the peer list of n, `thread[n][t]`
where each thread is in `robusto_send_presentation`: the repeater
(`monitor`), a recovery task, the application, and the incoming worker that
replies. Each read and each write of `peer->state` is a step, except that a
request starts after the test its caller has just made (a later refusal would be as
if it had not come). What is sent arrives at once or is lost; `inbox` is what waits
for the incoming worker, where two equal presentations are one. Heartbeats are not in it: a recovery starts
when the other side is silent, because it has forgotten the node or is kept from
sending heartbeats, or by a fault.

### 2.5 ProxyExchange, ProxyPublish, ProxyDelivery

`ProxyExchange` has what every request shares: the correlation id, the one
response awaited, the delegate's frame queue, the request its bridge task
handles, the responses on their way; and the variables that both its extensions
have: the client's `session`, the running call (`task`) and the delegate's
`greeted`. A request that times out stays where it is and may still be executed.
`ProxyPublish` adds HELLO with retries, inline and chunked publishing, and the
delegate's `transfer` and `published`. Dispatching a message reaches all its
subscribers, some of them, or nobody. Both latter are answered with the same failure,
so that a message in `missed` is published although its caller is told an error;
 `ProxyDelivery` (where names with `Sub`
are of what `ProxyPublish` has in its own way, for one module proves about both) adds the
subscription slots, the event task (finding the slot and calling the callback
are two steps, for nothing locks the slots), the reassembly, reconciliation
after HELLO, and the delegate's subscription table and queue of event
descriptors. `Restart` and `SubRestart` empty the delegate. A request that
`robusto_proxy_sdio_host_send` refuses is taken not to have been transferred, and
correlation ids of two lives of the P4 not to coincide (their seed is random).

### 2.6 UpdateDelegate, FirmwareUpdate

`slot`, `boot` and `record` are flash and NVS and survive; `c6`, `session`, the
two request queues and `toP4` do not. Each durable write is a step, so that a
reset can come between any two: in the boot guard (`GuardArms`,
`GuardSelectsOther`, `GuardRestarts`), in the updater (`Begin` erases, `Write`,
`End`, `Activate` switches, `ActivationRestarts` restarts after the answer). A
slot holds the chunks written to it; it is whole when they are all of one image,
which stands for the validation of the boot loader. `FirmwareUpdate` has the
P4: its `phase` in NVS, the call it is in and the exchange it waits for; the
factory bootstrap; and an operator who runs a provisioner that halted again, or
flashes a newer bundle.

### 2.7 MediumQos

`medium[n]` is the `robusto_media_t` that node n keeps for the other: state,
problem, `postpone_qos`, and the instants `last_state_change`, `last_send`,
`last_receive` and `last_peer_receive`, kept as ages in periods of
`HEARTBEAT_DELAY`, which is what the code compares. `repeater`, `due` and `task`
say where the repeater and the recovery task are. `Monitor` is `check_peer` with
`check_media`, `transition_state` and the action of the state; `Heartbeat` and
`TaskBeats` send how long ago the other was heard, `Parsed` takes it in,
saturating as `UINT16_MAX` does; `TaskStarts`, `TaskPresented` are
`task_recover`. `link` is what becomes of what each node transmits: it arrives,
is lost unseen, or fails to be sent. A presentation is begun in one step and ends in another, so that the
other node's steps, and a period, come between; `Presentation` has its inside.
`silent` remembers how long a node has really heard nothing.

### 2.8 PubsubServer

`topics` and `list` are the topics and their subscribers in list order, `slot` the
slots of the proxy adapter, `server` and `adapter` who holds the two mutexes,
`call[k]` where each of the three tasks is: the bridge, the worker of the
incoming queue, the application. What a task does under the mutex of the server
without waiting for anything is one step; a publish is not, since it hands its
message to one subscriber after another, takes the mutex of the adapter for a
slot, and may call back an application that publishes in turn (`HandToEcho`) and so waits
for its own task. `Same` tells peers apart as the code does, by
`relation_id_incoming`, which is 0 for all of them at first, and which is read
from freed memory for a deleted one. `Unlinked` is the walk along a list that
unlinks the subscribers of a deleted peer. The refinement maps each list to the
set of those in it (`MemberSets`), and `received` to what had been received without
the messages of publishes under way (`Delivered`): a publish takes effect when it
ends.

### 2.9 PubsubClient

`state` and `hash` are those of `subscribed_topic_t`; `at` says where the
application and each recovery task are in `robusto_pubsub_client_get_topic`,
`recover_topic` and the publish call, and `sent` whether their message went out.
`air` holds what is under way in any order. A new conversation id makes what is
under way older (`Number`), since answers are matched by id first and by hash
otherwise. `CheckTopic` and `RecoversSubscription` create recovery tasks: they do
nothing while the peer is not known (`peerKnown`), or mark the topic RECOVERING
first and may then fail to create the task. A presentation of the server is
taken in two steps of one worker, `TakesHello`, which makes the peer known, and
`RecoversSubscription` (`greeting` is between them), because other threads write
the peer's state in between (`OthersWritePeer`). The server presents itself when it has
restarted (`ServerRestarts`) or at any other time (`ServerPresents`).
`Provided` and `cause` belong to the property: the server sends data or will be
asked to, or `cause` is what the step did after which that was no longer so.

### 2.10 ConductorServer, Conductor

`clock` and `myClock` are `r_millis()` of server and client, 0 at every wake and
negative while asleep; `lastSleep` and `lastDuration` survive in RTC memory. All
differences and sums wrap (`Wrap`), as `uint32_t` does. `TakeControl`, `Waits`,
`WaitEnds` and `Extend` are `take_control` with its loop, in whose last pass
`overran` is set if it ends at the limit of the timebox; `SleepLength` is its last line.

`robusto_conductor_server_ask_for_time` holds no lock, so that a task that asks
takes three steps: `AskReads` (how long the server still waits; the three variables
of that one line are read together), `AskTests` (unnecessary, denied, approved)
and `AskGrants`. The server and other tasks step in between. `reckons` says what
became of the wait the task read, and `raced` how requests of this cycle went
wrong: *early* ones come before the server waits and are told true without being
recorded; *stale* ones are stored although they reckon with another wait than
the one that is on; *overwritten* is what was granted to one task while another,
which asked for less, had compared already.

The client, once awake, may come to know the conductor (`Introduced`), through a
presentation that it makes once, or that the server makes. `GiveControl` with a
known conductor asks (`StartsAsking`, `AsksAgain`), sleeps until it is available,
or gives up and sleeps `RetryWait`. With an unknown one it waits `Patience`
(`Finds`), in vain if `FindsNobody`: then the call has *returned*, without a
request and without sleep, and what happens next is up to the application
(`CallsAgain`). Messages are late or lost, and lost when nobody is awake.

The assumptions on the constants are what the code relies on without testing it.
`CycleAssumption`: the timebox fits into the cycle, and a cycle with all its
margins into 32 bits; the default configuration has 3600 s, 80 s and 4 s.
`MeetingAssumption`: the margins and the delay of a message are shorter than the
time the server is awake (40 s). `AskAssumption`: no task asks for so much (49 days) that
`r_millis() + wait_time_left + ask` wraps, which would pass the test of the timebox.

## 3. The runs and their bounds

Every property of a passing run has a mutant in `PROJECT.json`: a plausible bug
in one definition that makes TLC find the property violated.

| run | distinct states | question |
|---|---|---|
| `workqueue` | 168,588 | do queue, worker and callers keep memory, verdicts and the reserve in every interleaving, and is what was accepted settled? |
| `presentation` | 223,916 | do two nodes end up knowing each other, and does no request leave its mark? |
| `media` | 423,002 | can messages that cross between media be freed twice, told wrongly, go back, or wait for ever? |
| `frag` | 885,506 | is success true, and does the sender return, whatever is lost? |
| `frag_recover` | 26,384 | are lost fragments recovered when nothing else goes wrong? |
| `proxy_publish` | 439,654 | is the verdict of a publish ever contradicted? is a transfer left behind? |
| `proxy_delivery` | 3,060,327 | do callbacks get their own messages, in order, across sessions? |
| `firmware` | 43,796 | can a reset, a lost packet or a late answer strand the C6 or the migration? |
| `qos` | 677,131 | is silence noticed, is deafness, and does a medium heal? |
| `pubsub` | 92,020 | do calls end and lists agree, with two mutexes taken in both orders? |
| `pubsub_client` | 227,674 | is a subscriber forgotten, does a published topic come back, whatever is lost or restarts? |
| `conductor` | 306,661 | do client and server meet, over wraps of the clock, lateness and loss, and is granted time kept while tasks race? |

`TypeOK` is stated in every module; the run `workqueue` checks it, and it can be
added to the `INVARIANTS` of the other configurations. Where a module has proofs
it is part of the inductive invariant.

**workqueue.** Three messages: a watched normal one, a recovery one and an
important one; limits 1 and 2; a fresh cell holds SUCCEEDED, RUNNING, DROPPED or
another byte. Three tasks and limits of 1 and 2 make the queue full, make it evict, refuse,
and use the reserve; one watched cell suffices because cells do not
interact except through eviction, which happens to the watched one. The code does not
initialise the byte, so that a fresh cell may hold any value, DROPPED among them:
the worker that finds that one before anybody has written frees a cell that is waited for, and
`CellAccessSafe` and `TruthfulVerdict` claim nothing from then on (`Misread`).
`CellAccessSafe`, `TruthfulVerdict`, `BufferFreedExactlyOnce`,
`ReserveIsImportant`, `AcceptedIsSettled`.

**media.** Two messages with receipts, ESP-NOW (which evicts) and BLE (whose bit is
not tested), two attempts on each, depth 2: enough for both workers to fail and wait for each
other with the other's message behind. `OneOwnerFreesOnce`,
`NeverBackToAMedium` (a message does not come to a medium whose *tested* bit is excluded: not
back to ESP-NOW, and not to BLE after ESP-NOW, but back to BLE), `ImplementsDelivery`,
`EveryMessageSettles`. Three media with LoRa among them, depth 4 and one message, were
checked as well (136,335 states).

**frag.** Two fragments, two attempts, two messages on the air in each
direction, any number of losses of any kind, one corrupted fragment, time-outs
at any moment. Two fragments distinguish first, last and all; the second attempt
meets what the first left on the air and in the receiver. `OkMeansThePeerHasIt`,
`ImplementsTransfer`, `AlwaysReturns`. **frag_recover.** Five fragments, up to
seven losses, one attempt, and patience: `LostFragmentsAreRecovered`. Five
fragments can be lost at both ends and in the middle at once, and seven losses
repeat some of them. The property excepts one end: a race between two reads of
the state, after which the code itself reports an unexpected state.

**presentation.** Two nodes; the application of one may add the other and try
two media, relations may be recovered, or neither; one fault, which is a loss, a
late, refused or failed send, a restart, a needless recovery or an answer later
than 1500 ms. Presentations cross without any fault. `OnlyRepliesLeaveMarks`
says that of all the ways out of a presentation only one leaves its mark.
`Reunited` says that the nodes end up knowing each other, or both without the
other, or with such a mark.

**proxy_publish.** Two calls of either form, two chunks, two connects, one
restart, a frame queue of one (as in the code) and two responses on their way:
the second call meets the late answers and the late requests of the first.
`HoldsNothingAfterReturn`: between calls, with nothing under way, the delegate
holds no half-done message, which would block every later large one. A COMMIT
that the link refuses is not followed by ABORT; `withheld` marks that case and
the property excepts it. `RemotePublish` says what a verdict is worth: *ok*, all
subscribers have the message; *refused*, nobody has it and nobody will; *failed*,
not published, or somebody missed it; *unknown*, it may still be published.
`ImplementsRemotePublish`, `CallsReturn`.

**proxy_delivery.** Two slots and topics, two messages of either form, one chunk
besides BEGIN and COMMIT, two connects, two subscribes, one unsubscribe, one
restart; event queues of one, so that events are dropped. Topics are symmetric
(the run has no liveness). `OwnMessagesInOrder`: the callback about to be called is
that of the subscription the message was published to, and the message comes after
all it was given before, unless the slot was rewritten since it was found or the
message is of an earlier boot than the subscription (ids begin again, and an event
does not carry the boot id). `SubscriptionsAreKnown`: between calls, in a session
with the present boot, every subscription of the application is one of the
delegate's, unless an UNSUBSCRIBE went out for its id.

**firmware.** An older raw image or the factory image at first; the bootstrap
image; the final one; then a newer or a broken bundle; two chunks; three faults
anywhere (reset of either side, lost packet, late answer, a link opened too
early). Three faults let a reset hit the candidate, the rollback and the repetition.
`AlwaysBootable`, `CompleteIsConfirmed`, `ConfirmedStays`, `Migrates`,
`CandidateNeverStrands`. Deadlock is checked here: the provisioner never ends for good.

**qos.** Two nodes, a limit of two periods (six in the code: ages beyond the limit are
not told apart, so that the number of periods up to it only adds waiting), a field
that saturates at four, two faults: the links change (one direction lost, both
lost, the radio of one node fails), a large message postpones the checks, a
recovery task cannot be created. Two faults break the links and restore them.
`SilenceIsNoticed`: whoever has heard nothing for `Limit + 2` periods does not
hold the medium for working. `DeafnessIsNoticed` is weaker, because a
presentation of the other node and the counting down of `last_peer_receive` hide
it now and then: it comes back again and again. `Heals`: once the links work,
both media work for good.

**pubsub.** One topic, one slot of the adapter, one peer, two messages, three
tasks. The mutexes meet when the bridge subscribes while a publish walks the
list; two messages are needed for an order, and a peer deleted while its message is
still in the queue needs only one peer. `MutexesGivenBack`, `SlotsAgree`,
`DeletedAreForgotten`, `ImplementsBoard`, `CallsReturn`. The server's mutex is
waited for ten seconds at most, which is what makes `CallsReturn` true.

**pubsub_client.** A topic with a callback or one that is only published on, one
recovery task at a time (the creation of a second one counts as failed), one presentation
of the server, with a restart or without, one publication under way, the peer's state
written at any time by others, any loss, lateness, refusal. `NobodyIsForgotten`: a topic with a
callback gets data or will ask for it, unless one of six things has happened, which
are each reached: a SUBSCRIBE or a presentation was lost, a SUBSCRIBE was refused, a task could not be
created, a presentation came while the topic was RECOVERING, or while others had written the
peer's state, or a late message or the end of a call overwrote the state of an ailing
topic. `PublishersHeal` says that the server comes to know again a topic that is
published on. Without liveness a callback with two presentations, the second in the middle of the
recovery from the first, was checked too (some 700,000 states).

**conductor.** A cycle of 10 ticks, 4 of them awake, a timebox of 8, a clock of 25 (so
that it wraps within three cycles), messages up to a tick late. `cast` chooses
who takes part, since tasks and client meet only in how long the server is awake: two tasks
that ask for 2 ticks at any instant of one cycle, with every order of their steps and the
server's; or a client that is switched on at any time. `TimeboxKept`, `GrantedTimeIsKept`:
unless a race has a name in `raced`. `ClientsMeetServer`, `ComesIntoStep`.
The numbers keep the relations of the default configuration that matter: those of the
assumptions in 2.10. Checked aside, with the same constants: the tasks with
requests for 2 and 3 ticks (10.7 million states), and a client together with one
task (8.9 million states).

In the other runs `CHECK_DEADLOCK FALSE` is set because the bounded system does
end: every message was sent, every call made.

## 4. Fairness

* `WorkQueue`: weak fairness of each task, of the worker and of unblocking. The
  scheduler runs them all and the initialisation of a medium unblocks its queue.
  None for a shutdown or for QoS.
* `MediaSend`: weak fairness of each sending task and each worker; time-outs are
  part of them, since a wait has a deadline. None for QoS or evictions.
* `Fragmentation`: weak fairness of the sender, its receive callback, the
  receiver and of the total time running out. The air owes nothing.
* `Presentation`: weak fairness of the worker and of each presenting thread; the
  repeater comes back to an unknown peer, and a recovery starts when the other side
  stays silent. Losses are faults, of which there are `MaxFaults`.
* `ProxyPublish`: weak fairness of the controller only: every exchange has a
  deadline, whatever the delegate does.
* `FirmwareUpdate`: weak fairness of both processors, and the operator runs a
  provisioner that halted again, which the documentation asks for
  (`docs/ESP32-P4-C6-Proxy-PubSub.md:305`).

* `MediumQos`: weak fairness of time, of the monitor and of the recovery task;
  strong fairness of the heartbeat, whose skip count counts passes of the
  repeater however long the presentations in them take.
* `PubsubServer`: weak fairness of the tasks; strong fairness of taking the
  mutex of the adapter, which the scheduler hands to whoever waits for it.
* `PubsubClient`: weak fairness of the calls and recovery tasks. Strong fairness, so that what is tried
  again and again succeeds at times: sending, the creation of a task,
  publishing, the arrival of a request, a publication and the answer to it. A
  publish returns as soon as its message is queued, so that at times it returns
  before its message has reached the server, and answers find it returned. The tasks that
  present this node leave the peer known now and then, also while a topic ails, and the worker
  goes on with a presentation that it has taken.
* `Conductor`: time, both processors, and no message under way for ever; of the
  presentations and messages that could arrive at once not all are late or lost (strong
  fairness). The application need not call again when a call has returned.

Beyond the two places named here, nothing that can fail is assumed to succeed in the end; where a liveness property needs
faults to stop, they are bounded by a constant.

## 5. The proofs

TLAPS proves these for every value of the constants that satisfies the
assumptions of the modules. Each rests on an inductive invariant, because the
property alone is not inductive.

**WorkQueueProofs.** `CoreInv` is `TypeOK`, `Ownership` and
`BufferFreedExactlyOnce`: where a request is (its task, the queue, the victim,
the worker) determines how often its buffer has been freed, and the places
exclude each other. From it `TypeCorrect` and `BufferDiscipline`. `CellInv` adds
`HandOver`: DROPPED is written only by a task that is done, and while the worker
side holds the cell the waiting task finds it neither finished nor dropped.
Without `HandOver` the induction fails: a cell could be final while it is queued.
Nothing is assumed of what fresh memory holds: a byte of the heap that the worker takes
for the mark of the task makes the state misread, for good (`MisreadStays`), and until then
no value of the heap matters, however late the task writes. From it `CellMemorySafe`
and, with `VerdictInv`, `VerdictsAreTrue`. `VerdictInv` adds `ToldTruth`: SUCCEEDED in an accepted
cell that the worker is done with, and a good return value in the worker, come from a
send that succeeded. `ReserveHolds` is inductive together with `CoreInv`.
Lemmas at the head say what removing an item does to the range and to the absence of duplicates.

**MediaSendProofs.** A place of an item is one in a queue or in the hands of a
worker; most lemmas say where an action moves places. `IInv` says that a message
that was not submitted has no place (`NewOK`); that afterwards its data is freed
exactly when none of its places owns it (`FreedOK`); that the items of one message
form a chain of different depths of which only the deepest owns the data
(`ChainOK`), without which a worker that waits for the one it handed to could free
the data with it; and that nothing counts as sent that did not reach the peer
(`SentOK`, `CellOK`), nor has a sender a verdict while its first item is alive
(`VerdictOK`). From it `DataHasOneOwner`, for any messages, media, depth and number
of attempts. `DeliveryIsImplemented` maps each step to one of `MessageDelivery`:
a message is held while it has an owner, and every verdict comes once.
`NoReturnToAMedium` adds `TriedOK`: the media that took a message up
are excluded by the item that owns it. It speaks of the bit that the code tests for each
medium, and so holds for any set of media, BLE included.

**FragmentationProofs.** `FragInv` is `TypeOK`, `AirOK` (what is on the air is
well-formed) and `SuccessIsTrue`: a good result, on the air or stored in `tx`, and a
good return code anywhere in the sender, imply that the peer has the whole message, handed
over or about to be. `Safety` gives `TypeOK` and `OkMeansThePeerHasIt` for any number of
fragments, attempts, losses and corruptions. `TransferIsImplemented`: each step is one
of `Transfer` or changes none of its variables. It needs `PaidFor`: deliveries, requests on
the air, a live receiver (which it is until it has handed over) and a request about to be
sent are together no more than the attempts, so that no loss, repetition or corruption
makes the peer get the message more often than it was attempted; and `ReportOK`: there is
one report, at the end.

**PeerProofs.** For presentation, `IInv` says that the record of each thread is
well-formed, that a request always falls back to UNKNOWN, and that what is to be sent
has a medium left. Each step keeps it and leaves no mark unless it is a reply
(`LeavesNone`): `PresentationTypeCorrect` and `MarksAreOfReplies`, for any number of
media and faults. For the quality of service, `QInv` ties what the node remembers to
the true silence and says when its monitor looks: a medium that works was heard from
within the limit when the monitor has looked, and at most a period longer ago before
that (`Watched`); the monitor passes over a peer only while the repeater presents,
which it began when the monitor had looked, or while the medium does not work
(`Skipped`); whoever became known while the recovery task presented has just been
heard from (`Known`), so that no recovery makes a silent medium work; and a node never
believes that it was heard more lately than it has received (`Sound`). Without `Skipped` a
presentation could suspend the monitor for ever. From it `TypeCorrect` and
`SilenceNoticed`, for any limit, any field of the heartbeat that can tell a period
more than the limit, any number of faults and any links.

**FirmwareUpdateProofs.** `IInv` is `SlotsOK`, `AlwaysBootable`,
`RunsWhatItBoots` (a C6 that is up runs the slot it boots, or is about to
restart after an activation), `SessionOK` (a session writes only the other slot,
and what is finalised is whole) and `RecordOK`. From it `UpdateAlwaysBootable`
and the action property `UpdateConfirmedStays`: only an activation takes the C6
away from a confirmed image. `UpdateCompleteIsConfirmed` is about three parties, the
provisioner, the updater and the packets between them. `CInv` adds that no packet
or request survives a reset and that packets tell the truth about the image that
runs (`AirOK`); that what is requested or being installed is never the image that
runs (`OthersPending`, `AnswersOK`); and that from `final_pending` on it is the
target (`TargetOK`). So nothing is under way any more when the target is found
confirmed (`VerifiedOK`), and a late activation cannot take it away again.

**PubsubProofs.** For the server, `IInv` is `MutexesGivenBack` and the little it needs to
know of the calls. `Mutexes`: whoever holds a mutex is in a call that gives it
back, and whoever walks a list holds the mutex that guards it, for any number of
topics, slots, peers and messages. `LInv` is about the lists: an active slot of
the adapter is in the list of its topic and in no other, except while its
subscription is on its way to the server (`SlotsOK`), and nobody is in a list twice
(`DistinctOK`), so that the one entry that is removed was the only one. From it
`SlotsAgreeWithLists` and `DeletedPeersForgotten`. That `Unlinked` keeps those
who are not gone is proved for every list although it is recursive: its value at
each length exists, and a least length at which it were wrong leads to a
contradiction. `BInv` is about publishes under way: each has a message of its own
without a result (`MessagesOK`), which nobody has before the walk (`NotOutYet`)
and which is the last one received by those the walk has passed, slots and failures
excepted (`WalksOK`). With it `BoardIsImplemented`: publishing is atomic for
the subscribers, though the walk calls back applications that publish in turn.

For the client, `Inv` adds to `NobodyIsForgotten` that nothing is counted
as sent before it is (`Unsent`), without which a request that fails could have
counted as answered. `AskedKept` carries a request that is asked for over the steps of
other tasks. `ForgottenOnlyForACause`: for any number of recovery tasks,
presentations and restarts and all kinds of topics, whenever a topic with a callback
neither gets data nor is going to ask, the step that made it so was one of the six.

**ProxyProofs.** `OutcomeInv` is about all that the delegate has and may still
execute (`Under`: its queue and what its bridge handles), the responses that may
still come, and what was published. Requests are executed in the order of their ids,
and only HELLO shares one (`InOrder`); later ids are of later calls, wherever two
requests could both take effect (`PairsOK`); what is under way can only publish what
is not out, for calls that were not told the contrary (`PublishedOK`), and the message
being put together is not out and does not begin again (`HalfDoneOK`). Until its
outcome is unknown a call has at most the request under way that it waits for
(`CallOK`), and when the response it waits for is on its way nothing is under way at
all (`AnswerOK`): that is why an ABORT that was answered settles the fate of a late
COMMIT. None of these is inductive without the others. From it `PublishTypeCorrect`
and, each step mapped to one of `RemotePublish` or to none,
`RemotePublishIsImplemented`: for any number of calls, chunks, retries, restarts and
places in the queues. `LeftInv` adds what becomes of a half-done message: it is that
of the present call or its COMMIT was refused (`LeftOK`); it has the chunks that the
task has sent (`GotOK`), so that a COMMIT that is answered has emptied it; the
responses that are awaited tell it (`DoneOK`); and one that answers the latest HELLO
finds nothing but HELLOs under way (`HelloOK`), without which a late BEGIN of the
session before could begin a message in the new one. From it `NothingIsLeftBehind`.

For subscriptions, `SubInv` says that the response to the latest request tells of a
boot no earlier than the session's, and that, when it is of the present boot, the id
it gives is that of the topic in the delegate's table, or an UNSUBSCRIBE of
it was sent (`AnswersOK`); the same of each active slot (`KnownOK`), whose boot is
that of the session or later (`BootsOK`); and that only a reset or a reconciliation
finds inactive slots, this one in their order (`SlotsOK`). From it
`SubscriptionTypeCorrect` and `NoSubscriptionIsForgotten`. For messages,
`MessageInv` rests on claims: the table, the slots, the queued events, the pieces on
the controller and the awaited response each name an id of a boot and a
topic, and no two that name the same differ in the topic (`ClaimsOK`). That
needs ids that are never reused in a boot, and boots that are never the same. The
pieces of one subscription come in order, from the controller's queue through the
delegate's to the next number (`QueuesOK`); all that may still come for an
active slot comes after what it was given (`GivenOK`) and after the message whose callback
is about to be called (`PendingOK`). From it `OwnMessagesCome`: for any number
of topics, slots, messages, chunks, losses, retries and restarts.

**ConductorProofs.** Nothing can be compared once and for all where clocks wrap;
what stays is a distance. `Aim(far)` says that the moment `ServerMargin` into the
server's next period, or into the present one, is `far` away. `AimStays`: no step of
the server moves it, neither waking nor going to sleep, unless the period has ended;
`AimNears`: it comes nearer as time goes on. So an answer under way
tells it since it was sent (`AnswersInv`), the client that has heard it knows it modulo
2^32 and late by the delay (`HeardInv`), and one that sleeps in step wakes then
(`InStepInv`); that the server never tells a moment that is over by the time the
client looks at it is where `CycleAssumption` is needed. `ServerInv` says what the server
keeps in each phase: the wait, what was requested and what was promised fit into the
timebox, and so does what each task that asks has read, with `reckons` telling which wait it
read, so that only a stale store can break the timebox, and only the three named
races what a task was told. Lemmas on wrapped sums and differences (`WrapAdd`, `WrapDistance`) carry the arithmetic.
`TimeboxIsKept` and `GrantsAreKept`, of the server alone (`ServerSpec`), and
`TypeCorrect` and `MeetingsTakePlace`, of server and client, hold for every width,
cycle, margin and delay that satisfy the assumptions, any number of tasks and any requests.

**Only model-checked.** Liveness under fairness (`AcceptedIsSettled`,
`EveryMessageSettles`, `AlwaysReturns`, `LostFragmentsAreRecovered`, `Reunited`,
`CallsReturn`, `Migrates`, `CandidateNeverStrands`, `DeafnessIsNoticed`, `Heals`,
`PublishersHeal`, `ComesIntoStep`) is out of TLAPS's reach. Every safety property
that a run checks is proved, for every value of the constants that their assumptions allow.

## 6. Disagreements found

No run states these, but the models contain the behaviour, and the properties
that meet it say so. What the code or its documentation claims and the code does not
keep is defined beside the properties, in no run: `FreedIsUnwanted` (`WorkQueue`),
`AlwaysAnotherMedium` (`MediaSend`), `LimitIsNotReached`, `TrueMeansTimeInAWait`,
`TrueMeansTimeAlone` (`ConductorServer`), `SleepsAfterTheCall` (`Conductor`) and
`RecoveringIsInProgress` (`PubsubClient`). Added to the `INVARIANTS` of the module's
configuration, each gives a behaviour that breaks it.

* **A fresh byte may say "free me".** `robusto_presentation.c:95` and
  `robusto_message_sending.c:529` allocate a `queue_state` and do not initialise it. If the
  heap left DROPPED there, the worker frees the cell (`robusto_queue.c:46`) although `:45` says
  that then no one is interested in it, and the task that waits reads, writes
  and frees it again. `FreedIsUnwanted`; nothing else is claimed after it.
* **A reply leaves a peer marked as presenting.** `robusto_presentation.c:70`
  tests the state, a line is logged, `:78` reads it again and `:123` or `:153`
  write that back. A request of another thread that sets PRESENTING in between
  and has ended by then leaves the peer PRESENTING, although
  `robusto_peer_def.h:63` says that we then are presenting us, and `:77` that a
  failing reply should not affect the state. Heartbeats, checks and
  presentations skip such a peer until it presents itself. `Reunited` therefore
  excepts it, and `OnlyRepliesLeaveMarks` says that nothing else does it.
* **A message goes back to BLE.** `robusto_peer.c:416` tests the bit of ESP-NOW
  where it should test that of BLE (`TestedBit`), so an excluded BLE is chosen
  again, although `robusto_message_sending.c:512` and `:516` exclude what has
  failed, and its worker waits 6 s for its own queue. `AlwaysAnotherMedium`;
  `NeverBackToAMedium` speaks of the bit that is tested.
* **A callback after unsubscribing.** `robusto_proxy_pubsub_client.c:600` calls
  the callback of a slot that another task may have cleared since it was found,
  although `docs/ESP32-P4-C6-Proxy-PubSub.md:629` says that such a delivery is
  discarded. `OwnMessagesInOrder` excepts slots rewritten since they were found.
* **A candidate that cannot start is armed.** `robusto_c6_recovery.c:122` arms
  whatever image the guard starts without a record, although the documentation
  (`:315`, `:322`) says that only the reading of its identity does. Without it
  such a candidate would not be rolled back.
* **Time that was granted is not kept, and the timebox is exceeded.** The header of the conductor
  (`robusto_conductor.h`) lets tasks ask to wait with sleep and get false when that is denied.
  `robusto_conductor_server.c:116-124` holds no lock against `:159-163`: a request that was compared
  with one wait and stored in the next extends the server beyond the timebox, where the log of
  `:152` says that this should not happen if asking for time works; one stored between
  `:159` and `:163` is cleared; and of two tasks the one that asked for less may store last. Each was told
  true. Without any race, one that asks before the server waits is told true and nothing
  is recorded. `LimitIsNotReached`, `TrueMeansTimeInAWait`, `TrueMeansTimeAlone`;
  `TimeboxKept` and `GrantedTimeIsKept` name these cases, and hold in all others.
* **A call that gives control to an unknown conductor comes back.**
  `robusto_conductor_client.c:103` returns without a request and without sleep when
  `get_conductor` has waited 6 s in vain, although the header promises that the client goes to sleep
  and `conductor/README.md` that it waits before it tries again. A client that wakes
  while the server sleeps stays awake unless its application calls again.
  `SleepsAfterTheCall`; `ComesIntoStep` excepts it.
* **RECOVERING without a recovery.** `robusto_pubsub_client.c` sets the state before the task is
  created; where the creation fails the topic stays so, and the monitor and presentations skip
  it. `RecoveringIsInProgress`; `NobodyIsForgotten` names it ("no task", then "recovering").
* **A presentation that recovers nothing.** The worker that has taken a presentation of the server
  skips its topics (`robusto_pubsub_client.c:450-454`) when another thread has in between set the peer
  back to UNKNOWN or PRESENTING (`robusto_presentation.c:159`, `:82`), and says so only in the
  log. `NobodyIsForgotten` names it ("unknown peer").
* **Success before the hand-over.** `robusto_message_fragment.c:386` sends ROB_OK, `:388` calls
  `robusto_handle_incoming`, which may still refuse the message. `OkMeansThePeerHasIt` therefore
  promises no more than its name.
* **An error for a message that most have got.** A publish through the delegate that failed for
  one subscriber (`robusto_pubsub_server.c:629-658`) is answered like one that was rejected
  (`robusto_c6_pubsub_backend.c:36-38`); a caller that repeats it publishes twice to the others. `RemotePublish`
  says what *failed* is worth.
* **Sleep is prohibited by false.** The header of the conductor says that a
  callback returns true to prohibit sleep; `robusto_conductor_server.c:175`
  prohibits it on false. Nothing in the repository registers one.
* **A guard of the configuration never fires.** The header of the conductor compares
  the cycle with `ROBUSTO_AWAKE_TIMEBOX_MS`, which is not defined there. With a
  cycle shorter than the timebox the client's `next_availability - r_millis()` may wrap: it
  would sleep for 49 days. `CycleAssumption` excludes it.
  `AWAKE_MARGIN` is documented in seconds and used in milliseconds.

Observed in the models or while writing them:

* Sending: the late write of QUEUED hides a stored result until the time-out;
  DONE may overwrite a result in `robusto_message_fragment.c:591`, so that a
  delivered message is reported as timed out; a lost result makes a repetition
  deliver again. After a rollback the image that was confirmed is merely armed, so
  another reset flips back to the rejected candidate.
* QoS: `last_peer_receive` is also a counter; counted down to 0 it hides
  `cannot_reach` (`qos_state.c:217-236`). The field of a heartbeat wraps in the
  first 655 s of the clock. A node that presents itself again and again sends
  heartbeats only every tenth pass. `(int)r_millis()` is negative between 2^31 and 2^32 ms and
  stops the monitor meanwhile (`qos_state.c:313`); the model has no absolute time.
* Pubsub server: two peers without a relation count as one subscriber; a message
  queued before its peer was deleted subscribes a freed pointer (`missed`); the hook
  skips peers with `relation_id_incoming` 0 (`:21`); GET_TOPIC dereferences the
  missing topic when the lock times out; the OK of a publish counts deliveries that
  a full event queue has dropped; what the hooks of a subscribe did that then
  fails is not undone. A publish from a subscriber's callback, as in
  `examples/proxy/esp32_p4_c6_sdio/c6_delegate/main/app_main.c:32`, always waits
  ten seconds and returns `ROB_ERR_MUTEX` (`NestedTimesOut`).
* Pubsub client: the hash is computed locally, so a topic becomes INACTIVE
  without any answer, and a lost SUBSCRIBE of a topic that is not published on is never
  repeated. A recovery counts as successful when the state changes for any reason
  within a second. Late data, late answers and the end of a publish overwrite
  PROBLEM and UNKNOWN. A refused subscription is answered with hash 0, which the
  client takes over. `pubsub_conversation_id++` is not atomic, and two topics
  that are recovered at once may share an id and take each other's hash; ids from
  32768 on never match, being passed as `int16_t`. `NobodyIsForgotten` lists the causes
  that concern one topic.

## 7. What is not modelled

* Data: message layout, CRC (a corrupted message is a value), encryption, names,
  scores, statistics, the result code beside the status byte.
* Failing allocations, NVS and flash calls, except where the code's own error
  path settles a message or a call.
* In `WorkQueue`: the multitasking worker, `insert_head`, the poll callback. In
  `Fragmentation`: several messages at once, the cache of the list, malformed
  lengths. In `Presentation`: contents, duplicates, removal, callbacks of the
  application (a peer is always accepted), suspect and banned peers, the states
  of the media, the message buffer and `queue_state` shared by several media. In
  the proxy: health checks, reboot requests, features, table exhaustion, gap
  counters. In the firmware update: ABORT (no client sends it) and the factory
  transport below its begin and activate. In `MediumQos`: scores, the recovery of
  LoRa, several media (whether all have a problem is a free choice), sleepers, the
  absolute clock. In `PubsubServer`: contents, the removal of the bridge task while it
  may hold a mutex (`c6_proxy_server.c:223-230`). In `PubsubClient`: several
  topics, unsubscribing and the freeing of a topic a recovery task still uses.
  In the conductor: the callback before sleep, boot time and drift; that the peer falls back to
  a lesser state, or is gone, between two calls of `get_conductor()`, whose result is not
  tested after the first (`robusto_conductor_client.c:81-125`); that the three variables of
  `:116` of the server are read one after the other.
* Components: drivers of the media, message building and parsing, incoming
  dispatch, runlevels, peer list, ESP-NOW's receipts, `rsd1` and the SDIO
  host; repeater, memory monitor, UMTS, input, UI, flash, logging, examples.
  Parsing, drivers and protocols of vendors have no state that two actors share; the receipts of
  ESP-NOW are one flag for all peers, of which nothing can be promised.
  `PROJECT.json` gives the reason for each, and lists the hazards that matter most. Others that no
  model covers: a service whose start fails leaves the run level where it was
  (`init_robusto.c:207`); queues that do not count have no limit (`incoming_queue.c:62`); a large
  delivery whose COMMIT the controller lost is not repeated; the conductor peer that
  falls back (above).

## 8. The plan

Order: what every message depends on first, then what tells nodes of each other,
then the proxy, then the rest.

1. **Done.** `WorkQueue`, `MediaSend` with `MessageDelivery`, `Fragmentation` with `Transfer`.
2. **Done.** `Presentation`; `ProxyExchange`, `ProxyPublish` with
   `RemotePublish`, `ProxyDelivery`; `UpdateDelegate` and `FirmwareUpdate`.
3. **Done.** `MediumQos`; `PubsubServer` with `PubsubBoard`, `PubsubClient`; `ConductorServer` and
   `Conductor`.
4. **Proxy control and lifecycle**: health checks, DEGRADED, reboot requests; the
   recovery of the SDIO host; the `rsd1` framing.
5. **Runlevels** (partial start), **peer list and relations** (duplicates, stale
   pointers), several topics of a pubsub client with shared conversation ids, a conductor peer
   that falls back to a lesser state during a call.
6. **Done.** Proofs of every safety property that a run checks, and of all four
   refinements. What 4 and 5 add is to be proved as well.

## 9. Running it

    tlc -workers 2 -config WorkQueue.cfg MCWorkQueue.tla
    tlapm WorkQueueProofs.tla

Each run takes less than four minutes on two workers. The module and
configuration of each run are in `PROJECT.json`.
