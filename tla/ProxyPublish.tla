---------------------------- MODULE ProxyPublish ----------------------------
(***************************************************************************)
(* Publishing through the delegate: robusto_proxy_pubsub_publish and       *)
(* publish_chunked (robusto_proxy_pubsub_client.c), the retries of         *)
(* robusto_proxy_client_request and robusto_proxy_client_connect           *)
(* (robusto_proxy_client.c), the service's handling of HELLO and of the    *)
(* publish operations (robusto_proxy_service.c), and the adapter that      *)
(* reassembles a large message (robusto_proxy_pubsub_adapter.c).           *)
(*                                                                         *)
(* One application task makes the calls, as the client, which is not       *)
(* locked, requires.  A large message is Chunks chunks.  The delegate may  *)
(* restart at any moment.  Subscriptions are in ProxyDelivery.             *)
(***************************************************************************)
EXTENDS ProxyExchange

CONSTANTS
    MaxCalls        \* bound: calls of robusto_proxy_pubsub_publish

ASSUME PublishAssumption == MaxCalls \in Nat

VARIABLES
    verdict,        \* what the calls of publish returned, in order
    transfer,       \* publish_operation_id and chunks received
    published,      \* operations taken to the topic's subscribers, in order
    missed,         \* those of them that failed for some of the subscribers
    withheld,       \* operations whose COMMIT the link refused
    connects, restarts

client   == <<session, task, verdict>>
delegate == <<greeted, transfer, published, missed>>
counts   == <<withheld, connects, restarts>>
vars     == <<link, client, delegate, counts>>

NoTransfer == [op |-> 0, got |-> 0]
(* task has, besides: chunks sent, what made it abort.                      *)
Idle       == [at |-> "idle", sent |-> 0, tries |-> 0, failure |-> "none"]

(* A call is known by its number, which stands for its operation id.        *)
Call == Len(verdict)
Requests == {"hello", "inline", "begin", "chunk", "commit", "abort"}
Errors   == {"refused", "busy", "nomemory", "failed", "notready"}

TypeOK ==
    /\ correlation \in Nat \ {0} /\ awaiting \in 0..correlation
    /\ Len(frames) <= FrameQueue /\ Len(replies) <= OnTheLink
    /\ session \in {"negotiating", "established", "degraded", "reset"}
    /\ task \in [at : Requests \cup {"idle"}, sent : 0..Chunks, tries : 0..HelloRetries,
                 failure : Errors \cup {"none", "unknown"}]
    /\ verdict \in Seq(Errors \cup {"pending", "ok", "unknown"})
    /\ greeted \in BOOLEAN
    /\ transfer \in [op : 0..MaxCalls, got : 0..Chunks]
    /\ published \in Seq(1..MaxCalls) /\ missed \subseteq 1..MaxCalls
    /\ withheld \subseteq 1..MaxCalls

Init ==
    /\ LinkInit
    /\ session = "reset" /\ task = Idle /\ verdict = <<>>
    /\ greeted = FALSE /\ transfer = NoTransfer /\ published = <<>>
    /\ missed = {} /\ withheld = {} /\ connects = 0 /\ restarts = 0

-----------------------------------------------------------------------------
(* The controller: calls                                                    *)

Go(request) == task' = [task EXCEPT !.at = request]

Connect ==
    /\ At("idle") /\ connects < MaxConnects
    /\ connects' = connects + 1
    /\ session' = "negotiating"
    /\ task' = [Idle EXCEPT !.at = "hello"]
    /\ UNCHANGED <<verdict, link, delegate, withheld, restarts>>

StartPublish(form) ==
    /\ At("idle") /\ session = "established" /\ Call < MaxCalls
    /\ verdict' = Append(verdict, "pending")
    /\ task' = [Idle EXCEPT !.at = form]
    /\ UNCHANGED <<session, link, delegate, counts>>

PublishNotReady ==
    /\ At("idle") /\ session # "established" /\ Call < MaxCalls
    /\ verdict' = Append(verdict, "notready")
    /\ UNCHANGED <<session, task, link, delegate, counts>>

-----------------------------------------------------------------------------
(* The controller: what follows a result                                    *)

Return(v) ==
    /\ verdict' = [verdict EXCEPT ![Call] = v]
    /\ task' = Idle

AfterInline(r) == At("inline") /\ Return(r) /\ UNCHANGED session

(* Mutant of AfterBegin: an unknown outcome is not followed by an abort.    *)
AfterBeginGivesUp(r) ==
    /\ At("begin")
    /\ \/ r = "ok" /\ Go("chunk") /\ UNCHANGED verdict
       \/ r # "ok" /\ Return(r)
    /\ UNCHANGED session

AfterBegin(r) ==
    /\ At("begin")
    /\ \/ r = "ok" /\ Go("chunk") /\ UNCHANGED verdict
       \/ r = "unknown" /\ UNCHANGED verdict
          /\ task' = [task EXCEPT !.at = "abort", !.failure = "unknown"]
       \/ r \in Errors /\ Return(r)
    /\ UNCHANGED session

AfterChunk(r) ==
    /\ At("chunk")
    /\ \/ r # "ok" /\ task' = [task EXCEPT !.at = "abort", !.failure = r]
       \/ r = "ok" /\ task.sent + 1 < Chunks /\ task' = [task EXCEPT !.sent = @ + 1]
       \/ r = "ok" /\ task.sent + 1 = Chunks
          /\ task' = [task EXCEPT !.sent = Chunks, !.at = "commit"]
    /\ UNCHANGED <<verdict, session>>

(* A COMMIT that was refused or answered with an error is not followed by   *)
(* an abort.                                                                *)
AfterCommit(r) ==
    /\ At("commit")
    /\ IF r = "unknown"
       THEN /\ task' = [task EXCEPT !.at = "abort", !.failure = "unknown"]
            /\ UNCHANGED verdict
       ELSE Return(r)
    /\ UNCHANGED session

(* Mutant of AfterAbort: nothing to abort is taken for "not published".     *)
AfterAbortConflictIsFine(r) ==
    /\ At("abort")
    /\ IF r \in {"ok", "failed"}
       THEN /\ Return(IF task.failure = "unknown" THEN "failed" ELSE task.failure)
            /\ UNCHANGED session
       ELSE Return("unknown") /\ session' = "degraded"

AfterAbort(r) ==
    /\ At("abort")
    /\ IF r = "ok"
       THEN /\ Return(IF task.failure = "unknown" THEN "failed" ELSE task.failure)
            /\ UNCHANGED session
       ELSE Return("unknown") /\ session' = "degraded"

(* Mutant of AfterHello: no limit to the retries.                           *)
AfterHelloInsists(r) ==
    /\ At("hello")
    /\ \/ r = "ok" /\ session' = "established" /\ task' = Idle
       \/ r # "ok" /\ UNCHANGED session /\ task' = [task EXCEPT !.tries = 1]
    /\ UNCHANGED verdict

(* HELLO is not a mutation: it is sent again, under the same correlation    *)
(* id.                                                                      *)
AfterHello(r) ==
    /\ At("hello")
    /\ \/ r = "ok" /\ session' = "established" /\ task' = Idle
       \/ r # "ok" /\ task.tries < HelloRetries /\ UNCHANGED session
          /\ task' = [task EXCEPT !.tries = @ + 1]
       \/ r # "ok" /\ task.tries = HelloRetries
          /\ session' = "reset" /\ task' = Idle
    /\ UNCHANGED verdict

Result(r) ==
    \/ AfterInline(r) \/ AfterBegin(r) \/ AfterChunk(r)
    \/ AfterCommit(r) \/ AfterAbort(r) \/ AfterHello(r)

-----------------------------------------------------------------------------
(* The controller: exchanges                                                *)

Request == [kind |-> task.at, op |-> Call, chunk |-> task.sent]

SendRequest ==
    /\ ~ At("idle")
    /\ Transmit(Request, Again)
    /\ UNCHANGED <<client, delegate, counts>>

RequestRefused ==
    /\ ~ At("idle")
    /\ Refuse(Again)
    /\ Result("refused")
    /\ withheld' = IF At("commit") THEN withheld \cup {Call} ELSE withheld
    /\ UNCHANGED <<delegate, connects, restarts>>

RequestAnswered ==
    /\ \E r \in Errors \cup {"ok"} : Answered(r) /\ Result(r)
    /\ UNCHANGED <<delegate, counts>>

(* No response in time: a mutation may have taken effect.                   *)
RequestTimesOut ==
    /\ Expired
    /\ Result("unknown")
    /\ UNCHANGED <<delegate, counts>>

-----------------------------------------------------------------------------
(* The delegate                                                             *)

Op == bridge.request.op

(* The local PubSub is busy, or has no memory for the topic; or it walks    *)
(* along all subscribers and reports if any of them failed, which the       *)
(* client cannot tell from a message that was rejected.                     *)
Dispatch ==
    \/ UNCHANGED <<published, missed>> /\ \E r \in {"busy", "nomemory"} : Respond(r)
    \/ published' = Append(published, Op) /\ UNCHANGED missed /\ Respond("ok")
    \/ published' = Append(published, Op) /\ missed' = missed \cup {Op} /\ Respond("failed")

HandleHello ==
    /\ Handling("hello")
    /\ greeted' = TRUE
    /\ transfer' = NoTransfer
    /\ UNCHANGED <<published, missed>>
    /\ Respond("ok")

HandshakeRequired ==
    /\ bridge # NoFrame /\ ~ Handling("hello") /\ ~ greeted
    /\ Respond("notready")
    /\ UNCHANGED delegate

HandleInline ==
    /\ Handling("inline") /\ greeted
    /\ Dispatch
    /\ UNCHANGED <<greeted, transfer>>

HandleBegin ==
    /\ Handling("begin") /\ greeted
    /\ \/ transfer # NoTransfer /\ Respond("busy") /\ UNCHANGED transfer
       \/ transfer = NoTransfer /\ Respond("nomemory") /\ UNCHANGED transfer
       \/ transfer = NoTransfer /\ Respond("ok") /\ transfer' = [op |-> Op, got |-> 0]
    /\ UNCHANGED <<greeted, published, missed>>

HandleChunk ==
    /\ Handling("chunk") /\ greeted
    /\ IF transfer.op = Op /\ bridge.request.chunk = transfer.got
       THEN transfer' = [transfer EXCEPT !.got = @ + 1] /\ Respond("ok")
       ELSE UNCHANGED transfer /\ Respond("failed")
    /\ UNCHANGED <<greeted, published, missed>>

HandleCommit ==
    /\ Handling("commit") /\ greeted
    /\ IF transfer = [op |-> Op, got |-> Chunks]
       THEN transfer' = NoTransfer /\ Dispatch
       ELSE UNCHANGED <<transfer, published, missed>> /\ Respond("failed")
    /\ UNCHANGED greeted

HandleAbort ==
    /\ Handling("abort") /\ greeted
    /\ IF transfer.op = Op
       THEN transfer' = NoTransfer /\ Respond("ok")
       ELSE UNCHANGED transfer /\ Respond("failed")
    /\ UNCHANGED <<greeted, published, missed>>

Handle ==
    /\ \/ HandleHello \/ HandshakeRequired \/ HandleInline \/ HandleBegin
       \/ HandleChunk \/ HandleCommit \/ HandleAbort
    /\ UNCHANGED <<client, counts>>

(* robusto_c6_proxy_server_init after a restart.                            *)
Restart ==
    /\ restarts < MaxRestarts
    /\ restarts' = restarts + 1
    /\ LoseFrames
    /\ greeted' = FALSE /\ transfer' = NoTransfer
    /\ UNCHANGED <<published, missed, client, withheld, connects>>

-----------------------------------------------------------------------------
Controller ==
    \/ SendRequest \/ RequestRefused \/ RequestAnswered \/ RequestTimesOut

Next ==
    \/ Connect \/ PublishNotReady \/ Controller
    \/ StartPublish("inline") \/ StartPublish("begin")
    \/ DropStaleResponse /\ UNCHANGED <<client, delegate, counts>>
    \/ TakeFrame /\ UNCHANGED <<client, delegate, counts>>
    \/ Handle \/ Restart

Spec == Init /\ [][Next]_vars

(* Every exchange has a deadline, after which the calling task goes on.     *)
FairSpec == Spec /\ WF_vars(Controller)

-----------------------------------------------------------------------------
(* Publishing through the delegate keeps what RemotePublish promises, for   *)
(* any lost or late request or response and any restart: success means that *)
(* the message went to all subscribers of its topic, ROB_FAIL that it did   *)
(* not, though some may have it (robusto_pubsub_server_publish walks on     *)
(* after a failure), any other error that nobody has it; what the call      *)
(* returned is final unless it is "unknown", and nothing is published twice *)
(* or overtakes a later call.  A late COMMIT and the abort that follows it  *)
(* decide the outcome between them.                                         *)
Class(v) == IF v \in Errors \ {"failed"} THEN "refused" ELSE v

Promise == INSTANCE RemotePublish
           WITH verdict <- [i \in 1..Len(verdict) |-> Class(verdict[i])]

ImplementsRemotePublish == Promise!RSpec

(* Between calls, with the session established on both sides and nothing    *)
(* under way, the delegate holds a half-done message only if the link       *)
(* refused its COMMIT: such a message blocks every later large one, and     *)
(* publish_chunked does not abort in that case.                             *)
HoldsNothingAfterReturn ==
    /\ At("idle") /\ session = "established" /\ greeted
    /\ bridge = NoFrame /\ frames = <<>>
    => transfer = NoTransfer \/ transfer.op \in withheld

(* Every call of connect and publish returns, whatever the delegate does    *)
(* or fails to do: the only retries are those of HELLO.                     *)
CallsReturn == ~ At("idle") ~> At("idle")
=============================================================================
