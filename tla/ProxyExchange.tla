---------------------------- MODULE ProxyExchange ----------------------------
(***************************************************************************)
(* One request and its response between the controller (P4) and the        *)
(* delegate (C6): p4_exchange and receive_task_main (robusto_proxy_sdio.c) *)
(* on one side, frame_request_callback and bridge_task_main                *)
(* (robusto_c6_proxy_server.c) on the other.                               *)
(*                                                                         *)
(* The controller has at most one request outstanding.  A response counts  *)
(* only while it is awaited and only by its correlation id; a request that *)
(* is given up stays where it is, and the delegate may still execute it.   *)
(* Both keep a session, which HELLO begins.                                *)
(* Modules that extend this one say what is requested and what it does.    *)
(***************************************************************************)
EXTENDS Naturals, Sequences

CONSTANTS
    FrameQueue,     \* ROBUSTO_PROXY_SDIO_QUEUE_CAPACITY
    OnTheLink,      \* bound: responses on their way
    NoFrame,
    Chunks,         \* chunks of a large message
    HelloRetries,   \* maximum_retries of HELLO
    MaxConnects,    \* bound: calls of robusto_proxy_client_connect
    MaxRestarts     \* bound: restarts of the delegate

ASSUME ExchangeAssumption ==
    /\ {FrameQueue, OnTheLink, Chunks} \subseteq Nat \ {0}
    /\ {HelloRetries, MaxConnects, MaxRestarts} \subseteq Nat

VARIABLES
    correlation,    \* session.next_correlation_id
    awaiting,       \* expected_correlation_id while awaiting_response, else 0
    frames,         \* the delegate's frame_queue
    bridge,         \* worker_frame, the request the bridge task is handling
    replies,        \* responses on their way to the controller
    session,        \* the client's session.state
    task,           \* the call of the controller: request it is at, retries of
                    \*   HELLO, and what else the call needs
    greeted         \* the service's session is ESTABLISHED

link == <<correlation, awaiting, frames, bridge, replies>>

LinkInit ==
    /\ correlation = 1 /\ awaiting = 0
    /\ frames = <<>> /\ bridge = NoFrame /\ replies = <<>>

-----------------------------------------------------------------------------
(* The controller                                                           *)

At(call) == task.at = call

(* HELLO is not a mutation: it is sent again.                               *)
Again == task.tries > 0

(* The id of a request: a new one, or, when it is sent again, the same.     *)
Id(again) == IF again THEN correlation - 1 ELSE correlation
TakeId(again) == correlation' = IF again THEN correlation ELSE correlation + 1

(* The link takes the request; the delegate's callback drops it when its    *)
(* queue is full, which the controller does not learn.                      *)
Transmit(request, again) ==
    /\ awaiting = 0
    /\ TakeId(again) /\ awaiting' = Id(again)
    /\ frames' = IF Len(frames) < FrameQueue
                 THEN Append(frames, [id |-> Id(again), request |-> request])
                 ELSE frames
    /\ UNCHANGED <<bridge, replies>>

(* robusto_proxy_sdio_host_send fails: the delegate sees nothing.           *)
Refuse(again) ==
    /\ awaiting = 0
    /\ TakeId(again)
    /\ UNCHANGED <<awaiting, frames, bridge, replies>>

Answered(result) ==
    /\ awaiting # 0 /\ replies # <<>> /\ Head(replies).id = awaiting
    /\ result = Head(replies).result
    /\ replies' = Tail(replies)
    /\ awaiting' = 0
    /\ UNCHANGED <<correlation, frames, bridge>>

(* The deadline of the exchange passes after the request was accepted.      *)
Expired ==
    /\ awaiting # 0
    /\ awaiting' = 0
    /\ UNCHANGED <<correlation, frames, bridge, replies>>

DropStaleResponse ==
    /\ replies # <<>> /\ Head(replies).id # awaiting
    /\ replies' = Tail(replies)
    /\ UNCHANGED <<correlation, awaiting, frames, bridge>>

-----------------------------------------------------------------------------
(* The delegate                                                             *)

Handling(kind) == bridge # NoFrame /\ bridge.request.kind = kind

TakeFrame ==
    /\ bridge = NoFrame /\ frames # <<>>
    /\ bridge' = Head(frames)
    /\ frames' = Tail(frames)
    /\ UNCHANGED <<correlation, awaiting, replies>>

(* robusto_message_frontend_send may fail; the response is then lost.       *)
Respond(result) ==
    /\ bridge' = NoFrame
    /\ \/ Len(replies) < OnTheLink
          /\ replies' = Append(replies, [id |-> bridge.id, result |-> result])
       \/ replies' = replies
    /\ UNCHANGED <<correlation, awaiting, frames>>

(* The delegate restarts: what it had received is gone.                     *)
LoseFrames ==
    /\ frames' = <<>> /\ bridge' = NoFrame
    /\ UNCHANGED <<correlation, awaiting, replies>>
=============================================================================
