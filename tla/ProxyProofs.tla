----------------------------- MODULE ProxyProofs -----------------------------
(***************************************************************************)
(* Publishing through the delegate, and subscribing and getting the        *)
(* messages: theorems for any number of calls, chunks, topics, slots,      *)
(* restarts and places in the queues.                                      *)
(*                                                                         *)
(* Publishing: requests that were given up stay in the order of their ids, *)
(* so that the delegate finishes with one call before it learns of the     *)
(* next, and the response which ends a call finds nothing left under way.  *)
(*                                                                         *)
(* Subscriptions: what the delegate has answered of its present boot is    *)
(* so, or an UNSUBSCRIBE of that id was sent.                              *)
(*                                                                         *)
(* Messages: all who name an id in one boot of the delegate mean one topic *)
(* by it, and of each subscription the pieces are in the order of their    *)
(* numbers, from the controller's queue to the number of the next message. *)
(***************************************************************************)
EXTENDS ProxyPublish, ProxyDelivery, SequenceTheorems, WellFoundedInduction, TLAPS

-----------------------------------------------------------------------------
(* The inductive invariant                                                  *)

Frame == [id : Nat, request : [kind : Requests, op : 0..MaxCalls, chunk : 0..Chunks]]
Reply == [id : Nat, result : Errors \cup {"ok"}]

(* Requests that the delegate has and may still execute, responses that may *)
(* still come, operations that took effect.                                 *)
Under     == {frames[p] : p \in DOMAIN frames} \cup ({bridge} \ {NoFrame})
Answers   == {replies[p] : p \in DOMAIN replies}
Published == {published[k] : k \in DOMAIN published}

Is(f, kinds) == f.request.kind \in kinds

InCall     == task.at \in {"inline", "begin", "chunk", "commit", "abort"}
Publishing == {"inline", "commit"}
Opening    == {"inline", "begin"}
Deciding   == Publishing \cup Opening

Types ==
  /\ TypeOK
  /\ awaiting \in {0, correlation - 1}
  /\ frames \in Seq(Frame) /\ replies \in Seq(Reply)
  /\ bridge = NoFrame \/ bridge \in Frame
  /\ Call <= MaxCalls

(* Requests are executed in the order of their ids; only HELLO is sent      *)
(* again.                                                                   *)
Precedes(f, g) ==
  \/ f.id < g.id
  \/ f.id = g.id /\ Is(f, {"hello"}) /\ Is(g, {"hello"})

InOrder ==
  /\ \A p, q \in DOMAIN frames : p < q => Precedes(frames[p], frames[q])
  /\ bridge # NoFrame => \A q \in DOMAIN frames : Precedes(bridge, frames[q])

IdsOK ==
  /\ \A f \in Under : f.id \in 1..(correlation - 1)
  /\ \A rep \in Answers : rep.id \in 1..(correlation - 1)
  /\ awaiting # 0 => ~ At("idle")
  /\ task.tries > 0 => At("hello") /\ correlation > 1

(* The latest request that was sent is the one the task is at.              *)
SentOK ==
  awaiting # 0 \/ task.tries > 0 =>
    \A f \in Under : f.id = correlation - 1 => f.request = Request

(* Later requests are of later calls, if either could take effect.          *)
PairsOK ==
  \A f, g \in Under :
    /\ f.id <= g.id => f.request.op <= g.request.op
    /\ f.id = g.id => f.request = g.request
    /\ f.id < g.id /\ \/ Is(f, Publishing) /\ Is(g, Deciding)
                      \/ Is(f, {"begin"}) /\ Is(g, Opening)
         => f.request.op < g.request.op

FramesOK ==
  \A f \in Under :
    /\ f.request.op <= Call
    /\ ~ Is(f, {"hello"}) => f.request.op > 0
    /\ Is(f, {"chunk"}) => f.request.chunk < Chunks

(* Nobody has the message of the call, or r tells that some may have it.    *)
TellsOfFailure(r) == Call \notin Published \/ (r = "failed" /\ Call \in missed)

(* What is under way can only publish what was not published, and only for  *)
(* calls that were not told the contrary.                                   *)
PublishedOK ==
  /\ missed \subseteq Published
  /\ \A o \in Published : o <= Call
  /\ \A o \in Published, f \in Under :
       o <= f.request.op /\ (Is(f, Deciding) => o < f.request.op)
  /\ \A f \in Under :
       Is(f, Publishing) => verdict[f.request.op] \in {"pending", "unknown"}

(* The message that the delegate is putting together is not out, and does   *)
(* not begin again.                                                         *)
HalfDoneOK ==
  /\ transfer.op <= Call
  /\ transfer.op = 0 => transfer = NoTransfer
  /\ transfer.op \notin Published
  /\ \A f \in Under : Is(f, Opening) => f.request.op # transfer.op

(* Until its outcome is unknown, a call has at most the request under way   *)
(* that it waits for.                                                       *)
CallOK ==
  /\ \A i \in 1..Call : verdict[i] = "pending" <=> i = Call /\ InCall
  /\ InCall => session = "established" /\ Call >= 1
  /\ At("abort") => task.failure # "none"
  /\ At("begin") => task.sent = 0
  /\ At("chunk") => task.sent < Chunks
  /\ At("commit") => task.sent = Chunks
  /\ task.at \in {"inline", "begin", "chunk", "commit"} =>
       \A f \in Under : f.request.op = Call => awaiting # 0 /\ f.id = awaiting
  /\ task.at \in Opening /\ awaiting = 0 => transfer.op # Call
  /\ \/ task.at \in {"begin", "chunk"}
     \/ task.at \in Publishing /\ awaiting = 0
     => Call \notin Published

(* The response a call waits for comes after everything it sent.            *)
AnswerOK ==
  awaiting # 0 /\ ~ At("hello") =>
    \A rep \in Answers : rep.id = awaiting =>
      /\ Under = {}
      /\ task.at \in Publishing =>
           /\ rep.result = "ok" => Call \in Published \ missed
           /\ rep.result # "ok" => TellsOfFailure(rep.result)
      /\ At("abort") /\ rep.result = "ok" => Call \notin Published

OutcomeInv ==
  /\ Types /\ InOrder /\ IdsOK /\ SentOK /\ PairsOK /\ FramesOK
  /\ PublishedOK /\ HalfDoneOK /\ CallOK /\ AnswerOK

-----------------------------------------------------------------------------
(* What the types say.                                                      *)

LEMMA Bounds ==
  /\ Chunks \in Nat /\ Chunks > 0 /\ MaxCalls \in Nat /\ HelloRetries \in Nat
  /\ FrameQueue \in Nat /\ OnTheLink \in Nat
BY PublishAssumption, ExchangeAssumption

LEMMA CallFacts ==
  ASSUME Types
  PROVE  /\ Call \in Nat /\ Call <= MaxCalls
         /\ verdict \in Seq(Errors \cup {"pending", "ok", "unknown"})
         /\ DOMAIN verdict = 1..Call
BY DEF Types, TypeOK, Call

LEMMA UnderFrames ==
  ASSUME Types
  PROVE  /\ \A f \in Under : /\ f \in Frame /\ f.id \in Nat /\ f.request.kind \in Requests
                             /\ f.request.op \in 0..MaxCalls /\ f.request.chunk \in 0..Chunks
         /\ \A rep \in Answers : rep \in Reply /\ rep.id \in Nat
         /\ \A o \in Published : o \in 1..MaxCalls
<1>1. \A p \in DOMAIN frames : frames[p] \in Frame
  BY ElementOfSeq DEF Types
<1>2. \A p \in DOMAIN replies : replies[p] \in Reply
  BY ElementOfSeq DEF Types
<1>3. \A k \in DOMAIN published : published[k] \in 1..MaxCalls
  <2>1. published \in Seq(1..MaxCalls)
    BY DEF Types, TypeOK
  <2>2. ASSUME NEW S, published \in Seq(S)
        PROVE  \A k \in DOMAIN published : published[k] \in S
    BY <2>2, ElementOfSeq
  <2>3. QED
    BY <2>1, <2>2, Zenon
<1>4. \A f \in Under : f \in Frame
  BY <1>1 DEF Under, Types
<1>5. \A f \in Frame : /\ f.id \in Nat /\ f.request.kind \in Requests
                       /\ f.request.op \in 0..MaxCalls /\ f.request.chunk \in 0..Chunks
  BY DEF Frame
<1>6. \A rep \in Answers : rep \in Reply /\ rep.id \in Nat
  BY <1>2 DEF Answers, Reply
<1>7. \A o \in Published : o \in 1..MaxCalls
  BY <1>3 DEF Published
<1>8. QED
  BY <1>4, <1>5, <1>6, <1>7

(* The request the task is at.                                              *)
LEMMA RequestFrame ==
  ASSUME Types, ~ At("idle")
  PROVE  /\ Request.kind = task.at /\ Request.op = Call /\ Request.chunk = task.sent
         /\ Call \in 0..MaxCalls /\ task.sent \in 0..Chunks
         /\ Request \in [kind : Requests, op : 0..MaxCalls, chunk : 0..Chunks]
<1>1. Call \in Nat /\ Call <= MaxCalls
  BY Bounds DEF Types, TypeOK, Call
<1>2. task.at \in Requests /\ task.sent \in 0..Chunks
  BY DEF Types, TypeOK, At
<1>3. QED
  BY <1>1, <1>2, Bounds DEF Request

-----------------------------------------------------------------------------
(* How steps change what is under way.                                      *)

LEMMA TakenView ==
  ASSUME Types, InOrder, TakeFrame
  PROVE  /\ Under' \subseteq Under /\ Answers' = Answers /\ InOrder'
         /\ frames' \in Seq(Frame) /\ Len(frames') <= FrameQueue
         /\ bridge' \in Frame
<1>1. /\ frames \in Seq(Frame) /\ frames # <<>>
      /\ bridge' = Head(frames) /\ frames' = Tail(frames) /\ bridge = NoFrame
      /\ Len(frames) <= FrameQueue
  BY DEF Types, TypeOK, TakeFrame
<1>2. /\ frames' \in Seq(Frame) /\ Len(frames') = Len(frames) - 1 /\ Len(frames) \in Nat
      /\ \A p \in DOMAIN frames' : p + 1 \in DOMAIN frames /\ frames'[p] = frames[p + 1]
      /\ bridge' = frames[1] /\ 1 \in DOMAIN frames
  BY <1>1, HeadTailProperties
<1>3. frames[1] \in Frame
  BY <1>1, <1>2, ElementOfSeq
<1>4. Under' \subseteq Under
  BY <1>1, <1>2 DEF Under
<1>5. Answers' = Answers
  BY DEF TakeFrame, Answers
<1>6. InOrder'
  <2>1. \A p \in DOMAIN frames' : p \in Nat /\ p > 0
    BY <1>2
  <2>2. \A p, q \in DOMAIN frames : p < q => Precedes(frames[p], frames[q])
    BY DEF InOrder
  <2>3. \A p, q \in DOMAIN frames' : p < q => Precedes(frames'[p], frames'[q])
    BY <2>1, <2>2, <1>2
  <2>4. \A q \in DOMAIN frames' : Precedes(bridge', frames'[q])
    BY <2>1, <2>2, <1>2
  <2>5. QED
    BY <2>3, <2>4 DEF InOrder, Precedes, Is
<1>7. QED
  BY <1>1, <1>2, <1>3, <1>4, <1>5, <1>6, Bounds

LEMMA RespondedView ==
  ASSUME NEW r \in Errors \cup {"ok"}, Types, InOrder, bridge # NoFrame, Respond(r)
  PROVE  /\ bridge \in Under /\ bridge' = NoFrame /\ frames' = frames
         /\ Under' \subseteq Under /\ \A g \in Under' : Precedes(bridge, g)
         /\ \A rep \in Answers' : rep \in Answers \/ rep = [id |-> bridge.id, result |-> r]
         /\ replies' \in Seq(Reply) /\ Len(replies') <= OnTheLink /\ InOrder'
<1>1. bridge \in Frame /\ replies \in Seq(Reply) /\ Len(replies) <= OnTheLink
  BY DEF Types, TypeOK
<1>2. bridge' = NoFrame /\ frames' = frames
  BY DEF Respond
<1>3. bridge \in Under /\ Under' \subseteq Under /\ \A g \in Under' : Precedes(bridge, g)
  BY <1>2 DEF Under, InOrder
<1>4. InOrder'
  BY <1>2 DEF InOrder, Precedes, Is
<1>5. /\ \A rep \in Answers' : rep \in Answers \/ rep = [id |-> bridge.id, result |-> r]
      /\ replies' \in Seq(Reply) /\ Len(replies') <= OnTheLink
  <2>1. CASE replies' = replies
    BY <2>1, <1>1 DEF Answers
  <2>2. CASE /\ Len(replies) < OnTheLink
             /\ replies' = Append(replies, [id |-> bridge.id, result |-> r])
    <3>1. [id |-> bridge.id, result |-> r] \in Reply
      BY <1>1 DEF Reply, Frame
    <3>2. /\ replies' \in Seq(Reply) /\ Len(replies') = Len(replies) + 1
          /\ \A p \in DOMAIN replies' :
               \/ p \in DOMAIN replies /\ replies'[p] = replies[p]
               \/ replies'[p] = [id |-> bridge.id, result |-> r]
      BY <2>2, <3>1, <1>1, AppendProperties
    <3>3. QED
      BY <3>2, <2>2, <1>1, Bounds DEF Answers
  <2>3. QED
    BY <2>1, <2>2 DEF Respond
<1>6. QED
  BY <1>2, <1>3, <1>4, <1>5

LEMMA SentView ==
  ASSUME Types, InOrder, IdsOK, SentOK, SendRequest
  PROVE  \E new \in Frame :
           /\ new.id = awaiting' /\ new.request = Request /\ awaiting = 0
           /\ awaiting' \in Nat /\ awaiting' > 0 /\ awaiting' = correlation' - 1
           /\ correlation' \in Nat /\ correlation' >= correlation
           /\ Again => correlation' = correlation
           /\ ~ Again => correlation' = correlation + 1
           /\ \A f \in Under' : f \in Under \/ f = new
           /\ Answers' = Answers /\ InOrder'
           /\ frames' \in Seq(Frame) /\ Len(frames') <= FrameQueue
<1> DEFINE new == [id |-> Id(Again), request |-> Request]
<1>1. ~ At("idle") /\ Transmit(Request, Again)
  BY DEF SendRequest
<1>2. correlation \in Nat /\ correlation > 0 /\ (Again => correlation > 1 /\ At("hello"))
  BY DEF Types, TypeOK, IdsOK, Again
<1>3. /\ Id(Again) \in Nat /\ Id(Again) > 0 /\ Id(Again) = correlation' - 1
      /\ correlation' \in Nat /\ correlation' >= correlation
      /\ Again => correlation' = correlation
      /\ ~ Again => correlation' = correlation + 1
  BY <1>1, <1>2 DEF Transmit, TakeId, Id
<1>4. new \in Frame
  BY <1>1, <1>3, RequestFrame DEF Frame
<1>5. frames \in Seq(Frame) /\ Len(frames) <= FrameQueue
  BY DEF Types, TypeOK
<1>6. \/ frames' = frames
      \/ frames' = Append(frames, new) /\ Len(frames) < FrameQueue
  BY <1>1 DEF Transmit
<1>7. \A f \in Under : Precedes(f, new)
  <2> SUFFICES ASSUME NEW f \in Under PROVE Precedes(f, new)
    OBVIOUS
  <2>1. f.id \in 1..(correlation - 1)
    BY DEF IdsOK
  <2>2. CASE ~ Again
    BY <2>1, <2>2, <1>2, <1>3 DEF Precedes, Id
  <2>3. CASE Again
    <3>1. Id(Again) = correlation - 1 /\ At("hello")
      BY <2>3, <1>2 DEF Id
    <3>2. f.id = correlation - 1 => f.request = Request
      BY <2>3 DEF SentOK, Again
    <3>3. Request.kind = "hello"
      BY <3>1 DEF Request, At
    <3>4. QED
      BY <2>1, <3>1, <3>2, <3>3, <1>2 DEF Precedes, Is
  <2>4. QED
    BY <2>2, <2>3
<1>8. /\ frames' \in Seq(Frame) /\ Len(frames') <= FrameQueue
      /\ \A p \in DOMAIN frames' :
           \/ p \in DOMAIN frames /\ frames'[p] = frames[p]
           \/ p = Len(frames) + 1 /\ frames'[p] = new
  <2>1. CASE frames' = frames
    BY <2>1, <1>5
  <2>2. CASE frames' = Append(frames, new) /\ Len(frames) < FrameQueue
    BY <2>2, <1>4, <1>5, AppendProperties, Bounds
  <2>3. QED
    BY <2>1, <2>2, <1>6
<1>9. bridge' = bridge /\ replies' = replies /\ awaiting' = Id(Again) /\ awaiting = 0
  BY <1>1 DEF Transmit
<1>10. \A f \in Under' : f \in Under \/ f = new
  BY <1>8, <1>9 DEF Under
<1>11. InOrder'
  <2>1. \A p \in DOMAIN frames : p \in Nat /\ p <= Len(frames) /\ frames[p] \in Under
    BY <1>5 DEF Under
  <2>2. \A p, q \in DOMAIN frames' : p < q => Precedes(frames'[p], frames'[q])
    BY <2>1, <1>5, <1>7, <1>8 DEF InOrder
  <2>3. bridge # NoFrame => bridge \in Under
    BY DEF Under
  <2>4. bridge # NoFrame => \A q \in DOMAIN frames' : Precedes(bridge, frames'[q])
    BY <2>3, <1>7, <1>8 DEF InOrder
  <2>5. QED
    BY <2>2, <2>4, <1>9 DEF InOrder, Precedes, Is
<1>12. Answers' = Answers
  BY <1>9 DEF Answers
<1>13. QED
  BY <1>3, <1>4, <1>8, <1>9, <1>10, <1>11, <1>12

(* The link alone moves: requests and responses are taken or dropped.       *)
LEMMA QuietStep ==
  ASSUME OutcomeInv, UNCHANGED <<client, delegate, correlation, awaiting, withheld>>,
         Under' \subseteq Under, Answers' \subseteq Answers,
         frames' \in Seq(Frame), Len(frames') <= FrameQueue,
         replies' \in Seq(Reply), Len(replies') <= OnTheLink,
         bridge' = NoFrame \/ bridge' \in Frame, InOrder'
  PROVE  OutcomeInv'
<1> USE DEF OutcomeInv
<1>1. /\ UNCHANGED <<session, task, verdict, greeted, transfer, published, missed, withheld>>
      /\ UNCHANGED <<correlation, awaiting>>
  BY DEF client, delegate
<1>2. Published' = Published /\ Call' = Call
  BY <1>1 DEF Published, Call
<1>3. Types'
  BY <1>1, <1>2 DEF Types, TypeOK
<1>4. IdsOK'
  BY <1>1 DEF IdsOK, At
<1>5. SentOK'
  BY <1>1 DEF SentOK, Request, Call
<1>6. PairsOK'
  BY DEF PairsOK, Is
<1>7. FramesOK'
  BY <1>2 DEF FramesOK, Is
<1>8. PublishedOK'
  BY <1>1, <1>2 DEF PublishedOK, Is
<1>9. HalfDoneOK'
  BY <1>1, <1>2 DEF HalfDoneOK, Is
<1>10. CallOK'
  BY <1>1, <1>2 DEF CallOK, InCall, At
<1>11. AnswerOK'
  BY <1>1, <1>2 DEF AnswerOK, TellsOfFailure, At
<1>12. QED
  BY <1>3, <1>4, <1>5, <1>6, <1>7, <1>8, <1>9, <1>10, <1>11

LEMMA LinkStep ==
  ASSUME OutcomeInv,
         \/ (DropStaleResponse /\ UNCHANGED <<client, delegate, counts>>)
         \/ (TakeFrame /\ UNCHANGED <<client, delegate, counts>>)
         \/ UNCHANGED vars
  PROVE  /\ OutcomeInv' /\ Under' \subseteq Under /\ Answers' \subseteq Answers
         /\ UNCHANGED <<client, delegate, correlation, awaiting, withheld>>
<1> Types /\ InOrder
  BY DEF OutcomeInv
<1>1. CASE DropStaleResponse /\ UNCHANGED <<client, delegate, counts>>
  <2>1. /\ replies # <<>> /\ replies' = Tail(replies) /\ replies \in Seq(Reply)
        /\ UNCHANGED <<frames, bridge, correlation, awaiting>> /\ Len(replies) <= OnTheLink
    BY <1>1 DEF DropStaleResponse, Types, TypeOK
  <2>2. /\ replies' \in Seq(Reply) /\ Len(replies') <= OnTheLink
        /\ \A p \in DOMAIN replies' : p + 1 \in DOMAIN replies /\ replies'[p] = replies[p + 1]
    BY <2>1, HeadTailProperties, Bounds
  <2>3. Answers' \subseteq Answers /\ Under' = Under
    BY <2>1, <2>2 DEF Answers, Under
  <2>4. InOrder'
    BY <2>1 DEF InOrder, Precedes, Is
  <2>5. frames' \in Seq(Frame) /\ Len(frames') <= FrameQueue /\ (bridge' = NoFrame \/ bridge' \in Frame)
    BY <2>1 DEF Types, TypeOK
  <2>6. UNCHANGED <<client, delegate, correlation, awaiting, withheld>>
    BY <1>1, <2>1 DEF counts
  <2>7. QED
    BY <2>2, <2>3, <2>4, <2>5, <2>6, QuietStep
<1>2. CASE TakeFrame /\ UNCHANGED <<client, delegate, counts>>
  <2>1. UNCHANGED <<client, delegate, correlation, awaiting, withheld, replies>>
    BY <1>2 DEF counts, TakeFrame
  <2>2. replies' \in Seq(Reply) /\ Len(replies') <= OnTheLink
    BY <2>1 DEF Types, TypeOK
  <2>3. QED
    BY <1>2, <2>1, <2>2, TakenView, QuietStep
<1>3. CASE UNCHANGED vars
  <2>1. UNCHANGED <<client, delegate, correlation, awaiting, withheld, frames, bridge, replies>>
    BY <1>3 DEF vars, link, counts
  <2>2. Under' = Under /\ Answers' = Answers
    BY <2>1 DEF Under, Answers
  <2>3. InOrder'
    BY <2>1 DEF InOrder, Precedes, Is
  <2>4. /\ frames' \in Seq(Frame) /\ Len(frames') <= FrameQueue
        /\ replies' \in Seq(Reply) /\ Len(replies') <= OnTheLink
        /\ bridge' = NoFrame \/ bridge' \in Frame
    BY <2>1 DEF Types, TypeOK
  <2>5. QED
    BY <2>1, <2>2, <2>3, <2>4, QuietStep
<1>4. QED
  BY <1>1, <1>2, <1>3

(* The delegate restarts: nothing is under way any more.                    *)
LEMMA RestartStep ==
  ASSUME OutcomeInv, Restart
  PROVE  OutcomeInv' /\ Under' = {}
<1> USE DEF OutcomeInv
<1>1. /\ UNCHANGED <<session, task, verdict, published, missed, withheld, correlation, awaiting, replies>>
      /\ frames' = <<>> /\ bridge' = NoFrame /\ greeted' = FALSE /\ transfer' = NoTransfer
  BY DEF Restart, LoseFrames, client
<1>2. /\ Under' = {} /\ Answers' = Answers /\ Published' = Published /\ Call' = Call
      /\ Len(frames') = 0 /\ frames' \in Seq(Frame)
  BY <1>1 DEF Under, Answers, Published, Call
<1>3. Types'
  <2>1. transfer' \in [op : 0..MaxCalls, got : 0..Chunks]
    <3>1. 0 \in 0..MaxCalls /\ 0 \in 0..Chunks
      BY Bounds
    <3>2. QED
      BY <1>1, <3>1 DEF NoTransfer
  <2>2. greeted' \in BOOLEAN
    BY <1>1
  <2>3. Len(frames') <= FrameQueue
    BY <1>2, Bounds
  <2>4. QED
    BY <2>1, <2>3, <2>2, <1>1, <1>2 DEF Types, TypeOK
<1>4. InOrder' /\ SentOK' /\ PairsOK' /\ FramesOK'
  BY <1>1, <1>2 DEF InOrder, SentOK, PairsOK, FramesOK
<1>5. IdsOK'
  BY <1>1, <1>2 DEF IdsOK, At
<1>6. PublishedOK'
  BY <1>1, <1>2 DEF PublishedOK
<1>7. HalfDoneOK'
  <2>1. \A o \in Published : o > 0
    BY UnderFrames
  <2>2. Call \in Nat
    BY DEF Types, TypeOK, Call
  <2>3. QED
    BY <1>1, <1>2, <2>1, <2>2 DEF HalfDoneOK, NoTransfer
<1>8. CallOK'
  <2>1. task.at \in Opening /\ awaiting = 0 => transfer'.op # Call
    <3>1. task.at \in Opening => InCall
      BY DEF InCall, Opening
    <3>2. InCall => Call >= 1
      BY DEF CallOK
    <3>3. transfer'.op = 0
      BY <1>1 DEF NoTransfer
    <3>4. QED
      BY <3>1, <3>2, <3>3
  <2>2. QED
    BY <1>1, <1>2, <2>1 DEF CallOK, InCall, At
<1>9. AnswerOK'
  BY <1>1, <1>2 DEF AnswerOK, TellsOfFailure, At
<1>10. QED
  BY <1>2, <1>3, <1>4, <1>5, <1>6, <1>7, <1>8, <1>9

(* A request goes on the link.                                              *)
LEMMA SendStep ==
  ASSUME OutcomeInv, SendRequest
  PROVE  OutcomeInv'
<1> /\ Types /\ InOrder /\ IdsOK /\ SentOK /\ PairsOK /\ FramesOK
    /\ PublishedOK /\ HalfDoneOK /\ CallOK /\ AnswerOK
  BY DEF OutcomeInv
<1>1. /\ UNCHANGED <<session, task, verdict, greeted, transfer, published, missed, withheld,
                     bridge, replies>>
      /\ ~ At("idle")
  BY DEF SendRequest, Transmit, client, delegate, counts
<1>2. Published' = Published /\ Call' = Call /\ Request' = Request
  BY <1>1 DEF Published, Call, Request
<1>3. PICK new \in Frame :
        /\ new.id = awaiting' /\ new.request = Request /\ awaiting = 0
        /\ awaiting' \in Nat /\ awaiting' > 0 /\ awaiting' = correlation' - 1
        /\ correlation' \in Nat /\ correlation' >= correlation
        /\ Again => correlation' = correlation
        /\ ~ Again => correlation' = correlation + 1
        /\ \A f \in Under' : f \in Under \/ f = new
        /\ Answers' = Answers /\ InOrder'
        /\ frames' \in Seq(Frame) /\ Len(frames') <= FrameQueue
  BY SentView
<1>4. /\ new.request.kind = task.at /\ new.request.op = Call
      /\ new.request.chunk = task.sent /\ Call \in Nat
  BY <1>3, <1>1, RequestFrame
<1>5. \A f \in Under : /\ f.id \in Nat /\ f.id <= correlation - 1 /\ f.id > 0
                       /\ f.request.op \in Nat /\ f.request.op <= Call
  BY UnderFrames DEF IdsOK, FramesOK, Types, TypeOK
<1>6. correlation \in Nat /\ correlation > 0
  BY DEF Types, TypeOK
<1>7. Again => At("hello")
  BY DEF IdsOK, Types, TypeOK, Again
<1>8. /\ new.request.kind # "hello" => InCall /\ Call >= 1
      /\ InCall => verdict[Call] = "pending"
  <2>1. task.at \in Requests \cup {"idle"}
    BY DEF Types, TypeOK
  <2>2. task.at # "hello" => InCall
    BY <2>1, <1>1 DEF InCall, At, Requests
  <2>3. InCall => Call \in 1..Call /\ verdict[Call] = "pending"
    BY <1>4 DEF CallOK
  <2>4. QED
    BY <2>2, <2>3, <1>4
<1>9. \A f \in Under : task.at \in {"inline", "begin", "chunk", "commit"} => f.request.op < Call
  <2> SUFFICES ASSUME NEW f \in Under, task.at \in {"inline", "begin", "chunk", "commit"}
               PROVE  f.request.op # Call
    BY <1>4, <1>5
  <2>1. QED
    BY <1>3 DEF CallOK
<1>10. PICK id \in Nat, next \in Nat :
         /\ awaiting' = id /\ correlation' = next /\ new.id = id /\ awaiting = 0
         /\ id > 0 /\ id = next - 1 /\ next >= correlation
         /\ Again => next = correlation
         /\ ~ Again => next = correlation + 1
  BY <1>3, Zenon
<1>11. correlation' > 0 /\ awaiting' \in 0..correlation' /\ awaiting' # 0
       /\ correlation' - 1 = id
  BY <1>10
<1>12. Types'
  <2>1. awaiting' \in {0, correlation' - 1} /\ correlation' \in Nat \ {0}
    BY <1>10, <1>11
  <2>2. TypeOK'
    BY <2>1, <1>1, <1>3, <1>11 DEF Types, TypeOK
  <2>3. QED
    BY <2>1, <2>2, <1>1, <1>2, <1>3 DEF Types
<1>13. IdsOK'
  <2>1. \A rep \in Answers : rep.id \in 1..(correlation - 1)
    BY DEF IdsOK
  <2>2. Answers' = Answers /\ \A f \in Under' : f \in Under \/ f = new
    BY <1>3
  <2>3. \A rep \in Answers' : rep.id \in 1..(correlation' - 1)
    BY <2>1, <2>2, <1>10, <1>11, <1>6
  <2>4. \A f \in Under' : f.id \in 1..(correlation' - 1)
    BY <2>2, <1>10, <1>11, <1>5, <1>6
  <2>5. task'.tries > 0 => At("hello")' /\ correlation' > 1
    BY <1>1, <1>10, <1>6 DEF IdsOK, At
  <2>6. ~ At("idle")'
    BY <1>1 DEF At
  <2>7. QED
    BY <2>3, <2>4, <2>5, <2>6 DEF IdsOK
<1>14. \A f \in Under' : f.id = correlation' - 1 => f.request = Request
  <2> SUFFICES ASSUME NEW f \in Under', f.id = correlation' - 1, f # new PROVE f.request = Request
    BY <1>3
  <2>1. f \in Under
    BY <1>3
  <2>2. Again /\ f.id = correlation - 1
    BY <2>1, <1>10, <1>11, <1>5, <1>6
  <2>3. QED
    BY <2>1, <2>2 DEF SentOK, Again
<1>15. SentOK'
  BY <1>14, <1>2 DEF SentOK
<1>16. PairsOK'
  <2>1. \A f, g \in Under' : f.id <= g.id => f.request.op <= g.request.op
    <3> SUFFICES ASSUME NEW f \in Under', NEW g \in Under', f.id <= g.id
                 PROVE  f.request.op <= g.request.op
      OBVIOUS
    <3>1. CASE f \in Under /\ g \in Under
      BY <3>1 DEF PairsOK
    <3>2. CASE g = new
      BY <3>2, <1>3, <1>4, <1>5
    <3>3. CASE f = new /\ g \in Under
      <4>1. g.id = correlation' - 1
        BY <3>3, <1>3, <1>5, <1>6
      <4>2. g.request = Request
        BY <4>1, <1>14
      <4>3. QED
        BY <4>2, <3>3, <1>3, <1>4
    <3>4. QED
      BY <3>1, <3>2, <3>3, <1>3
  <2>2. \A f, g \in Under' : f.id = g.id => f.request = g.request
    <3> SUFFICES ASSUME NEW f \in Under', NEW g \in Under', f.id = g.id
                 PROVE  f.request = g.request
      OBVIOUS
    <3>1. CASE f \in Under /\ g \in Under
      BY <3>1 DEF PairsOK
    <3>2. CASE f = new \/ g = new
      <4>1. f.id = correlation' - 1 /\ g.id = correlation' - 1
        BY <3>2, <1>3
      <4>2. QED
        BY <4>1, <1>14
    <3>3. QED
      BY <3>1, <3>2, <1>3
  <2>3. \A f, g \in Under' :
           f.id < g.id /\ (\/ Is(f, Publishing) /\ Is(g, Deciding)
                           \/ Is(f, {"begin"}) /\ Is(g, Opening))
             => f.request.op < g.request.op
    <3> SUFFICES ASSUME NEW f \in Under', NEW g \in Under', f.id < g.id,
                        \/ Is(f, Publishing) /\ Is(g, Deciding)
                        \/ Is(f, {"begin"}) /\ Is(g, Opening)
                 PROVE  f.request.op < g.request.op
      OBVIOUS
    <3>1. CASE f \in Under /\ g \in Under
      BY <3>1 DEF PairsOK
    <3>2. CASE f \in Under /\ g = new
      <4>1. task.at \in {"inline", "begin", "commit"}
        BY <3>2, <1>4 DEF Is, Deciding, Publishing, Opening
      <4>2. QED
        BY <4>1, <3>2, <1>4, <1>9
    <3>3. f # new
      BY <1>3, <1>5, <1>6
    <3>4. QED
      BY <3>1, <3>2, <3>3, <1>3
  <2>4. QED
    BY <2>1, <2>2, <2>3 DEF PairsOK, Is
<1>17. FramesOK'
  <2>1. \A f \in Under' : f.request.op <= Call
    BY <1>3, <1>4, <1>5
  <2>2. \A f \in Under' : f.request.kind # "hello" => f.request.op > 0
    BY <1>3, <1>4, <1>8 DEF FramesOK, Is
  <2>3. \A f \in Under' : f.request.kind = "chunk" => f.request.chunk < Chunks
    BY <1>3, <1>4 DEF FramesOK, Is, CallOK, At
  <2>4. QED
    BY <2>1, <2>2, <2>3, <1>2 DEF FramesOK, Is
<1>18. PublishedOK'
  <2>1. \A o \in Published : o \in Nat /\ o <= Call
    BY UnderFrames DEF PublishedOK
  <2>2. Is(new, Deciding) => Call \notin Published
    BY <1>3, <1>4 DEF CallOK, Is, Deciding, Publishing, Opening
  <2>3. \A o \in Published, f \in Under' :
           o <= f.request.op /\ (Is(f, Deciding) => o < f.request.op)
    <3> SUFFICES ASSUME NEW o \in Published, NEW f \in Under'
                 PROVE  o <= f.request.op /\ (Is(f, Deciding) => o < f.request.op)
      OBVIOUS
    <3>1. CASE f \in Under
      BY <3>1 DEF PublishedOK
    <3>2. CASE f = new
      BY <3>2, <2>1, <2>2, <1>4
    <3>3. QED
      BY <3>1, <3>2, <1>3
  <2>4. \A f \in Under' : Is(f, Publishing) => verdict[f.request.op] \in {"pending", "unknown"}
    <3> SUFFICES ASSUME NEW f \in Under', Is(f, Publishing)
                 PROVE  verdict[f.request.op] \in {"pending", "unknown"}
      OBVIOUS
    <3>1. CASE f \in Under
      BY <3>1 DEF PublishedOK
    <3>2. CASE f = new
      BY <3>2, <1>4, <1>8 DEF Is, Publishing
    <3>3. QED
      BY <3>1, <3>2, <1>3
  <2>5. QED
    BY <2>1, <2>3, <2>4, <1>1, <1>2 DEF PublishedOK, Is
<1>19. HalfDoneOK'
  <2>1. Is(new, Opening) => Call # transfer.op
    BY <1>3, <1>4 DEF CallOK, Is
  <2>2. \A f \in Under' : Is(f, Opening) => f.request.op # transfer.op
    BY <2>1, <1>3, <1>4 DEF HalfDoneOK
  <2>3. QED
    BY <2>2, <1>1, <1>2 DEF HalfDoneOK, Is
<1>20. CallOK'
  <2>1. task.at \in {"inline", "begin", "chunk", "commit"} =>
          \A f \in Under' : f.request.op = Call => awaiting' # 0 /\ f.id = awaiting'
    <3> SUFFICES ASSUME task.at \in {"inline", "begin", "chunk", "commit"},
                        NEW f \in Under', f.request.op = Call
                 PROVE  f = new
      BY <1>10, <1>11
    <3>1. f \in Under => f.request.op \in Nat /\ f.request.op < Call
      BY <1>5, <1>9
    <3>2. QED
      BY <3>1, <1>3, <1>4
  <2>2. awaiting' # 0
    BY <1>11
  <2>3. QED
    BY <2>1, <2>2, <1>1, <1>2 DEF CallOK, InCall, At
<1>21. AnswerOK'
  <2>1. ASSUME ~ At("hello"), NEW rep \in Answers PROVE rep.id # awaiting'
    <3>1. awaiting' = correlation
      BY <2>1, <1>10, <1>6, <1>7
    <3>2. rep.id \in 1..(correlation - 1)
      BY <2>1 DEF IdsOK
    <3>3. QED
      BY <3>1, <3>2, <1>6
  <2>2. QED
    BY <2>1, <1>1, <1>3 DEF AnswerOK, At
<1>22. QED
  BY <1>3, <1>12, <1>13, <1>15, <1>16, <1>17, <1>18, <1>19, <1>20, <1>21 DEF OutcomeInv

-----------------------------------------------------------------------------
(* How an exchange ends, and what the task does then.                       *)

(* What may be concluded from a result.                                     *)
ResultOK(r) ==
  /\ r \in Errors \cup {"ok", "unknown"}
  /\ task.at \in Publishing /\ r = "ok" => Call \in Published \ missed
  /\ task.at \in Publishing /\ r \in Errors => TellsOfFailure(r)
  /\ task.at \in Deciding /\ r \in Errors => \A f \in Under : f.request.op # Call
  /\ InCall /\ r = "ok" => Under = {}
  /\ At("abort") /\ r = "ok" => Call \notin Published

(* What every end of an exchange has in common.                             *)
Ended ==
  /\ Under' = Under /\ Answers' \subseteq Answers /\ UNCHANGED delegate
  /\ ~ At("idle") /\ awaiting' = 0 /\ withheld' \subseteq 1..MaxCalls
  /\ \E next \in Nat : /\ correlation' = next /\ next >= correlation /\ next > 1
                        /\ \A f \in Under : f.id = next - 1 => f.request = Request
  /\ frames' \in Seq(Frame) /\ Len(frames') <= FrameQueue
  /\ replies' \in Seq(Reply) /\ Len(replies') <= OnTheLink
  /\ bridge' = NoFrame \/ bridge' \in Frame
  /\ InOrder'

EndsWith(r) ==
  \/ r = "refused" /\ RequestRefused
  \/ r \in Errors \cup {"ok"} /\ Answered(r) /\ Result(r) /\ UNCHANGED <<delegate, counts>>
  \/ r = "unknown" /\ RequestTimesOut

LEMMA EndView ==
  ASSUME OutcomeInv, NEW r, EndsWith(r)
  PROVE  Ended /\ ResultOK(r) /\ Result(r)
<1> /\ Types /\ InOrder /\ IdsOK /\ SentOK /\ CallOK /\ AnswerOK
  BY DEF OutcomeInv
<1>1. correlation \in Nat /\ correlation > 0 /\ awaiting \in {0, correlation - 1}
  BY DEF Types, TypeOK
<1>2. InCall <=> ~ At("idle") /\ ~ At("hello")
  BY DEF Types, TypeOK, InCall, At, Requests
<1>3. "refused" \in Errors /\ "ok" \notin Errors /\ "unknown" \notin Errors
  BY DEF Errors
<1>4. CASE r = "refused" /\ RequestRefused
  <2>1. /\ ~ At("idle") /\ awaiting = 0 /\ TakeId(Again) /\ Result(r)
        /\ UNCHANGED <<awaiting, frames, bridge, replies, delegate>>
    BY <1>4 DEF RequestRefused, Refuse
  <2>2. Under' = Under /\ Answers' = Answers /\ InOrder'
    BY <2>1 DEF Under, Answers, InOrder, Precedes, Is
  <2>3. withheld' \subseteq 1..MaxCalls
    <3>1. withheld \subseteq 1..MaxCalls
      BY DEF Types, TypeOK
    <3>2. At("commit") => Call \in 1..MaxCalls
      BY <1>2, CallFacts, Bounds DEF CallOK, InCall, At
    <3>3. QED
      BY <3>1, <3>2, <1>4 DEF RequestRefused
  <2>4. PICK next \in Nat : correlation' = next /\ next = IF Again THEN correlation ELSE correlation + 1
    BY <2>1, <1>1 DEF TakeId
  <2>5. next >= correlation /\ next > 1
    BY <2>4, <1>1 DEF IdsOK, Again
  <2>6. \A f \in Under : f.id = next - 1 => f.request = Request
    <3>1. CASE Again
      BY <3>1, <2>4 DEF SentOK, Again
    <3>2. CASE ~ Again
      <4>1. next - 1 = correlation
        BY <3>2, <2>4, <1>1
      <4>2. \A f \in Under : f.id # correlation
        BY <1>1 DEF IdsOK
      <4>3. QED
        BY <4>1, <4>2
    <3>3. QED
      BY <3>1, <3>2
  <2>7. Ended
    <3>1. /\ frames' \in Seq(Frame) /\ Len(frames') <= FrameQueue
          /\ replies' \in Seq(Reply) /\ Len(replies') <= OnTheLink
          /\ bridge' = NoFrame \/ bridge' \in Frame
      BY <2>1 DEF Types, TypeOK
    <3>2. QED
      BY <2>1, <2>2, <2>3, <2>4, <2>5, <2>6, <3>1 DEF Ended
  <2>8. ResultOK(r)
    <3>1. task.at \in Publishing => Call \notin Published
      BY <2>1 DEF CallOK
    <3>2. task.at \in Deciding => \A f \in Under : f.request.op # Call
      BY <2>1 DEF CallOK, Deciding, Publishing, Opening
    <3>3. QED
      BY <3>1, <3>2, <1>3, <1>4 DEF ResultOK, TellsOfFailure
  <2>9. QED
    BY <2>1, <2>7, <2>8
<1>5. CASE \/ (r \in Errors \cup {"ok"} /\ Answered(r) /\ Result(r) /\ UNCHANGED <<delegate, counts>>)
           \/ (r = "unknown" /\ RequestTimesOut)
  <2>1. /\ UNCHANGED <<correlation, frames, bridge, delegate, withheld>>
        /\ awaiting # 0 /\ awaiting' = 0 /\ Result(r)
        /\ r \in Errors \cup {"ok", "unknown"}
    BY <1>5 DEF Answered, RequestTimesOut, Expired, counts
  <2>2. /\ replies' \in Seq(Reply) /\ Len(replies') <= OnTheLink
        /\ Answers' \subseteq Answers
        /\ r # "unknown" => \E rep \in Answers : rep.id = awaiting /\ rep.result = r
    <3>1. CASE r = "unknown" /\ RequestTimesOut
      <4>1. replies' = replies
        BY <3>1 DEF RequestTimesOut, Expired
      <4>2. QED
        BY <4>1, <3>1 DEF Answers, Types, TypeOK
    <3>2. CASE r \in Errors \cup {"ok"} /\ Answered(r)
      <4>1. /\ replies # <<>> /\ replies \in Seq(Reply) /\ Len(replies) <= OnTheLink
            /\ replies' = Tail(replies)
            /\ Head(replies).id = awaiting /\ r = Head(replies).result
        BY <3>2 DEF Answered, Types, TypeOK
      <4>2. /\ replies' \in Seq(Reply) /\ Len(replies') <= OnTheLink
            /\ \A p \in DOMAIN replies' : p + 1 \in DOMAIN replies /\ replies'[p] = replies[p + 1]
            /\ 1 \in DOMAIN replies /\ Head(replies) = replies[1]
        BY <4>1, HeadTailProperties, Bounds
      <4>3. QED
        BY <4>1, <4>2 DEF Answers
    <3>3. QED
      BY <3>1, <3>2, <1>5
  <2>3. Under' = Under /\ InOrder'
    BY <2>1 DEF Under, InOrder, Precedes, Is
  <2>4. ~ At("idle") /\ correlation > 1 /\ awaiting = correlation - 1
    BY <2>1, <1>1 DEF IdsOK
  <2>5. \A f \in Under : f.id = correlation - 1 => f.request = Request
    BY <2>1 DEF SentOK
  <2>6. Ended
    <3>1. /\ frames' \in Seq(Frame) /\ Len(frames') <= FrameQueue
          /\ bridge' = NoFrame \/ bridge' \in Frame
          /\ withheld' \subseteq 1..MaxCalls
      BY <2>1 DEF Types, TypeOK
    <3>2. QED
      BY <2>1, <2>2, <2>3, <2>4, <2>5, <3>1, <1>1 DEF Ended
  <2>7. ResultOK(r)
    <3>1. CASE r = "unknown"
      BY <3>1, <1>3 DEF ResultOK
    <3>2. CASE r # "unknown"
      <4>1. PICK rep \in Answers : rep.id = awaiting /\ rep.result = r
        BY <3>2, <2>2
      <4>2. InCall =>
              /\ Under = {}
              /\ task.at \in Publishing =>
                   /\ r = "ok" => Call \in Published \ missed
                   /\ r # "ok" => TellsOfFailure(r)
              /\ At("abort") /\ r = "ok" => Call \notin Published
        BY <4>1, <2>1, <1>2 DEF AnswerOK
      <4>3. task.at \in Deciding \cup {"abort"} => InCall
        BY DEF Deciding, Publishing, Opening, InCall
      <4>4. QED
        BY <2>1, <4>2, <4>3, <1>3 DEF ResultOK, Deciding, At
    <3>3. QED
      BY <3>1, <3>2
  <2>8. QED
    BY <2>1, <2>6, <2>7
<1>6. QED
  BY <1>4, <1>5 DEF EndsWith

(* What the ends of an exchange keep, whatever the task does next.          *)
LEMMA EndKeeps ==
  ASSUME OutcomeInv, Ended, Call' = Call,
         session' \in {"negotiating", "established", "degraded", "reset"},
         task' \in [at : Requests \cup {"idle"}, sent : 0..Chunks, tries : 0..HelloRetries,
                    failure : Errors \cup {"none", "unknown"}],
         verdict' \in Seq(Errors \cup {"pending", "ok", "unknown"})
  PROVE  /\ Types' /\ InOrder' /\ PairsOK' /\ FramesOK' /\ HalfDoneOK' /\ AnswerOK'
         /\ Published' = Published /\ missed' = missed
         /\ (task'.tries > 0 => At("hello")') => IdsOK'
         /\ (task'.tries > 0 => Request' = Request) => SentOK'
<1> /\ Types /\ PairsOK /\ FramesOK /\ IdsOK /\ HalfDoneOK
  BY DEF OutcomeInv
<1>1. PICK next \in Nat : /\ correlation' = next /\ next >= correlation /\ next > 1
                         /\ \A f \in Under : f.id = next - 1 => f.request = Request
  BY DEF Ended
<1>2. Under' = Under /\ Answers' \subseteq Answers /\ awaiting' = 0
  BY DEF Ended
<1>3. UNCHANGED <<greeted, transfer, published, missed>> /\ Published' = Published
  BY DEF Ended, delegate, Published
<1>4. correlation' \in Nat \ {0} /\ awaiting' \in 0..correlation'
  BY <1>1, <1>2
<1>5. Types'
  <2>1. /\ Len(frames') <= FrameQueue /\ Len(replies') <= OnTheLink
        /\ frames' \in Seq(Frame) /\ replies' \in Seq(Reply)
        /\ bridge' = NoFrame \/ bridge' \in Frame
        /\ withheld' \subseteq 1..MaxCalls
    BY DEF Ended
  <2>2. /\ greeted \in BOOLEAN /\ transfer \in [op : 0..MaxCalls, got : 0..Chunks]
        /\ published \in Seq(1..MaxCalls) /\ missed \subseteq 1..MaxCalls
        /\ Call <= MaxCalls
    BY DEF Types, TypeOK
  <2>3. TypeOK'
    BY <2>1, <2>2, <1>3, <1>4 DEF TypeOK
  <2>4. QED
    BY <2>1, <2>2, <2>3, <1>2 DEF Types
<1>6. InOrder'
  BY DEF Ended
<1>7. PairsOK'
  BY <1>2 DEF PairsOK, Is
<1>8. FramesOK'
  BY <1>2 DEF FramesOK, Is
<1>9. HalfDoneOK'
  BY <1>2, <1>3 DEF HalfDoneOK, Is
<1>10. AnswerOK'
  BY <1>2 DEF AnswerOK
<1>11. ASSUME task'.tries > 0 => At("hello")' PROVE IdsOK'
  <2>1. \A f \in Under : f.id \in 1..(next - 1)
    BY <1>1, UnderFrames DEF IdsOK, Types, TypeOK
  <2>2. \A rep \in Answers : rep.id \in 1..(next - 1)
    BY <1>1, UnderFrames DEF IdsOK, Types, TypeOK
  <2>3. correlation' > 1
    BY <1>1
  <2>4. QED
    BY <2>1, <2>2, <2>3, <1>1, <1>2, <1>11 DEF IdsOK
<1>12. ASSUME task'.tries > 0 => Request' = Request PROVE SentOK'
  BY <1>1, <1>2, <1>12 DEF SentOK
<1>13. QED
  BY <1>3, <1>5, <1>6, <1>7, <1>8, <1>9, <1>10, <1>11, <1>12

(* A call returns v.                                                        *)
LEMMA ReturnStep ==
  ASSUME OutcomeInv, Ended, InCall, NEW v \in Errors \cup {"ok", "unknown"}, Return(v),
         v # "unknown" => \A f \in Under : Is(f, Publishing) => f.request.op # Call,
         session' \in {session, "degraded"}
  PROVE  OutcomeInv' /\ Call' = Call
<1> /\ Types /\ PublishedOK /\ CallOK
  BY DEF OutcomeInv
<1>1. /\ Call \in Nat /\ Call <= MaxCalls /\ Call >= 1 /\ DOMAIN verdict = 1..Call
      /\ verdict \in Seq(Errors \cup {"pending", "ok", "unknown"})
  BY CallFacts DEF CallOK
<1>2. verdict' = [verdict EXCEPT ![Call] = v] /\ task' = Idle
  BY DEF Return
<1>3. /\ Call' = Call /\ verdict' \in Seq(Errors \cup {"pending", "ok", "unknown"})
      /\ verdict'[Call] = v
      /\ \A i \in 1..Call : i # Call => verdict'[i] = verdict[i]
  <2>1. v \in Errors \cup {"pending", "ok", "unknown"} /\ Call \in 1..Len(verdict)
    BY <1>1 DEF Call
  <2>2. /\ verdict' \in Seq(Errors \cup {"pending", "ok", "unknown"})
        /\ Len(verdict') = Len(verdict)
    BY <1>1, <1>2, <2>1, ExceptSeq
  <2>3. QED
    BY <1>1, <1>2, <2>1, <2>2 DEF Call
<1>4. session' \in {"negotiating", "established", "degraded", "reset"}
  BY DEF Types, TypeOK
<1>5. task' \in [at : Requests \cup {"idle"}, sent : 0..Chunks, tries : 0..HelloRetries,
                 failure : Errors \cup {"none", "unknown"}]
      /\ task'.tries = 0 /\ task'.at = "idle"
  <2>1. 0 \in 0..Chunks /\ 0 \in 0..HelloRetries
    BY Bounds
  <2>2. QED
    BY <1>2, <2>1 DEF Idle
<1>6. /\ Types' /\ InOrder' /\ PairsOK' /\ FramesOK' /\ HalfDoneOK' /\ AnswerOK'
      /\ Published' = Published /\ missed' = missed /\ IdsOK' /\ SentOK'
  BY <1>3, <1>4, <1>5, EndKeeps
<1>7. Under' = Under
  BY DEF Ended
<1>8. PublishedOK'
  <2>1. \A f \in Under : Is(f, Publishing) => verdict'[f.request.op] \in {"pending", "unknown"}
    <3> SUFFICES ASSUME NEW f \in Under, Is(f, Publishing)
                 PROVE  verdict'[f.request.op] \in {"pending", "unknown"}
      OBVIOUS
    <3>1. f.request.op \in 1..Call
      BY UnderFrames, <1>1 DEF OutcomeInv, FramesOK, Is, Publishing
    <3>2. QED
      BY <3>1, <1>3 DEF PublishedOK
  <2>2. QED
    BY <2>1, <1>3, <1>6, <1>7 DEF PublishedOK, Is
<1>9. CallOK'
  <2>1. ~ InCall' /\ ~ At("begin")' /\ ~ At("abort")' /\ ~ At("chunk")' /\ ~ At("commit")'
        /\ task'.at \notin {"inline", "begin", "chunk", "commit"}
        /\ task'.at \notin Opening /\ task'.at \notin Publishing
    BY <1>5 DEF InCall, At, Opening, Publishing
  <2>2. v # "pending"
    BY DEF Errors
  <2>3. \A i \in 1..Call : verdict'[i] # "pending"
    BY <1>3, <2>2 DEF CallOK
  <2>4. QED
    BY <2>1, <2>3, <1>3 DEF CallOK
<1>10. QED
  BY <1>3, <1>6, <1>8, <1>9 DEF OutcomeInv

(* A call goes on with its next request.                                    *)
LEMMA GoOnStep ==
  ASSUME OutcomeInv, Ended, InCall, UNCHANGED <<verdict, session>>,
         task' \in [at : {"chunk", "commit", "abort"}, sent : 0..Chunks, tries : {0},
                    failure : Errors \cup {"none", "unknown"}],
         task'.at = "chunk" => task'.sent < Chunks /\ Call \notin Published,
         task'.at = "commit" => task'.sent = Chunks /\ Call \notin Published,
         task'.at = "abort" => task'.failure # "none",
         task'.at # "abort" => Under = {}
  PROVE  OutcomeInv' /\ Call' = Call
<1> /\ Types /\ PublishedOK /\ CallOK
  BY DEF OutcomeInv
<1>1. Call' = Call /\ Under' = Under /\ awaiting' = 0
  BY DEF Call, Ended
<1>2. /\ session' \in {"negotiating", "established", "degraded", "reset"}
      /\ verdict' \in Seq(Errors \cup {"pending", "ok", "unknown"})
  BY DEF Types, TypeOK
<1>3. task' \in [at : Requests \cup {"idle"}, sent : 0..Chunks, tries : 0..HelloRetries,
                 failure : Errors \cup {"none", "unknown"}]
      /\ task'.tries = 0
  <2>1. {"chunk", "commit", "abort"} \subseteq Requests /\ 0 \in 0..HelloRetries
    BY Bounds DEF Requests
  <2>2. QED
    BY <2>1
<1>4. /\ Types' /\ InOrder' /\ PairsOK' /\ FramesOK' /\ HalfDoneOK' /\ AnswerOK'
      /\ Published' = Published /\ missed' = missed /\ IdsOK' /\ SentOK'
  BY <1>1, <1>2, <1>3, EndKeeps
<1>5. PublishedOK'
  BY <1>1, <1>4 DEF PublishedOK, Is
<1>6. CallOK'
  <2>1. /\ InCall' /\ task'.at \in {"chunk", "commit", "abort"}
        /\ task'.at \notin Opening /\ task'.at # "begin"
    BY DEF InCall, Opening
  <2>2. /\ task'.at \in {"inline", "begin", "chunk", "commit"} => Under = {}
        /\ \/ task'.at \in {"begin", "chunk"}
           \/ task'.at \in Publishing /\ awaiting' = 0
           => Call \notin Published
    BY <2>1 DEF Publishing
  <2>3. QED
    BY <2>1, <2>2, <1>1, <1>4 DEF CallOK, At
<1>7. QED
  BY <1>1, <1>4, <1>5, <1>6 DEF OutcomeInv

(* HELLO is answered, sent again, or given up.                              *)
LEMMA HelloStep ==
  ASSUME OutcomeInv, Ended, NEW r, AfterHello(r)
  PROVE  OutcomeInv' /\ Call' = Call
<1> /\ Types /\ PublishedOK /\ CallOK
  BY DEF OutcomeInv
<1>1. /\ Call' = Call /\ Under' = Under /\ awaiting' = 0 /\ At("hello")
      /\ UNCHANGED verdict /\ session' \in {"established", "reset", session}
  BY DEF Call, Ended, AfterHello
<1>2. /\ session' \in {"negotiating", "established", "degraded", "reset"}
      /\ verdict' \in Seq(Errors \cup {"pending", "ok", "unknown"})
  BY <1>1 DEF Types, TypeOK
<1>3. task' \in [at : Requests \cup {"idle"}, sent : 0..Chunks, tries : 0..HelloRetries,
                 failure : Errors \cup {"none", "unknown"}]
      /\ \/ task'.at = "idle" /\ task'.tries = 0
         \/ At("hello")' /\ Request' = Request
  <2>1. CASE task' = Idle
    <3>1. 0 \in 0..Chunks /\ 0 \in 0..HelloRetries
      BY Bounds
    <3>2. QED
      BY <2>1, <3>1 DEF Idle
  <2>2. CASE task.tries < HelloRetries /\ task' = [task EXCEPT !.tries = @ + 1]
    <3>1. task \in [at : Requests \cup {"idle"}, sent : 0..Chunks, tries : 0..HelloRetries,
                    failure : Errors \cup {"none", "unknown"}]
      BY DEF Types, TypeOK
    <3>2. task.tries + 1 \in 0..HelloRetries
      BY <2>2, <3>1, Bounds
    <3>3. task'.at = task.at /\ task'.sent = task.sent
      BY <2>2, <3>1
    <3>4. QED
      BY <2>2, <3>1, <3>2, <3>3, <1>1 DEF At, Request
  <2>3. QED
    BY <2>1, <2>2 DEF AfterHello
<1>4. /\ Types' /\ InOrder' /\ PairsOK' /\ FramesOK' /\ HalfDoneOK' /\ AnswerOK'
      /\ Published' = Published /\ missed' = missed /\ IdsOK' /\ SentOK'
  <2>1. (task'.tries > 0 => At("hello")') /\ (task'.tries > 0 => Request' = Request)
    BY <1>3
  <2>2. QED
    BY <2>1, <1>1, <1>2, <1>3, EndKeeps
<1>5. PublishedOK'
  BY <1>1, <1>4 DEF PublishedOK, Is
<1>6. CallOK'
  <2>1. ~ InCall /\ ~ InCall' /\ task'.at \in {"idle", "hello"}
    BY <1>1, <1>3 DEF InCall, At
  <2>2. /\ task'.at \notin {"inline", "begin", "chunk", "commit", "abort"}
        /\ task'.at \notin Opening /\ task'.at \notin Publishing
    BY <2>1 DEF Opening, Publishing
  <2>3. QED
    BY <2>1, <2>2, <1>1, <1>4 DEF CallOK, At
<1>7. QED
  BY <1>1, <1>4, <1>5, <1>6 DEF OutcomeInv

(* A call returns v, which is the truth.                                    *)
Honest(v) ==
  /\ InCall /\ Return(v) /\ v \in Errors \cup {"ok", "unknown"}
  /\ UNCHANGED <<published, missed>>
  /\ v = "ok" => Call \in Published \ missed
  /\ v \in Errors => TellsOfFailure(v)

LEMMA ResultStep ==
  ASSUME OutcomeInv, NEW r, EndsWith(r)
  PROVE  /\ OutcomeInv' /\ Call' = Call
         /\ (\E v : Honest(v)) \/ UNCHANGED <<verdict, published, missed>>
<1> /\ Types /\ CallOK
  BY DEF OutcomeInv
<1>1. Ended /\ ResultOK(r) /\ Result(r) /\ UNCHANGED <<published, missed>>
  BY EndView DEF Ended, delegate
<1>2. /\ "refused" \in Errors /\ "failed" \in Errors /\ "ok" \notin Errors
      /\ "unknown" \notin Errors /\ "none" \notin Errors
  BY DEF Errors
<1>3. r \in Errors \cup {"ok", "unknown"}
  BY <1>1 DEF ResultOK
<1>4. task.sent \in 0..Chunks /\ task.failure \in Errors \cup {"none", "unknown"}
      /\ (~ At("hello") => task.tries = 0)
      /\ task \in [at : Requests \cup {"idle"}, sent : 0..Chunks, tries : 0..HelloRetries,
                    failure : Errors \cup {"none", "unknown"}]
  BY Bounds DEF Types, TypeOK, OutcomeInv, IdsOK
<1>5. CASE AfterInline(r)
  <2>1. InCall /\ Return(r) /\ UNCHANGED session /\ task.at \in Publishing /\ task.at \in Deciding
    BY <1>5 DEF AfterInline, InCall, At, Publishing, Deciding
  <2>2. r # "unknown" => \A f \in Under : f.request.op # Call
    BY <1>1, <1>3, <2>1 DEF ResultOK
  <2>3. OutcomeInv' /\ Call' = Call
    BY <1>1, <1>3, <2>1, <2>2, ReturnStep
  <2>4. Honest(r)
    BY <1>1, <1>3, <2>1 DEF ResultOK, Honest
  <2>5. QED
    BY <2>3, <2>4
<1>6. CASE AfterBegin(r)
  <2>1. InCall /\ UNCHANGED session /\ At("begin") /\ task.at \in Deciding /\ Call \notin Published
    BY <1>6 DEF AfterBegin, InCall, At, Opening, Deciding, CallOK
  <2>2. CASE r = "ok" /\ Go("chunk") /\ UNCHANGED verdict
    <3>1. /\ task' \in [at : {"chunk", "commit", "abort"}, sent : 0..Chunks, tries : {0},
                         failure : Errors \cup {"none", "unknown"}]
          /\ task'.at = "chunk" /\ task'.sent < Chunks
      BY <2>1, <2>2, <1>4, Bounds DEF Go, CallOK, At
    <3>2. Under = {}
      BY <1>1, <2>1, <2>2 DEF ResultOK
    <3>3. OutcomeInv' /\ Call' = Call
      BY <1>1, <2>1, <2>2, <3>1, <3>2, GoOnStep
    <3>4. QED
      BY <3>3, <2>2, <1>1
  <2>3. CASE /\ r = "unknown" /\ UNCHANGED verdict
             /\ task' = [task EXCEPT !.at = "abort", !.failure = "unknown"]
    <3>1. /\ task' \in [at : {"chunk", "commit", "abort"}, sent : 0..Chunks, tries : {0},
                         failure : Errors \cup {"none", "unknown"}]
          /\ task'.at = "abort" /\ task'.failure # "none"
      BY <2>1, <2>3, <1>4 DEF At
    <3>2. OutcomeInv' /\ Call' = Call
      BY <1>1, <2>1, <2>3, <3>1, GoOnStep
    <3>3. QED
      BY <3>2, <2>3, <1>1
  <2>4. CASE r \in Errors /\ Return(r)
    <3>1. OutcomeInv' /\ Call' = Call
      <4>1. r # "unknown" => \A f \in Under : f.request.op # Call
        BY <1>1, <2>1, <2>4 DEF ResultOK
      <4>2. QED
        BY <1>1, <2>1, <2>4, <4>1, ReturnStep
    <3>2. Honest(r)
      BY <1>1, <1>2, <2>1, <2>4 DEF Honest, TellsOfFailure
    <3>3. QED
      BY <3>1, <3>2
  <2>5. QED
    BY <1>6, <2>2, <2>3, <2>4 DEF AfterBegin
<1>7. CASE AfterChunk(r)
  <2>1. InCall /\ UNCHANGED <<verdict, session>> /\ At("chunk") /\ Call \notin Published
        /\ (r = "ok" => Under = {})
    BY <1>7, <1>1 DEF AfterChunk, InCall, At, CallOK, ResultOK
  <2>2. /\ task' \in [at : {"chunk", "commit", "abort"}, sent : 0..Chunks, tries : {0},
                       failure : Errors \cup {"none", "unknown"}]
        /\ task'.at = "chunk" => task'.sent < Chunks /\ r = "ok"
        /\ task'.at = "commit" => task'.sent = Chunks /\ r = "ok"
        /\ task'.at = "abort" => task'.failure # "none"
    <3>1. CASE r # "ok" /\ task' = [task EXCEPT !.at = "abort", !.failure = r]
      BY <3>1, <2>1, <1>2, <1>3, <1>4 DEF At
    <3>2. CASE r = "ok" /\ task.sent + 1 < Chunks /\ task' = [task EXCEPT !.sent = @ + 1]
      <4>1. task.sent + 1 \in 0..Chunks
        BY <3>2, <1>4, Bounds
      <4>2. task'.at = "chunk" /\ task'.sent = task.sent + 1
        BY <3>2, <2>1, <1>4 DEF At
      <4>3. QED
        BY <4>1, <4>2, <3>2, <2>1, <1>4 DEF At
    <3>3. CASE r = "ok" /\ task' = [task EXCEPT !.sent = Chunks, !.at = "commit"]
      <4>1. Chunks \in 0..Chunks
        BY Bounds
      <4>2. QED
        BY <3>3, <4>1, <2>1, <1>4 DEF At
    <3>4. QED
      BY <1>7, <3>1, <3>2, <3>3 DEF AfterChunk
  <2>3. OutcomeInv' /\ Call' = Call
    BY <1>1, <2>1, <2>2, GoOnStep
  <2>4. QED
    BY <2>3, <2>1, <1>1
<1>8. CASE AfterCommit(r)
  <2>1. InCall /\ UNCHANGED session /\ At("commit") /\ task.at \in Publishing /\ task.at \in Deciding
    BY <1>8 DEF AfterCommit, InCall, At, Publishing, Deciding
  <2>2. CASE r = "unknown"
    <3>1. /\ task' \in [at : {"chunk", "commit", "abort"}, sent : 0..Chunks, tries : {0},
                         failure : Errors \cup {"none", "unknown"}]
          /\ task'.at = "abort" /\ task'.failure # "none" /\ UNCHANGED verdict
      BY <1>8, <2>1, <2>2, <1>4 DEF At, AfterCommit
    <3>2. OutcomeInv' /\ Call' = Call
      BY <1>1, <2>1, <3>1, GoOnStep
    <3>3. QED
      BY <3>1, <3>2, <1>1
  <2>3. CASE r # "unknown"
    <3>1. Return(r)
      BY <1>8, <2>3 DEF AfterCommit
    <3>2. \A f \in Under : f.request.op # Call
      BY <1>1, <1>3, <2>1, <2>3 DEF ResultOK
    <3>3. OutcomeInv' /\ Call' = Call
      BY <1>1, <1>3, <2>1, <3>1, <3>2, ReturnStep
    <3>4. Honest(r)
      BY <1>1, <1>3, <2>1, <3>1 DEF ResultOK, Honest
    <3>5. QED
      BY <3>3, <3>4
  <2>4. QED
    BY <2>2, <2>3
<1>9. CASE AfterAbort(r)
  <2>1. InCall /\ session' \in {session, "degraded"} /\ At("abort") /\ task.failure # "none"
    BY <1>9 DEF AfterAbort, InCall, At, CallOK
  <2>2. PICK v : /\ Return(v) /\ v \in Errors \cup {"unknown"}
                 /\ v # "unknown" => r = "ok"
    <3>1. CASE r = "ok"
      BY <1>9, <3>1, <2>1, <1>2, <1>4 DEF AfterAbort
    <3>2. CASE r # "ok"
      BY <1>9, <3>2 DEF AfterAbort
    <3>3. QED
      BY <3>1, <3>2
  <2>3. r = "ok" => Under = {} /\ Call \notin Published
    BY <1>1, <2>1 DEF ResultOK
  <2>4. OutcomeInv' /\ Call' = Call
    BY <1>1, <2>1, <2>2, <2>3, ReturnStep
  <2>5. Honest(v)
    BY <1>1, <1>2, <2>1, <2>2, <2>3 DEF Honest, TellsOfFailure
  <2>6. QED
    BY <2>4, <2>5
<1>10. CASE AfterHello(r)
  <2>1. OutcomeInv' /\ Call' = Call
    BY <1>1, <1>10, HelloStep
  <2>2. QED
    BY <2>1, <1>10, <1>1 DEF AfterHello
<1>11. QED
  BY <1>1, <1>5, <1>6, <1>7, <1>8, <1>9, <1>10 DEF Result

-----------------------------------------------------------------------------
(* The application calls.                                                   *)

(* A call of publish, or of connect.                                        *)
LEMMA CallStep ==
  ASSUME OutcomeInv,
         Connect \/ PublishNotReady \/ StartPublish("inline") \/ StartPublish("begin")
  PROVE  OutcomeInv'
<1> /\ Types /\ InOrder /\ IdsOK /\ SentOK /\ PairsOK /\ FramesOK
    /\ PublishedOK /\ HalfDoneOK /\ CallOK /\ AnswerOK
  BY DEF OutcomeInv
<1>1. /\ UNCHANGED <<correlation, awaiting, frames, bridge, replies, greeted, transfer,
                     published, missed, withheld>>
      /\ At("idle") /\ awaiting = 0
  BY DEF Connect, PublishNotReady, StartPublish, link, delegate, counts, IdsOK
<1>2. Under' = Under /\ Answers' = Answers /\ Published' = Published
  BY <1>1 DEF Under, Answers, Published
<1>3. /\ Call \in Nat /\ Call <= MaxCalls /\ DOMAIN verdict = 1..Call
      /\ verdict \in Seq(Errors \cup {"pending", "ok", "unknown"})
  BY CallFacts
<1>4. /\ verdict' \in Seq(Errors \cup {"pending", "ok", "unknown"})
      /\ Call' \in Nat /\ Call <= Call' /\ Call' <= MaxCalls
      /\ \A i \in 1..Call : verdict'[i] = verdict[i]
      /\ \/ Call' = Call /\ Connect
         \/ Call' = Call + 1 /\ verdict'[Call + 1] = "notready" /\ PublishNotReady
         \/ /\ Call' = Call + 1 /\ verdict'[Call + 1] = "pending"
            /\ StartPublish("inline") \/ StartPublish("begin")
  <2>1. CASE Connect
    <3>1. verdict' = verdict /\ Call' = Call
      BY <2>1 DEF Connect, Call
    <3>2. QED
      BY <2>1, <3>1, <1>3
  <2>2. ASSUME NEW v \in {"notready", "pending"}, Call < MaxCalls, verdict' = Append(verdict, v)
        PROVE  /\ verdict' \in Seq(Errors \cup {"pending", "ok", "unknown"})
               /\ Call' = Call + 1 /\ verdict'[Call + 1] = v
               /\ \A i \in 1..Call : verdict'[i] = verdict[i]
    <3>1. v \in Errors \cup {"pending", "ok", "unknown"}
      BY DEF Errors
    <3>2. QED
      BY <3>1, <2>2, <1>3, AppendProperties DEF Call
  <2>3. CASE PublishNotReady
    BY <2>2, <2>3, <1>3, Bounds DEF PublishNotReady
  <2>4. CASE StartPublish("inline") \/ StartPublish("begin")
    BY <2>2, <2>4, <1>3, Bounds DEF StartPublish
  <2>5. QED
    BY <2>1, <2>3, <2>4
<1>5. /\ session' \in {"negotiating", "established", "degraded", "reset"}
      /\ task' \in [at : Requests \cup {"idle"}, sent : 0..Chunks, tries : 0..HelloRetries,
                     failure : Errors \cup {"none", "unknown"}]
      /\ task'.tries = 0
      /\ \/ task'.at \in {"idle", "hello"} /\ ~ (StartPublish("inline") \/ StartPublish("begin"))
         \/ /\ task'.at \in Opening /\ task'.sent = 0 /\ session' = "established"
            /\ StartPublish("inline") \/ StartPublish("begin")
  <2>1. 0 \in 0..Chunks /\ 0 \in 0..HelloRetries
    BY Bounds
  <2>2. CASE Connect
    <3>1. task' = [Idle EXCEPT !.at = "hello"] /\ session' = "negotiating"
      BY <2>2 DEF Connect
    <3>2. ~ StartPublish("inline") /\ ~ StartPublish("begin")
      BY <3>1 DEF StartPublish
    <3>3. QED
      BY <3>1, <3>2, <2>1 DEF Idle, Requests
  <2>3. CASE PublishNotReady
    <3>1. task' = task /\ session' = session /\ session # "established"
      BY <2>3 DEF PublishNotReady
    <3>2. ~ StartPublish("inline") /\ ~ StartPublish("begin")
      BY <3>1 DEF StartPublish
    <3>3. QED
      BY <3>1, <3>2, <1>1, Bounds DEF Types, TypeOK, At, IdsOK
  <2>4. ASSUME NEW form \in Opening, StartPublish(form)
        PROVE  /\ session' = "established" /\ task' = [Idle EXCEPT !.at = form]
    BY <2>4 DEF StartPublish
  <2>5. CASE StartPublish("inline") \/ StartPublish("begin")
    <3>1. PICK form \in Opening : task' = [Idle EXCEPT !.at = form] /\ session' = "established"
      BY <2>4, <2>5 DEF Opening
    <3>2. form \in Requests
      BY DEF Opening, Requests
    <3>3. QED
      BY <3>1, <3>2, <2>1, <2>5 DEF Idle
  <2>6. QED
    BY <2>2, <2>3, <2>5
<1>6. Types'
  <2>1. TypeOK'
    BY <1>1, <1>4, <1>5 DEF Types, TypeOK
  <2>2. QED
    BY <2>1, <1>1, <1>4 DEF Types
<1>7. InOrder' /\ PairsOK' /\ AnswerOK'
  BY <1>1, <1>2 DEF InOrder, Precedes, Is, PairsOK, AnswerOK
<1>8. IdsOK' /\ SentOK'
  BY <1>1, <1>2, <1>5 DEF IdsOK, SentOK
<1>9. \A f \in Under : f.request.op \in Nat /\ f.request.op <= Call
  BY UnderFrames DEF FramesOK
<1>10. FramesOK'
  BY <1>2, <1>3, <1>4, <1>9 DEF FramesOK, Is
<1>11. \A o \in Published : o \in Nat /\ o <= Call
  BY UnderFrames DEF PublishedOK
<1>12. PublishedOK'
  <2>1. \A o \in Published : o <= Call'
    BY <1>3, <1>4, <1>11
  <2>2. \A f \in Under : Is(f, Publishing) => verdict'[f.request.op] \in {"pending", "unknown"}
    <3> SUFFICES ASSUME NEW f \in Under, Is(f, Publishing)
                 PROVE  verdict'[f.request.op] \in {"pending", "unknown"}
      OBVIOUS
    <3>1. f.request.op \in 1..Call
      BY <1>3, <1>9 DEF FramesOK, Is, Publishing
    <3>2. QED
      BY <3>1, <1>4 DEF PublishedOK
  <2>3. Published' = Published /\ Under' = Under /\ missed' = missed
    BY <1>1, <1>2
  <2>4. missed' \subseteq Published'
    BY <2>3 DEF PublishedOK
  <2>5. \A o \in Published', f \in Under' :
          o <= f.request.op /\ (Is(f, Deciding) => o < f.request.op)
    BY <2>3 DEF PublishedOK
  <2>6. \A f \in Under' : Is(f, Publishing) => verdict'[f.request.op] \in {"pending", "unknown"}
    BY <2>2, <2>3
  <2>7. QED
    BY <2>1, <2>3, <2>4, <2>5, <2>6 DEF PublishedOK, Is
<1>13. transfer.op \in Nat /\ transfer.op <= Call
  BY DEF Types, TypeOK, HalfDoneOK
<1>14. HalfDoneOK'
  BY <1>1, <1>2, <1>3, <1>4, <1>13 DEF HalfDoneOK, Is
<1>15. \A i \in 1..Call : verdict'[i] # "pending"
  BY <1>1, <1>4 DEF CallOK, InCall, At
<1>16. CASE task'.at \in {"idle", "hello"} /\ ~ (StartPublish("inline") \/ StartPublish("begin"))
  <2>1. /\ ~ InCall' /\ task'.at \notin Opening /\ task'.at \notin Publishing
        /\ task'.at \notin {"inline", "begin", "chunk", "commit", "abort"}
    BY <1>16 DEF InCall, Opening, Publishing
  <2>2. \A i \in 1..Call' : i \in 1..Call \/ (i = Call + 1 /\ verdict'[i] = "notready")
    <3>1. CASE Call' = Call
      BY <3>1, <1>3
    <3>2. CASE Call' = Call + 1 /\ verdict'[Call + 1] = "notready"
      <4>1. \A i \in 1..(Call + 1) : i \in 1..Call \/ i = Call + 1
        BY <1>3
      <4>2. QED
        BY <3>2, <4>1
    <3>3. \/ Call' = Call
          \/ Call' = Call + 1 /\ verdict'[Call + 1] = "notready"
      BY <1>4, <1>16
    <3>4. QED
      BY <3>1, <3>2, <3>3
  <2>3. \A i \in 1..Call' : verdict'[i] # "pending"
    BY <2>2, <1>15
  <2>4. CallOK'
    BY <2>1, <2>3 DEF CallOK, At
  <2>5. QED
    BY <2>4, <1>6, <1>7, <1>8, <1>10, <1>12, <1>14 DEF OutcomeInv
<1>17. CASE task'.at \in Opening /\ task'.sent = 0 /\ session' = "established"
            /\ (StartPublish("inline") \/ StartPublish("begin"))
  <2>1. Call' = Call + 1 /\ verdict'[Call + 1] = "pending"
    <3>1. task' # task
      BY <1>17, <1>1 DEF At, Opening
    <3>2. ~ PublishNotReady
      BY <3>1 DEF PublishNotReady
    <3>3. ~ Connect
      BY <1>17 DEF Connect
    <3>4. QED
      BY <1>4, <3>2, <3>3
  <2>2. InCall' /\ task'.at \in {"inline", "begin"}
    BY <1>17 DEF InCall, Opening
  <2>3. \A i \in 1..Call' : i \in 1..Call \/ i = Call'
    BY <2>1, <1>3
  <2>4. \A i \in 1..Call' : verdict'[i] = "pending" <=> i = Call'
    <3>1. \A i \in 1..Call : i # Call'
      BY <2>1, <1>3
    <3>2. QED
      BY <2>1, <2>3, <3>1, <1>15
  <2>5. \A f \in Under : f.request.op # Call'
    BY <2>1, <1>3, <1>9
  <2>6. Call' >= 1 /\ transfer.op # Call' /\ Call' \notin Published
    BY <2>1, <1>3, <1>11, <1>13
  <2>7. CallOK'
    BY <2>2, <2>4, <2>5, <2>6, <1>1, <1>2, <1>5, <1>17 DEF CallOK, At
  <2>8. QED
    BY <2>7, <1>6, <1>7, <1>8, <1>10, <1>12, <1>14 DEF OutcomeInv
<1>18. QED
  BY <1>5, <1>16, <1>17

-----------------------------------------------------------------------------
(* The delegate handles a request.                                          *)

(* What every handler does to what was published and to the half-done       *)
(* message, with the result r.                                              *)
HandledWith(r) ==
  /\ bridge # NoFrame /\ Respond(r) /\ r \in Errors \cup {"ok"}
  /\ UNCHANGED <<client, withheld>>
  /\ greeted' \in BOOLEAN
  /\ transfer' \in [op : 0..MaxCalls, got : 0..Chunks]
  /\ published' \in Seq(1..MaxCalls) /\ missed' \subseteq 1..MaxCalls
  /\ \/ Published' = Published /\ missed' = missed
     \/ /\ Published' = Published \cup {Op} /\ Is(bridge, Publishing)
        /\ missed' = missed \/ missed' = missed \cup {Op}
  /\ \/ transfer' = NoTransfer
     \/ transfer'.op = transfer.op /\ transfer.op # 0 /\ transfer.op \notin Published'
     \/ transfer'.op = Op /\ Is(bridge, {"begin"}) /\ Published' = Published
  /\ Is(bridge, Publishing) =>
       /\ r = "ok" => Op \in Published' \ missed'
       /\ r # "ok" => Op \notin Published' \/ (r = "failed" /\ Op \in missed')
  /\ Is(bridge, {"abort"}) /\ r = "ok" => Op \notin Published'

LEMMA HandledStep ==
  ASSUME OutcomeInv, NEW r, HandledWith(r)
  PROVE  OutcomeInv' /\ Call' = Call
<1> /\ Types /\ InOrder /\ IdsOK /\ SentOK /\ PairsOK /\ FramesOK
    /\ PublishedOK /\ HalfDoneOK /\ CallOK /\ AnswerOK
  BY DEF OutcomeInv
<1>1. /\ bridge \in Under /\ bridge' = NoFrame /\ frames' = frames
      /\ Under' \subseteq Under /\ \A g \in Under' : Precedes(bridge, g)
      /\ \A rep \in Answers' : rep \in Answers \/ rep = [id |-> bridge.id, result |-> r]
      /\ replies' \in Seq(Reply) /\ Len(replies') <= OnTheLink /\ InOrder'
  BY RespondedView DEF HandledWith
<1>2. /\ UNCHANGED <<session, task, verdict, withheld, correlation, awaiting>> /\ Call' = Call
  BY DEF HandledWith, client, Respond, Call
<1>3. /\ Call \in Nat /\ Op = bridge.request.op /\ Op \in Nat /\ Op <= Call
      /\ bridge.id \in Nat /\ bridge.id \in 1..(correlation - 1)
  BY <1>1, CallFacts, UnderFrames DEF FramesOK, Op, IdsOK
<1>4. /\ correlation \in Nat /\ awaiting \in {0, correlation - 1}
      /\ \A g \in Under : g.id \in Nat /\ g.id <= correlation - 1 /\ g.request.op \in Nat
  BY UnderFrames DEF Types, TypeOK, IdsOK
<1>5. \A o \in Published : o \in Nat /\ o <= Call /\ o > 0
  BY UnderFrames DEF PublishedOK
<1>6. Types'
  <2>1. /\ greeted' \in BOOLEAN /\ transfer' \in [op : 0..MaxCalls, got : 0..Chunks]
        /\ published' \in Seq(1..MaxCalls) /\ missed' \subseteq 1..MaxCalls
    BY DEF HandledWith
  <2>2. TypeOK'
    BY <1>1, <1>2, <2>1 DEF Types, TypeOK
  <2>3. QED
    BY <1>1, <1>2, <2>2 DEF Types
<1>7. IdsOK'
  <2>1. \A rep \in Answers' : rep.id \in 1..(correlation - 1)
    BY <1>1, <1>3 DEF IdsOK
  <2>2. QED
    BY <2>1, <1>1, <1>2 DEF IdsOK, At
<1>8. SentOK'
  BY <1>1, <1>2 DEF SentOK, Request
<1>9. PairsOK' /\ FramesOK'
  BY <1>1, <1>2 DEF PairsOK, FramesOK, Is
<1>10. \A o \in Published' : o \in Published \/ (o = Op /\ Is(bridge, Publishing))
  BY DEF HandledWith
<1>11. PublishedOK'
  <2>1. \A o \in Published' : o <= Call
    BY <1>3, <1>5, <1>10
  <2>2. \A o \in Published', f \in Under' :
          o <= f.request.op /\ (Is(f, Deciding) => o < f.request.op)
    <3> SUFFICES ASSUME NEW o \in Published', NEW f \in Under'
                 PROVE  o <= f.request.op /\ (Is(f, Deciding) => o < f.request.op)
      OBVIOUS
    <3>1. CASE o \in Published
      BY <3>1, <1>1 DEF PublishedOK
    <3>2. CASE o = Op /\ Is(bridge, Publishing)
      <4>1. bridge.id < f.id
        BY <3>2, <1>1 DEF Precedes, Is, Publishing
      <4>2. QED
        BY <4>1, <3>2, <1>1, <1>3, <1>4 DEF PairsOK
    <3>3. QED
      BY <3>1, <3>2, <1>10
  <2>3. missed' \subseteq Published'
    BY DEF PublishedOK, HandledWith
  <2>4. QED
    BY <2>1, <2>2, <2>3, <1>1, <1>2 DEF PublishedOK, Is
<1>12. \/ transfer'.op = 0 /\ transfer' = NoTransfer
       \/ transfer'.op = transfer.op /\ transfer.op # 0 /\ transfer.op \notin Published'
       \/ transfer'.op = Op /\ Is(bridge, {"begin"}) /\ Published' = Published
  BY DEF HandledWith, NoTransfer
<1>13. Is(bridge, {"begin"}) => Op > 0 /\ Op \notin Published
  BY <1>1, <1>3 DEF FramesOK, PublishedOK, Is, Deciding, Opening
<1>14. HalfDoneOK'
  <2>1. transfer'.op <= Call
    BY <1>2, <1>3, <1>12 DEF HalfDoneOK
  <2>2. transfer'.op = 0 => transfer' = NoTransfer
    BY <1>12, <1>13, <1>3
  <2>3. transfer'.op \notin Published'
    <3>1. Is(bridge, Publishing) => Op > 0
      <4>1. Is(bridge, Publishing) => ~ Is(bridge, {"hello"})
        BY DEF Is, Publishing
      <4>2. QED
        BY <4>1, <1>1, <1>3 DEF FramesOK
    <3>2. 0 \notin Published'
      BY <3>1, <1>3, <1>5, <1>10
    <3>3. QED
      BY <3>2, <1>12, <1>13
  <2>4. \A f \in Under' : Is(f, Opening) => f.request.op # transfer'.op
    <3> SUFFICES ASSUME NEW f \in Under', Is(f, Opening) PROVE f.request.op # transfer'.op
      OBVIOUS
    <3>1. CASE transfer'.op = 0
      BY <3>1, <1>1, <1>4 DEF FramesOK, Is, Opening
    <3>2. CASE transfer'.op = transfer.op
      BY <3>2, <1>1 DEF HalfDoneOK
    <3>3. CASE transfer'.op = Op /\ Is(bridge, {"begin"})
      <4>1. bridge.id < f.id
        BY <3>3, <1>1 DEF Precedes, Is
      <4>2. QED
        BY <4>1, <3>3, <1>1, <1>3, <1>4 DEF PairsOK
    <3>4. QED
      BY <3>1, <3>2, <3>3, <1>12
  <2>5. QED
    BY <2>1, <2>2, <2>3, <2>4, <1>2 DEF HalfDoneOK, Is
<1>15. bridge.id = awaiting /\ awaiting # 0 => bridge.request.kind = task.at /\ Op = Call
  BY <1>1, <1>3, <1>4 DEF SentOK, Request
<1>16. task.at \in {"inline", "begin", "chunk", "commit"} /\ Op = Call =>
         awaiting # 0 /\ bridge.id = awaiting
  BY <1>1, <1>3 DEF CallOK
<1>17. CallOK'
  <2>1. task.at \in Opening /\ awaiting = 0 => transfer'.op # Call
    <3> SUFFICES ASSUME task.at \in Opening, awaiting = 0, transfer'.op = Call PROVE FALSE
      OBVIOUS
    <3>1. Call > 0 /\ transfer.op # Call
      BY <1>3 DEF CallOK, InCall, Opening
    <3>2. Op # Call
      BY <1>16 DEF Opening
    <3>3. QED
      BY <3>1, <3>2, <1>12
  <2>2. \/ task.at \in {"begin", "chunk"}
        \/ task.at \in Publishing /\ awaiting = 0
        => Call \notin Published'
    <3> SUFFICES ASSUME \/ task.at \in {"begin", "chunk"}
                        \/ task.at \in Publishing /\ awaiting = 0,
                        Call \in Published'
                 PROVE  FALSE
      OBVIOUS
    <3>1. Call \notin Published
      BY DEF CallOK
    <3>2. Op = Call /\ Is(bridge, Publishing)
      BY <3>1, <1>10
    <3>3. awaiting # 0 /\ bridge.id = awaiting
      BY <3>2, <1>16 DEF Publishing
    <3>4. QED
      BY <3>2, <3>3, <1>15 DEF Is, Publishing
  <2>3. task.at \in {"inline", "begin", "chunk", "commit"} =>
          \A f \in Under' : f.request.op = Call => awaiting # 0 /\ f.id = awaiting
    BY <1>1 DEF CallOK
  <2>4. QED
    BY <2>1, <2>2, <2>3, <1>2 DEF CallOK, InCall, At
<1>18. AnswerOK'
  <2> SUFFICES ASSUME awaiting # 0, ~ At("hello"), NEW rep \in Answers', rep.id = awaiting
               PROVE  /\ Under' = {}
                      /\ task.at \in Publishing =>
                           /\ rep.result = "ok" => Call \in Published' \ missed'
                           /\ rep.result # "ok" =>
                                \/ Call \notin Published'
                                \/ rep.result = "failed" /\ Call \in missed'
                      /\ At("abort") /\ rep.result = "ok" => Call \notin Published'
    BY <1>2 DEF AnswerOK, TellsOfFailure, At
  <2>1. rep \notin Answers
    BY <1>1 DEF AnswerOK
  <2>2. rep.result = r /\ bridge.id = awaiting
    BY <2>1, <1>1
  <2>3. bridge.request.kind = task.at /\ Op = Call
    BY <2>2, <1>15
  <2>4. Under' = {}
    <3> SUFFICES ASSUME NEW g \in Under' PROVE FALSE
      OBVIOUS
    <3>1. g.id <= bridge.id
      BY <2>2, <1>1, <1>4
    <3>2. bridge.request.kind = "hello"
      BY <3>1, <1>1, <1>3, <1>4 DEF Precedes, Is
    <3>3. QED
      BY <3>2, <2>3 DEF At
  <2>5. QED
    BY <2>2, <2>3, <2>4 DEF HandledWith, Is, At
<1>19. QED
  BY <1>1, <1>2, <1>6, <1>7, <1>8, <1>9, <1>11, <1>14, <1>17, <1>18 DEF OutcomeInv

(* What the local PubSub made of the message, with the result r.            *)
Dispatched(r) ==
  /\ Respond(r) /\ published' \in Seq(1..MaxCalls) /\ missed' \subseteq 1..MaxCalls
  /\ \/ /\ r \in {"ok", "failed"} /\ published' = Append(published, Op)
        /\ Published' = Published \cup {Op} /\ Op \notin missed
        /\ missed' = IF r = "ok" THEN missed ELSE missed \cup {Op}
     \/ /\ r \in {"busy", "nomemory"} /\ UNCHANGED <<published, missed>>
        /\ Published' = Published /\ Op \notin Published

(* A message goes to the subscribers, or the local PubSub does not take it. *)
LEMMA DispatchView ==
  ASSUME OutcomeInv, Handling("inline") \/ Handling("commit"), Dispatch
  PROVE  \E r \in {"ok", "failed", "busy", "nomemory"} : Dispatched(r)
<1>1. bridge \in Under /\ Is(bridge, Publishing) /\ ~ Is(bridge, {"hello"}) /\ Is(bridge, Deciding)
  BY DEF Under, Handling, Is, Publishing, Deciding
<1>2. /\ Op \in 1..MaxCalls /\ Op \notin Published /\ Op \notin missed
      /\ missed \subseteq 1..MaxCalls
  BY <1>1, UnderFrames DEF OutcomeInv, Types, TypeOK, FramesOK, PublishedOK, Op
<1>3. published \in Seq(1..MaxCalls)
  BY DEF OutcomeInv, Types, TypeOK
<1>4. ASSUME published' = Append(published, Op)
      PROVE  published' \in Seq(1..MaxCalls) /\ Published' = Published \cup {Op}
  <2>1. ASSUME NEW S, published \in Seq(S), Op \in S
        PROVE  /\ published' \in Seq(S) /\ Len(published') = Len(published) + 1
               /\ published'[Len(published) + 1] = Op
               /\ \A k \in 1..Len(published) : published'[k] = published[k]
    BY <1>4, <2>1, AppendProperties
  <2>2. /\ published' \in Seq(1..MaxCalls) /\ Len(published') = Len(published) + 1
        /\ published'[Len(published) + 1] = Op
        /\ \A k \in 1..Len(published) : published'[k] = published[k]
    BY <2>1, <1>2, <1>3, Zenon
  <2>3. PICK n \in Nat : n = Len(published) /\ DOMAIN published = 1..n /\ DOMAIN published' = 1..(n + 1)
    BY <1>3, <2>2, LenProperties
  <2>4. Published' = Published \cup {Op}
    BY <2>2, <2>3 DEF Published
  <2>5. QED
    BY <2>2, <2>4
<1>5. CASE published' = Append(published, Op) /\ UNCHANGED missed /\ Respond("ok")
  BY <1>2, <1>4, <1>5 DEF Dispatched
<1>6. CASE published' = Append(published, Op) /\ missed' = missed \cup {Op} /\ Respond("failed")
  BY <1>2, <1>4, <1>6 DEF Dispatched
<1>7. CASE UNCHANGED <<published, missed>> /\ \E r \in {"busy", "nomemory"} : Respond(r)
  BY <1>2, <1>3, <1>7 DEF Dispatched, Published
<1>8. QED
  BY <1>5, <1>6, <1>7 DEF Dispatch

(* What becomes of the half-done message.                                   *)
Moved(r) ==
  \/ transfer' = NoTransfer
  \/ /\ transfer' = transfer /\ greeted' = greeted /\ ~ Is(bridge, {"hello"})
     /\ Is(bridge, {"begin", "chunk", "abort"}) => r # "ok"
     /\ Is(bridge, {"commit"}) /\ greeted => transfer # [op |-> Op, got |-> Chunks]
  \/ /\ Is(bridge, {"begin"}) /\ greeted /\ greeted' = greeted
     /\ transfer' = [op |-> Op, got |-> 0] /\ r = "ok"
  \/ /\ Is(bridge, {"chunk"}) /\ greeted /\ greeted' = greeted
     /\ transfer.op = Op /\ transfer.got = bridge.request.chunk
     /\ transfer'.op = transfer.op /\ transfer'.got = transfer.got + 1

Handled(r) == HandledWith(r) /\ Moved(r)

LEMMA HandleView ==
  ASSUME OutcomeInv, Handle
  PROVE  /\ \E r : Handled(r)
         /\ \/ UNCHANGED <<published, missed>>
            \/ /\ published' = Append(published, Op) /\ Is(bridge, Publishing)
               /\ missed' \in {missed, missed \cup {Op}}
<1> /\ Types /\ FramesOK /\ PublishedOK /\ HalfDoneOK
  BY DEF OutcomeInv
<1>1. /\ UNCHANGED <<client, withheld>> /\ bridge # NoFrame /\ bridge \in Under
  BY DEF Handle, counts, Handling, HandleHello, HandshakeRequired, HandleInline, HandleBegin,
     HandleChunk, HandleCommit, HandleAbort, Under
<1>2. /\ greeted \in BOOLEAN /\ published \in Seq(1..MaxCalls)
      /\ missed \subseteq 1..MaxCalls
      /\ transfer \in [op : 0..MaxCalls, got : 0..Chunks]
  BY DEF Types, TypeOK
<1>3. /\ bridge \in Frame /\ Op \in 0..MaxCalls
      /\ ~ Is(bridge, {"hello"}) => Op > 0
      /\ Is(bridge, Deciding) => Op \notin Published
      /\ bridge.request.kind = "chunk" => bridge.request.chunk \in 0..(Chunks - 1)
  BY <1>1, UnderFrames, Bounds DEF FramesOK, PublishedOK, Op, Is
<1>4. /\ {"ok", "failed", "busy", "nomemory", "notready"} \subseteq Errors \cup {"ok"}
      /\ "ok" \notin Errors /\ NoTransfer \in [op : 0..MaxCalls, got : 0..Chunks]
  <2>1. 0 \in 0..MaxCalls /\ 0 \in 0..Chunks
    BY Bounds
  <2>2. QED
    BY <2>1 DEF Errors, NoTransfer
<1>5. /\ transfer = NoTransfer \/ transfer.op # 0
      /\ transfer.op \notin Published /\ transfer.op \in 0..MaxCalls
  BY <1>2 DEF HalfDoneOK
<1>6. CASE HandleHello
  <2>1. /\ Respond("ok") /\ greeted' = TRUE /\ transfer' = NoTransfer
        /\ published' = published /\ missed' = missed /\ bridge.request.kind = "hello"
    BY <1>6 DEF HandleHello, Handling
  <2>2. Handled("ok")
    BY <2>1, <1>1, <1>2, <1>4 DEF Handled, HandledWith, Moved, Op, Is, Publishing, Published
  <2>3. QED
    BY <2>1, <2>2
<1>7. CASE HandshakeRequired
  <2>1. Respond("notready") /\ UNCHANGED <<greeted, transfer, published, missed>>
    BY <1>7 DEF HandshakeRequired, delegate
  <2>2. Is(bridge, Publishing) => Op \notin Published
    BY <1>3 DEF Is, Deciding
  <2>3. Moved("notready")
    BY <2>1, <1>1, <1>7 DEF HandshakeRequired, Handling, Is, Moved
  <2>4. Handled("notready")
    BY <2>1, <2>2, <2>3, <1>1, <1>2, <1>4, <1>5 DEF Handled, HandledWith, Published
  <2>5. QED
    BY <2>1, <2>4
<1>8. CASE HandleInline
  <2>1. Handling("inline") /\ Dispatch /\ UNCHANGED <<greeted, transfer>>
    BY <1>8 DEF HandleInline
  <2>2. Is(bridge, Publishing) /\ ~ Is(bridge, {"abort"})
    BY <2>1 DEF Handling, Is, Publishing
  <2>3. PICK r \in {"ok", "failed", "busy", "nomemory"} : Dispatched(r)
    BY <2>1, DispatchView
  <2>4. transfer.op # Op
    BY <2>1, <1>1 DEF HalfDoneOK, Handling, Is, Opening, Op
  <2>5. Handled(r)
    <3>1. \/ transfer' = NoTransfer
          \/ transfer'.op = transfer.op /\ transfer.op # 0 /\ transfer.op \notin Published'
      BY <2>1, <2>3, <2>4, <1>5 DEF Dispatched
    <3>2. Moved(r)
      BY <2>1 DEF Handling, Is, Moved
    <3>3. QED
      BY <2>1, <2>2, <2>3, <3>1, <3>2, <1>1, <1>2, <1>4 DEF Handled, HandledWith, Dispatched
  <2>6. QED
    BY <2>2, <2>3, <2>5 DEF Dispatched
<1>9. CASE HandleBegin
  <2>1. /\ bridge.request.kind = "begin" /\ UNCHANGED <<greeted, published, missed>> /\ greeted
        /\ ~ Is(bridge, Publishing) /\ ~ Is(bridge, {"abort"}) /\ Is(bridge, {"begin"})
    BY <1>9 DEF HandleBegin, Handling, Is, Publishing
  <2>2. Published' = Published
    BY <2>1 DEF Published
  <2>3. ASSUME NEW r \in {"busy", "nomemory"}, Respond(r), transfer' = transfer
        PROVE  Handled(r)
    <3>1. Moved(r)
      BY <2>1, <2>3 DEF Is, Moved
    <3>2. QED
      BY <3>1, <2>1, <2>2, <2>3, <1>1, <1>2, <1>4, <1>5 DEF Handled, HandledWith
  <2>4. ASSUME Respond("ok"), transfer' = [op |-> Op, got |-> 0]
        PROVE  Handled("ok")
    <3>1. transfer' \in [op : 0..MaxCalls, got : 0..Chunks] /\ transfer'.op = Op
      <4>1. 0 \in 0..Chunks
        BY Bounds
      <4>2. QED
        BY <4>1, <2>4, <1>3
    <3>2. Moved("ok")
      BY <2>1, <2>4 DEF Moved
    <3>3. QED
      BY <2>1, <2>2, <2>4, <3>1, <3>2, <1>1, <1>2, <1>4 DEF Handled, HandledWith
  <2>5. QED
    BY <2>1, <2>3, <2>4, <1>9 DEF HandleBegin
<1>10. CASE HandleChunk
  <2>1. /\ bridge.request.kind = "chunk" /\ UNCHANGED <<greeted, published, missed>> /\ greeted
        /\ ~ Is(bridge, Publishing) /\ ~ Is(bridge, {"abort"})
    BY <1>10 DEF HandleChunk, Handling, Is, Publishing
  <2>2. Published' = Published
    BY <2>1 DEF Published
  <2>3. CASE Respond("failed") /\ transfer' = transfer
    <3>1. Moved("failed")
      BY <2>1, <2>3 DEF Is, Moved
    <3>2. Handled("failed")
      BY <2>1, <2>2, <2>3, <3>1, <1>1, <1>2, <1>4, <1>5 DEF Handled, HandledWith
    <3>3. QED
      BY <2>1, <3>2
  <2>4. CASE /\ transfer.op = Op /\ bridge.request.chunk = transfer.got
             /\ transfer' = [transfer EXCEPT !.got = @ + 1] /\ Respond("ok")
    <3>1. transfer.got + 1 \in 0..Chunks
      BY <2>1, <2>4, <1>3, Bounds
    <3>2. transfer' \in [op : 0..MaxCalls, got : 0..Chunks] /\ transfer'.op = transfer.op
      BY <2>4, <3>1, <1>2
    <3>3. transfer.op # 0
      BY <2>1, <2>4, <1>3 DEF Is
    <3>4. Moved("ok")
      BY <2>1, <2>4, <1>2 DEF Is, Moved
    <3>5. Handled("ok")
      BY <2>1, <2>2, <2>4, <3>4, <3>2, <3>3, <1>1, <1>2, <1>4, <1>5 DEF Handled, HandledWith
    <3>6. QED
      BY <2>1, <3>5
  <2>5. QED
    BY <2>3, <2>4, <1>10 DEF HandleChunk
<1>11. CASE HandleCommit
  <2>1. Handling("commit") /\ UNCHANGED greeted
    BY <1>11 DEF HandleCommit
  <2>2. Is(bridge, Publishing) /\ ~ Is(bridge, {"abort"}) /\ Is(bridge, Deciding)
    BY <2>1 DEF Handling, Is, Publishing, Deciding
  <2>3. CASE transfer' = NoTransfer /\ Dispatch
    <3>1. PICK r \in {"ok", "failed", "busy", "nomemory"} : Dispatched(r)
      BY <2>1, <2>3, DispatchView
    <3>2. Moved(r)
      BY <2>3 DEF Moved
    <3>3. Handled(r)
      BY <2>1, <2>2, <2>3, <3>1, <3>2, <1>1, <1>2, <1>4 DEF Handled, HandledWith, Dispatched
    <3>4. QED
      BY <2>2, <3>1, <3>3 DEF Dispatched
  <2>4. CASE /\ UNCHANGED <<transfer, published, missed>> /\ Respond("failed")
             /\ transfer # [op |-> Op, got |-> Chunks]
    <3>1. Published' = Published /\ Op \notin Published
      BY <2>2, <2>4, <1>3 DEF Published
    <3>2. Moved("failed")
      BY <2>1, <2>4 DEF Handling, Is, Moved
    <3>3. Handled("failed")
      BY <2>1, <2>2, <2>4, <3>1, <3>2, <1>1, <1>2, <1>4, <1>5 DEF Handled, HandledWith
    <3>4. QED
      BY <2>4, <3>3
  <2>5. QED
    BY <2>3, <2>4, <1>11 DEF HandleCommit
<1>12. CASE HandleAbort
  <2>1. /\ bridge.request.kind = "abort" /\ UNCHANGED <<greeted, published, missed>>
        /\ ~ Is(bridge, Publishing)
    BY <1>12 DEF HandleAbort, Handling, Is, Publishing
  <2>2. Published' = Published
    BY <2>1 DEF Published
  <2>3. CASE transfer.op = Op /\ transfer' = NoTransfer /\ Respond("ok")
    <3>1. Moved("ok")
      BY <2>3 DEF Moved
    <3>2. Handled("ok")
      BY <3>1, <2>1, <2>2, <2>3, <1>1, <1>2, <1>4, <1>5 DEF Handled, HandledWith
    <3>3. QED
      BY <2>1, <3>2
  <2>4. CASE transfer' = transfer /\ Respond("failed")
    <3>1. Moved("failed")
      BY <2>1, <2>4 DEF Is, Moved
    <3>2. Handled("failed")
      BY <3>1, <2>1, <2>2, <2>4, <1>1, <1>2, <1>4, <1>5 DEF Handled, HandledWith
    <3>3. QED
      BY <2>1, <3>2
  <2>5. QED
    BY <2>3, <2>4, <1>12 DEF HandleAbort
<1>13. QED
  BY <1>6, <1>7, <1>8, <1>9, <1>10, <1>11, <1>12 DEF Handle

-----------------------------------------------------------------------------
(* The invariant holds.                                                     *)

LEMMA InitOutcome == Init => OutcomeInv
<1> SUFFICES ASSUME Init PROVE OutcomeInv
  OBVIOUS
<1>1. /\ correlation = 1 /\ awaiting = 0 /\ frames = <<>> /\ bridge = NoFrame /\ replies = <<>>
      /\ session = "reset" /\ task = Idle /\ verdict = <<>>
      /\ greeted = FALSE /\ transfer = NoTransfer /\ published = <<>> /\ missed = {}
      /\ withheld = {}
  BY DEF Init, LinkInit
<1>2. Under = {} /\ Answers = {} /\ Published = {} /\ Call = 0
  BY <1>1 DEF Under, Answers, Published, Call
<1>3. Types
  <2>1. 0 \in 0..MaxCalls /\ 0 \in 0..Chunks /\ 0 \in 0..HelloRetries /\ 0 <= FrameQueue /\ 0 <= OnTheLink
    BY Bounds
  <2>2. transfer \in [op : 0..MaxCalls, got : 0..Chunks]
    BY <1>1, <2>1 DEF NoTransfer
  <2>3. task \in [at : Requests \cup {"idle"}, sent : 0..Chunks, tries : 0..HelloRetries,
                  failure : Errors \cup {"none", "unknown"}]
    BY <1>1, <2>1 DEF Idle
  <2>4. Len(frames) <= FrameQueue /\ Len(replies) <= OnTheLink
    BY <1>1, <2>1
  <2>5. /\ correlation \in Nat \ {0} /\ awaiting \in 0..correlation
        /\ verdict \in Seq(Errors \cup {"pending", "ok", "unknown"})
        /\ published \in Seq(1..MaxCalls) /\ withheld \subseteq 1..MaxCalls
        /\ missed \subseteq 1..MaxCalls
    BY <1>1
  <2>6. greeted \in BOOLEAN /\ session \in {"negotiating", "established", "degraded", "reset"}
    BY <1>1
  <2>7. TypeOK
    BY <2>2, <2>3, <2>4, <2>5, <2>6 DEF TypeOK
  <2>8. Call <= MaxCalls
    BY <1>2, Bounds
  <2>9. QED
    BY <1>1, <2>7, <2>8 DEF Types
<1>4. InOrder /\ PairsOK /\ FramesOK /\ PublishedOK /\ AnswerOK
  BY <1>1, <1>2 DEF InOrder, PairsOK, FramesOK, PublishedOK, AnswerOK
<1>5. task.at = "idle" /\ task.tries = 0
  BY <1>1 DEF Idle
<1>6. IdsOK /\ SentOK
  BY <1>1, <1>2, <1>5 DEF IdsOK, SentOK
<1>7. HalfDoneOK
  BY <1>1, <1>2 DEF HalfDoneOK, NoTransfer
<1>8. CallOK
  <2>1. ~ InCall /\ task.at \notin Opening /\ task.at \notin Publishing
        /\ task.at \notin {"inline", "begin", "chunk", "commit", "abort"}
    BY <1>5 DEF InCall, Opening, Publishing
  <2>2. 1..Call = {}
    BY <1>2
  <2>3. QED
    BY <2>1, <2>2 DEF CallOK, At
<1>9. QED
  BY <1>3, <1>4, <1>6, <1>7, <1>8 DEF OutcomeInv

(* The controller's steps are ends of exchanges and sends.                  *)
LEMMA ControllerView ==
  ASSUME OutcomeInv, Controller
  PROVE  SendRequest \/ \E r : EndsWith(r)
<1>1. CASE RequestAnswered
  BY <1>1 DEF RequestAnswered, EndsWith
<1>2. CASE RequestRefused
  BY <1>2 DEF EndsWith
<1>3. CASE RequestTimesOut
  BY <1>3 DEF EndsWith
<1>4. QED
  BY <1>1, <1>2, <1>3 DEF Controller

LEMMA OutcomeStep == OutcomeInv /\ [Next]_vars => OutcomeInv'
<1> SUFFICES ASSUME OutcomeInv, [Next]_vars PROVE OutcomeInv'
  OBVIOUS
<1>1. CASE Connect \/ PublishNotReady \/ StartPublish("inline") \/ StartPublish("begin")
  BY <1>1, CallStep
<1>2. CASE Controller
  BY <1>2, ControllerView, SendStep, ResultStep
<1>3. CASE \/ (DropStaleResponse /\ UNCHANGED <<client, delegate, counts>>)
           \/ (TakeFrame /\ UNCHANGED <<client, delegate, counts>>)
           \/ UNCHANGED vars
  BY <1>3, LinkStep
<1>4. CASE Handle
  BY <1>4, HandleView, HandledStep DEF Handled
<1>5. CASE Restart
  BY <1>5, RestartStep
<1>6. QED
  BY <1>1, <1>2, <1>3, <1>4, <1>5 DEF Next

LEMMA OutcomeHolds == Spec => []OutcomeInv
BY InitOutcome, OutcomeStep, PTL DEF Spec

(* Queues, calls and transfers stay within their bounds, whatever the link  *)
(* loses and whenever the delegate restarts.                                *)
THEOREM PublishTypeCorrect == Spec => []TypeOK
<1>1. OutcomeInv => TypeOK
  BY DEF OutcomeInv, Types
<1>2. QED
  BY <1>1, OutcomeHolds, PTL

-----------------------------------------------------------------------------
(* What the application is told.                                            *)

Bar == [i \in 1..Len(verdict) |-> Class(verdict[i])]
Told == {"pending", "ok", "refused", "failed", "unknown"}

LEMMA BarFacts ==
  ASSUME Types
  PROVE  /\ Bar \in Seq(Told) /\ Len(Bar) = Call /\ DOMAIN Bar = 1..Call
         /\ \A i \in 1..Call : Bar[i] = Class(verdict[i])
         /\ \A i \in 1..Call : verdict[i] \in Errors \cup {"pending", "ok", "unknown"}
<1>1. /\ Call \in Nat /\ DOMAIN verdict = 1..Call
      /\ verdict \in Seq(Errors \cup {"pending", "ok", "unknown"})
  BY CallFacts
<1>2. \A i \in 1..Call : verdict[i] \in Errors \cup {"pending", "ok", "unknown"}
  BY <1>1
<1>3. Bar = [i \in 1..Call |-> Class(verdict[i])]
  BY DEF Bar, Call
<1>4. \A i \in 1..Call : Class(verdict[i]) \in Told
  BY <1>2 DEF Class, Told, Errors
<1>5. Bar \in [1..Call -> Told]
  BY <1>3, <1>4
<1>6. Bar \in Seq(Told) /\ Len(Bar) = Call
  BY <1>1, <1>5, IsASeq
<1>7. QED
  BY <1>2, <1>3, <1>6

(* A call that starts, or fails at once.                                    *)
LEMMA CallRefines ==
  ASSUME OutcomeInv, At("idle"), UNCHANGED <<published, missed>>,
         NEW v \in {"pending", "notready"}, verdict' = Append(verdict, v)
  PROVE  Promise!Call
<1> Types /\ CallOK
  BY DEF OutcomeInv
<1>1. /\ Call \in Nat /\ verdict \in Seq(Errors \cup {"pending", "ok", "unknown"})
      /\ DOMAIN verdict = 1..Call /\ Len(verdict) = Call
  BY CallFacts DEF Call
<1>2. v \in Errors \cup {"pending", "ok", "unknown"} /\ Class(v) \in {"pending", "refused"}
  BY DEF Errors, Class
<1>3. /\ Len(verdict') = Call + 1 /\ verdict'[Call + 1] = v
      /\ \A i \in 1..Call : verdict'[i] = verdict[i]
  BY <1>1, <1>2, AppendProperties
<1>4. Bar' = [i \in 1..(Call + 1) |-> Class(verdict'[i])]
  BY <1>3 DEF Bar
<1>5. Append(Bar, Class(v)) = [i \in 1..(Call + 1) |-> IF i = Call + 1 THEN Class(v) ELSE Bar[i]]
  <2>1. Bar \in Seq(Told) /\ Len(Bar) = Call /\ Class(v) \in Told
    BY <1>2, BarFacts DEF Told
  <2>2. /\ Append(Bar, Class(v)) \in Seq(Told) /\ Len(Append(Bar, Class(v))) = Call + 1
        /\ Append(Bar, Class(v))[Call + 1] = Class(v)
        /\ \A i \in 1..Call : Append(Bar, Class(v))[i] = Bar[i]
    BY <2>1, AppendProperties
  <2>3. \A i \in 1..(Call + 1) : i \in 1..Call \/ i = Call + 1
    BY <1>1
  <2>4. DOMAIN Append(Bar, Class(v)) = 1..(Call + 1)
    BY <2>2
  <2>5. \A i \in 1..(Call + 1) : Append(Bar, Class(v))[i] = IF i = Call + 1 THEN Class(v) ELSE Bar[i]
    BY <2>2, <2>3
  <2>6. Append(Bar, Class(v)) = [i \in 1..(Call + 1) |-> Append(Bar, Class(v))[i]]
    BY <2>2, <2>4, LenProperties
  <2>7. QED
    BY <2>5, <2>6
<1>6. \A i \in 1..(Call + 1) : Class(verdict'[i]) = IF i = Call + 1 THEN Class(v) ELSE Bar[i]
  <2>1. \A i \in 1..(Call + 1) : i = Call + 1 \/ i \in 1..Call
    BY <1>1
  <2>2. QED
    BY <2>1, <1>3, BarFacts
<1>7. Bar' = Append(Bar, Class(v))
  BY <1>4, <1>5, <1>6
<1>8. \A i \in DOMAIN Bar : Bar[i] # "pending"
  <2>1. \A i \in 1..Call : verdict[i] # "pending"
    BY DEF CallOK, InCall, At
  <2>2. QED
    BY <2>1, BarFacts DEF Class, Errors
<1>9. QED
  BY <1>2, <1>7, <1>8 DEF Promise!Call, Promise!Settled, Bar

(* A call that returns the truth.                                           *)
LEMMA ReturnRefines ==
  ASSUME OutcomeInv, NEW v, Honest(v)
  PROVE  Promise!Return
<1> Types /\ CallOK
  BY DEF OutcomeInv
<1>1. /\ Call \in Nat /\ Call >= 1 /\ Len(verdict) = Call
      /\ verdict \in Seq(Errors \cup {"pending", "ok", "unknown"})
      /\ DOMAIN verdict = 1..Call /\ Call \in 1..Call
  <2>1. Len(verdict) = Call
    BY DEF Call
  <2>2. InCall
    BY DEF Honest
  <2>3. Call >= 1
    BY <2>2 DEF CallOK
  <2>4. QED
    BY <2>1, <2>3, CallFacts
<1>2. verdict' = [verdict EXCEPT ![Call] = v] /\ v \in Errors \cup {"ok", "unknown"}
  BY DEF Honest, Return
<1>3. /\ Len(verdict') = Call /\ verdict'[Call] = v
      /\ \A i \in 1..Call : i # Call => verdict'[i] = verdict[i]
  BY <1>1, <1>2, ExceptSeq
<1>4. Bar' = [i \in 1..Call |-> Class(verdict'[i])]
  BY <1>3 DEF Bar
<1>5. /\ Bar \in Seq(Told) /\ Len(Bar) = Call /\ DOMAIN Bar = 1..Call
      /\ \A i \in 1..Call : Bar[i] = Class(verdict[i])
  BY BarFacts
<1>6. Bar' = [Bar EXCEPT ![Call] = Class(v)]
  BY <1>1, <1>3, <1>4, <1>5
<1>7. Bar # <<>> /\ Bar[Len(Bar)] = "pending"
  <2>1. verdict[Call] = "pending"
    BY <1>1 DEF CallOK, Honest
  <2>2. QED
    BY <2>1, <1>1, <1>5 DEF Class, Errors
<1>8. /\ Class(v) \in {"ok", "refused", "failed", "unknown"}
      /\ Class(v) = "ok" => Promise!Done(Call) /\ Call \notin missed
      /\ Class(v) = "refused" => ~ Promise!Done(Call)
      /\ Class(v) = "failed" => ~ Promise!Done(Call) \/ Call \in missed
  BY <1>2 DEF Honest, TellsOfFailure, Published, Class, Errors, Promise!Done
<1>9. UNCHANGED <<published, missed>>
  BY DEF Honest
<1>10. QED
  BY <1>5, <1>6, <1>7, <1>8, <1>9 DEF Promise!Return, Promise!Settled, Bar

(* A publication.                                                           *)
LEMMA PublishRefines ==
  ASSUME OutcomeInv, UNCHANGED verdict, bridge # NoFrame,
         published' = Append(published, Op), Is(bridge, Publishing),
         missed' \in {missed, missed \cup {Op}}
  PROVE  Promise!Publish
<1> Types /\ FramesOK /\ PublishedOK
  BY DEF OutcomeInv
<1>1. bridge \in Under /\ ~ Is(bridge, {"hello"}) /\ Is(bridge, Deciding)
  BY DEF Under, Is, Publishing, Deciding
<1>2. Call \in Nat /\ Op \in 1..Call
  BY <1>1, CallFacts, UnderFrames DEF FramesOK, Op
<1>3. Class(verdict[Op]) \in {"pending", "unknown"}
  BY <1>1 DEF PublishedOK, Op, Class, Errors
<1>4. \A k \in DOMAIN published : published[k] < Op
  BY <1>1 DEF PublishedOK, Published, Op
<1>5. DOMAIN Bar = 1..Call /\ Bar[Op] = Class(verdict[Op]) /\ Bar' = Bar
  BY <1>2, BarFacts DEF Bar
<1>6. QED
  BY <1>2, <1>3, <1>4, <1>5 DEF Promise!Publish, Bar

LEMMA PublishStepImplemented ==
  OutcomeInv /\ [Next]_vars => [Promise!RNext]_(Promise!rvars)
<1> SUFFICES ASSUME OutcomeInv, [Next]_vars
             PROVE  Promise!RNext \/ UNCHANGED <<published, missed, Bar>>
  BY DEF Promise!rvars, Bar
<1>1. UNCHANGED <<published, missed, verdict>> => UNCHANGED <<published, missed, Bar>>
  BY DEF Bar
<1>2. CASE PublishNotReady \/ StartPublish("inline") \/ StartPublish("begin")
  <2>1. /\ At("idle") /\ UNCHANGED <<published, missed>>
        /\ \E v \in {"pending", "notready"} : verdict' = Append(verdict, v)
    BY <1>2 DEF PublishNotReady, StartPublish, delegate
  <2>2. Promise!Call
    BY <2>1, CallRefines
  <2>3. QED
    BY <2>2 DEF Promise!RNext
<1>3. CASE Controller
  <2>1. CASE SendRequest
    BY <2>1, <1>1 DEF SendRequest, client, delegate
  <2>2. CASE \E r : EndsWith(r)
    <3>1. (\E v : Honest(v)) \/ UNCHANGED <<verdict, published, missed>>
      BY <2>2, ResultStep
    <3>2. QED
      BY <3>1, <1>1, ReturnRefines DEF Promise!RNext
  <2>3. QED
    BY <1>3, <2>1, <2>2, ControllerView
<1>4. CASE Handle
  <2>1. UNCHANGED verdict /\ bridge # NoFrame
    BY <1>4 DEF Handle, client, Handling, HandleHello, HandshakeRequired, HandleInline,
       HandleBegin, HandleChunk, HandleCommit, HandleAbort
  <2>2. \/ UNCHANGED <<published, missed>>
        \/ /\ published' = Append(published, Op) /\ Is(bridge, Publishing)
           /\ missed' \in {missed, missed \cup {Op}}
    BY <1>4, HandleView
  <2>3. QED
    BY <2>1, <2>2, <1>1, PublishRefines DEF Promise!RNext
<1>5. CASE \/ Connect \/ Restart \/ UNCHANGED vars
           \/ (DropStaleResponse /\ UNCHANGED <<client, delegate, counts>>)
           \/ (TakeFrame /\ UNCHANGED <<client, delegate, counts>>)
  BY <1>5, <1>1 DEF Connect, Restart, vars, client, delegate
<1>6. QED
  BY <1>2, <1>3, <1>4, <1>5 DEF Next

(* Publishing through the delegate keeps its promise to the application:    *)
(* the verdict of a call is never contradicted, not even by requests that   *)
(* were given up and come to be executed after it, or after a restart.      *)
THEOREM RemotePublishIsImplemented == Spec => ImplementsRemotePublish
<1>1. Init => Promise!RInit
  <2> SUFFICES ASSUME Init PROVE published = <<>> /\ missed = {} /\ Bar = <<>>
    BY DEF Promise!RInit, Bar
  <2>1. verdict = <<>> /\ published = <<>> /\ missed = {}
    BY DEF Init
  <2>2. 1..Len(verdict) = {}
    BY <2>1
  <2>3. QED
    BY <2>1, <2>2 DEF Bar
<1>2. QED
  BY <1>1, OutcomeHolds, PublishStepImplemented, PTL DEF Spec, ImplementsRemotePublish, Promise!RSpec

-----------------------------------------------------------------------------
(* What a call leaves behind.                                               *)

(* A delegate that was not greeted has no half-done message; nor has one    *)
(* whose answer to the latest HELLO is on its way, and nothing but that     *)
(* HELLO is left of earlier requests.                                       *)
HelloOK ==
  /\ ~ greeted => transfer = NoTransfer
  /\ At("hello") /\ (awaiting # 0 \/ task.tries > 0) =>
       \A rep \in Answers : rep.id = correlation - 1 =>
         transfer = NoTransfer /\ \A f \in Under : Is(f, {"hello"})

(* In a session a half-done message is that of the call under way, or one   *)
(* whose COMMIT was refused.                                                *)
LeftOK ==
  session = "established" =>
    /\ \A f \in Under : Is(f, {"begin"}) =>
         f.request.op = Call /\ task.at \in {"begin", "abort"}
    /\ \/ transfer.op \in {0} \cup withheld
       \/ transfer.op = Call /\ task.at \in {"begin", "chunk", "commit", "abort"}

(* The delegate has the chunks that the task has sent.                      *)
GotOK ==
  /\ transfer.op = Call /\ task.at \in {"chunk", "commit"}
  /\ awaiting = 0 \/ \E f \in Under : f.id = awaiting
  => transfer.got = task.sent

(* The response a call waits for tells it what became of the half-done      *)
(* message.                                                                 *)
DoneOK ==
  awaiting # 0 => \A rep \in Answers :
    rep.id = awaiting /\ transfer.op = Call =>
      /\ At("begin") => rep.result = "ok" /\ transfer.got = 0
      /\ At("chunk") /\ rep.result = "ok" => transfer.got = task.sent + 1
      /\ ~ At("commit")
      /\ At("abort") => rep.result # "ok"

LeftInv == HelloOK /\ LeftOK /\ GotOK /\ DoneOK

(* What may be concluded from a result about the half-done message.         *)
LeftAfter(r) ==
  /\ transfer.op = Call =>
       /\ At("begin") => r \in {"ok", "unknown"} /\ (r = "ok" => transfer.got = 0)
       /\ At("chunk") /\ r = "ok" => transfer.got = task.sent + 1
       /\ At("commit") /\ r # "unknown" => Call \in withheld'
       /\ At("abort") => r # "ok"
  /\ At("hello") /\ r = "ok" =>
       transfer = NoTransfer /\ \A f \in Under : Is(f, {"hello"})
  /\ At("hello") => \A rep \in Answers' : rep.id = correlation' - 1 =>
       transfer = NoTransfer /\ \A f \in Under : Is(f, {"hello"})
  /\ withheld \subseteq withheld'

LEMMA LeftView ==
  ASSUME OutcomeInv, LeftInv, NEW r, EndsWith(r)
  PROVE  LeftAfter(r)
<1> /\ Types /\ IdsOK /\ CallOK /\ HelloOK /\ DoneOK
  BY DEF OutcomeInv, LeftInv
<1>1. correlation \in Nat /\ correlation > 0 /\ awaiting \in {0, correlation - 1}
  BY DEF Types, TypeOK
<1>2. "refused" \notin {"ok", "unknown"} /\ "unknown" # "ok" /\ "unknown" \notin Errors
  BY DEF Errors
<1>3. Answers' \subseteq Answers
  BY EndView DEF Ended
<1>4. CASE r = "refused" /\ RequestRefused
  <2>1. /\ awaiting = 0 /\ TakeId(Again)
        /\ withheld' = IF At("commit") THEN withheld \cup {Call} ELSE withheld
    BY <1>4 DEF RequestRefused, Refuse
  <2>2. At("begin") => transfer.op # Call
    BY <2>1 DEF CallOK, At, Opening
  <2>3. At("hello") => \A rep \in Answers' : rep.id = correlation' - 1 =>
          transfer = NoTransfer /\ \A f \in Under : Is(f, {"hello"})
    <3>1. CASE Again
      BY <3>1, <2>1, <1>3 DEF HelloOK, Again, TakeId
    <3>2. CASE ~ Again
      <4>1. PICK next \in Nat : correlation' = next /\ next = correlation + 1
        BY <3>2, <2>1, <1>1 DEF TakeId
      <4>2. \A rep \in Answers' : rep.id # next - 1
        BY <4>1, <1>1, <1>3 DEF IdsOK
      <4>3. QED
        BY <4>1, <4>2
    <3>3. QED
      BY <3>1, <3>2
  <2>4. QED
    BY <2>1, <2>2, <2>3, <1>2, <1>4 DEF LeftAfter, At
<1>5. CASE \/ (r \in Errors \cup {"ok"} /\ Answered(r) /\ UNCHANGED <<delegate, counts>>)
           \/ (r = "unknown" /\ RequestTimesOut)
  <2>1. awaiting # 0 /\ correlation' = correlation /\ withheld' = withheld
    BY <1>5 DEF Answered, RequestTimesOut, Expired, counts
  <2>2. awaiting = correlation - 1
    BY <2>1, <1>1
  <2>3. At("hello") => \A rep \in Answers : rep.id = awaiting =>
          transfer = NoTransfer /\ \A f \in Under : Is(f, {"hello"})
    BY <2>1, <2>2 DEF HelloOK
  <2>4. r # "unknown" => \E rep \in Answers : rep.id = awaiting /\ rep.result = r
    <3>1. ASSUME r \in Errors \cup {"ok"}, Answered(r)
          PROVE  \E rep \in Answers : rep.id = awaiting /\ rep.result = r
      <4>1. /\ replies # <<>> /\ replies \in Seq(Reply)
            /\ Head(replies).id = awaiting /\ r = Head(replies).result
        BY <3>1 DEF Answered, Types
      <4>2. 1 \in DOMAIN replies /\ Head(replies) = replies[1]
        BY <4>1, HeadTailProperties
      <4>3. QED
        BY <4>1, <4>2 DEF Answers
    <3>2. QED
      BY <3>1, <1>5
  <2>5. CASE r = "unknown"
    BY <2>1, <2>2, <2>3, <2>5, <1>2, <1>3 DEF LeftAfter
  <2>6. CASE r # "unknown"
    <3>1. PICK rep \in Answers : rep.id = awaiting /\ rep.result = r
      BY <2>4, <2>6
    <3>2. transfer.op = Call =>
            /\ At("begin") => r = "ok" /\ transfer.got = 0
            /\ At("chunk") /\ r = "ok" => transfer.got = task.sent + 1
            /\ ~ At("commit")
            /\ At("abort") => r # "ok"
      BY <3>1, <2>1 DEF DoneOK
    <3>3. At("hello") => transfer = NoTransfer /\ \A f \in Under : Is(f, {"hello"})
      BY <3>1, <2>3
    <3>4. QED
      BY <3>2, <3>3, <2>1 DEF LeftAfter
  <2>7. QED
    BY <2>5, <2>6
<1>6. QED
  BY <1>4, <1>5 DEF EndsWith

(* What the task does with a result.                                        *)
LEMMA LeftResult ==
  ASSUME OutcomeInv, LeftInv, NEW r, EndsWith(r)
  PROVE  LeftInv'
<1> /\ Types /\ CallOK /\ HelloOK /\ LeftOK
  BY DEF OutcomeInv, LeftInv
<1>1. /\ Ended /\ ResultOK(r) /\ Result(r) /\ LeftAfter(r) /\ Call' = Call
      /\ UNCHANGED <<greeted, transfer>> /\ Under' = Under /\ awaiting' = 0
      /\ withheld \subseteq withheld' /\ withheld' \subseteq 1..MaxCalls
  BY EndView, LeftView, ResultStep DEF Ended, delegate, LeftAfter
<1>2. DoneOK'
  BY <1>1 DEF DoneOK
<1>3. task.sent \in 0..Chunks /\ task.tries \in 0..HelloRetries /\ (~ At("hello") => task.tries = 0)
      /\ task \in [at : Requests \cup {"idle"}, sent : 0..Chunks, tries : 0..HelloRetries,
                    failure : Errors \cup {"none", "unknown"}]
  BY Bounds DEF Types, TypeOK, OutcomeInv, IdsOK
<1>4. /\ Idle.at = "idle" /\ Idle.tries = 0
      /\ r \in Errors \cup {"ok", "unknown"} /\ "unknown" \notin Errors /\ "ok" \notin Errors
  BY <1>1 DEF Idle, ResultOK, Errors
<1>5. ~ greeted' => transfer' = NoTransfer
  BY <1>1 DEF HelloOK
(* The call returns in a session that goes on.                              *)
<1>6. ASSUME task' = Idle,
             session' = "established" =>
               /\ \A f \in Under : ~ Is(f, {"begin"})
               /\ transfer.op \in {0} \cup withheld'
      PROVE  LeftInv'
  <2>1. task'.at = "idle" /\ task'.tries = 0
    BY <1>4, <1>6
  <2>2. HelloOK'
    BY <2>1, <1>5 DEF HelloOK, At
  <2>3. LeftOK'
    BY <1>1, <1>6 DEF LeftOK, Is
  <2>4. GotOK'
    BY <2>1 DEF GotOK
  <2>5. QED
    BY <2>2, <2>3, <2>4, <1>2 DEF LeftInv
(* The call goes on.                                                        *)
<1>7. ASSUME task'.at \in {"chunk", "commit", "abort"}, session' = session,
             \A f \in Under : Is(f, {"begin"}) => task'.at = "abort",
             transfer.op = Call /\ task'.at # "abort" => transfer.got = task'.sent
      PROVE  LeftInv'
  <2>1. HelloOK'
    BY <1>5, <1>7 DEF HelloOK, At
  <2>2. LeftOK'
    BY <1>1, <1>7 DEF LeftOK, Is
  <2>3. GotOK'
    BY <1>1, <1>7 DEF GotOK
  <2>4. QED
    BY <2>1, <2>2, <2>3, <1>2 DEF LeftInv
<1>8. CASE AfterInline(r)
  <2>1. At("inline") /\ task' = Idle /\ session' = session
    BY <1>8 DEF AfterInline, Return
  <2>2. session' = "established" =>
          /\ \A f \in Under : ~ Is(f, {"begin"})
          /\ transfer.op \in {0} \cup withheld'
    BY <2>1, <1>1 DEF LeftOK, At
  <2>3. QED
    BY <2>1, <2>2, <1>6
<1>9. CASE AfterBegin(r)
  <2>1. At("begin") /\ session' = session /\ InCall
    BY <1>9 DEF AfterBegin, At, InCall
  <2>2. CASE r = "ok" /\ Go("chunk")
    <3>1. task'.at = "chunk" /\ task'.sent = 0
      BY <2>1, <2>2, <1>3 DEF Go, CallOK
    <3>2. Under = {} /\ (transfer.op = Call => transfer.got = 0)
      BY <2>1, <2>2, <1>1 DEF ResultOK, LeftAfter
    <3>3. QED
      BY <2>1, <3>1, <3>2, <1>7
  <2>3. CASE task' = [task EXCEPT !.at = "abort", !.failure = "unknown"]
    <3>1. task'.at = "abort"
      BY <2>3, <1>3
    <3>2. QED
      BY <2>1, <3>1, <1>7
  <2>4. CASE r \in Errors /\ Return(r)
    <3>1. transfer.op # Call /\ \A f \in Under : f.request.op # Call
      BY <2>1, <2>4, <1>1, <1>4 DEF LeftAfter, ResultOK, At, Deciding, Opening
    <3>2. session' = "established" =>
            /\ \A f \in Under : ~ Is(f, {"begin"})
            /\ transfer.op \in {0} \cup withheld'
      BY <2>1, <3>1, <1>1 DEF LeftOK
    <3>3. task' = Idle
      BY <2>4 DEF Return
    <3>4. QED
      BY <3>2, <3>3, <1>6
  <2>5. QED
    BY <2>2, <2>3, <2>4, <1>9 DEF AfterBegin
<1>10. CASE AfterChunk(r)
  <2>1. /\ At("chunk") /\ session' = session /\ InCall
        /\ \A f \in Under : ~ Is(f, {"begin"})
    BY <1>10 DEF AfterChunk, At, InCall, CallOK, LeftOK
  <2>2. transfer.op = Call /\ r = "ok" => transfer.got = task.sent + 1
    BY <2>1, <1>1 DEF LeftAfter
  <2>3. CASE task' = [task EXCEPT !.at = "abort", !.failure = r]
    <3>1. task'.at = "abort"
      BY <2>3, <1>3
    <3>2. QED
      BY <2>1, <3>1, <1>7
  <2>4. CASE r = "ok" /\ task' = [task EXCEPT !.sent = @ + 1]
    <3>1. task'.at = "chunk" /\ task'.sent = task.sent + 1
      BY <2>1, <2>4, <1>3 DEF At
    <3>2. QED
      BY <2>1, <2>2, <2>4, <3>1, <1>7
  <2>5. CASE r = "ok" /\ task.sent + 1 = Chunks /\ task' = [task EXCEPT !.sent = Chunks, !.at = "commit"]
    <3>1. task'.at = "commit" /\ task'.sent = task.sent + 1
      BY <2>1, <2>5, <1>3 DEF At
    <3>2. QED
      BY <2>1, <2>2, <2>5, <3>1, <1>7
  <2>6. QED
    BY <2>3, <2>4, <2>5, <1>10 DEF AfterChunk
<1>11. CASE AfterCommit(r)
  <2>1. /\ At("commit") /\ session' = session /\ session = "established"
        /\ \A f \in Under : ~ Is(f, {"begin"})
    BY <1>11 DEF AfterCommit, At, InCall, CallOK, LeftOK
  <2>2. CASE r = "unknown"
    <3>1. task'.at = "abort"
      BY <2>2, <1>3, <1>11 DEF AfterCommit
    <3>2. QED
      BY <2>1, <3>1, <1>7
  <2>3. CASE r # "unknown"
    <3>1. task' = Idle
      BY <2>3, <1>11 DEF AfterCommit, Return
    <3>2. transfer.op = Call => Call \in withheld'
      BY <2>1, <2>3, <1>1 DEF LeftAfter
    <3>3. transfer.op \in {0} \cup withheld'
      BY <2>1, <3>2, <1>1 DEF LeftOK
    <3>4. QED
      BY <2>1, <3>1, <3>3, <1>6
  <2>4. QED
    BY <2>2, <2>3
<1>12. CASE AfterAbort(r)
  <2>1. At("abort") /\ task' = Idle
    BY <1>12 DEF AfterAbort, Return
  <2>2. CASE r = "ok"
    <3>1. Under = {} /\ transfer.op # Call /\ session' = session
      BY <2>1, <2>2, <1>1, <1>12 DEF ResultOK, LeftAfter, AfterAbort, InCall, At
    <3>2. session = "established" => transfer.op \in {0} \cup withheld'
      BY <3>1, <1>1 DEF LeftOK
    <3>3. QED
      BY <2>1, <3>1, <3>2, <1>6
  <2>3. CASE r # "ok"
    <3>1. session' # "established"
      BY <2>3, <1>12 DEF AfterAbort
    <3>2. QED
      BY <2>1, <3>1, <1>6
  <2>4. QED
    BY <2>2, <2>3
<1>13. CASE AfterHello(r)
  <2>1. At("hello")
    BY <1>13 DEF AfterHello
  <2>2. CASE r = "ok" /\ task' = Idle
    <3>1. transfer = NoTransfer /\ \A f \in Under : Is(f, {"hello"})
      BY <2>1, <2>2, <1>1 DEF LeftAfter
    <3>2. transfer.op \in {0} \cup withheld' /\ \A f \in Under : ~ Is(f, {"begin"})
      BY <3>1 DEF NoTransfer, Is
    <3>3. QED
      BY <2>2, <3>2, <1>6
  <2>3. CASE session' = session /\ task' = [task EXCEPT !.tries = @ + 1]
    <3>1. At("hello")' /\ ~ InCall
      BY <2>1, <2>3, <1>3 DEF At, InCall
    <3>2. HelloOK'
      BY <2>1, <3>1, <1>1, <1>5 DEF HelloOK, LeftAfter, Is
    <3>3. LeftOK'
      <4>1. task.at \notin {"begin", "chunk", "commit", "abort"}
        BY <2>1 DEF At
      <4>2. QED
        BY <4>1, <2>3, <1>1 DEF LeftOK, Is
    <3>4. GotOK'
      BY <3>1 DEF GotOK, At
    <3>5. QED
      BY <3>2, <3>3, <3>4, <1>2 DEF LeftInv
  <2>4. CASE session' = "reset" /\ task' = Idle
    BY <2>4, <1>6
  <2>5. QED
    BY <2>2, <2>3, <2>4, <1>13 DEF AfterHello
<1>14. QED
  BY <1>1, <1>8, <1>9, <1>10, <1>11, <1>12, <1>13 DEF Result

(* The link, and a restart of the delegate.                                 *)
LEMMA LeftLink ==
  ASSUME OutcomeInv, LeftInv,
         \/ (DropStaleResponse /\ UNCHANGED <<client, delegate, counts>>)
         \/ (TakeFrame /\ UNCHANGED <<client, delegate, counts>>)
         \/ UNCHANGED vars
  PROVE  LeftInv'
<1>1. /\ Under' \subseteq Under /\ Answers' \subseteq Answers
      /\ UNCHANGED <<session, task, verdict, greeted, transfer, correlation, awaiting, withheld>>
  BY LinkStep DEF client, delegate
<1>2. Call' = Call
  BY <1>1 DEF Call
<1>3. HelloOK' /\ LeftOK' /\ GotOK' /\ DoneOK'
  BY <1>1, <1>2 DEF LeftInv, HelloOK, LeftOK, GotOK, DoneOK, Is, At
<1>4. QED
  BY <1>3 DEF LeftInv

LEMMA LeftRestart ==
  ASSUME OutcomeInv, LeftInv, Restart
  PROVE  LeftInv'
<1>1. /\ Under' = {} /\ transfer' = NoTransfer /\ transfer'.op = 0
      /\ UNCHANGED <<session, task, verdict, withheld>>
  BY RestartStep DEF Restart, client, NoTransfer
<1>2. Call' = Call /\ (InCall => Call # 0)
  BY <1>1 DEF Call, OutcomeInv, CallOK
<1>3. HelloOK' /\ LeftOK'
  BY <1>1 DEF HelloOK, LeftOK
<1>4. GotOK'
  BY <1>1, <1>2 DEF GotOK, InCall
<1>5. DoneOK'
  BY <1>1, <1>2 DEF DoneOK, InCall, At
<1>6. QED
  BY <1>3, <1>4, <1>5 DEF LeftInv

(* A request goes on the link.                                              *)
LEMMA LeftSend ==
  ASSUME OutcomeInv, LeftInv, SendRequest
  PROVE  LeftInv'
<1> /\ Types /\ InOrder /\ IdsOK /\ SentOK /\ HelloOK /\ LeftOK /\ GotOK
  BY DEF OutcomeInv, LeftInv
<1>1. /\ UNCHANGED <<session, task, verdict, greeted, transfer, withheld>> /\ ~ At("idle")
  BY DEF SendRequest, client, delegate, counts
<1>2. Call' = Call
  BY <1>1 DEF Call
<1>3. PICK new \in Frame :
        /\ new.id = awaiting' /\ new.request = Request /\ awaiting = 0
        /\ awaiting' \in Nat /\ awaiting' > 0 /\ awaiting' = correlation' - 1
        /\ correlation' \in Nat /\ correlation' >= correlation
        /\ Again => correlation' = correlation
        /\ ~ Again => correlation' = correlation + 1
        /\ \A f \in Under' : f \in Under \/ f = new
        /\ Answers' = Answers /\ InOrder'
        /\ frames' \in Seq(Frame) /\ Len(frames') <= FrameQueue
  BY SentView
<1>4. new.request.kind = task.at /\ new.request.op = Call
  BY <1>1, <1>3, RequestFrame
<1>5. \A rep \in Answers' : rep.id = awaiting' =>
        /\ Again /\ At("hello")
        /\ transfer = NoTransfer /\ \A f \in Under : Is(f, {"hello"})
  <2> SUFFICES ASSUME NEW rep \in Answers', rep.id = awaiting'
               PROVE  /\ Again /\ At("hello")
                      /\ transfer = NoTransfer /\ \A f \in Under : Is(f, {"hello"})
    OBVIOUS
  <2>1. correlation \in Nat /\ rep \in Answers /\ rep.id \in 1..(correlation - 1)
    BY <1>3 DEF Types, TypeOK, IdsOK
  <2>2. Again
    <3>1. CASE ~ Again
      <4>1. PICK next \in Nat : correlation' = next /\ next = correlation + 1
        BY <3>1, <2>1, <1>3
      <4>2. rep.id = correlation
        BY <4>1, <2>1, <1>3
      <4>3. QED
        BY <4>2, <2>1
    <3>2. QED
      BY <3>1
  <2>3. At("hello") /\ rep.id = correlation - 1
    BY <2>2, <1>3 DEF IdsOK, Again
  <2>4. QED
    BY <2>1, <2>2, <2>3 DEF HelloOK, Again
<1>6. HelloOK'
  <2>1. ~ greeted' => transfer' = NoTransfer
    BY <1>1 DEF HelloOK
  <2>2. \A rep \in Answers' : rep.id = correlation' - 1 =>
          transfer' = NoTransfer /\ \A f \in Under' : Is(f, {"hello"})
    BY <1>1, <1>3, <1>4, <1>5 DEF Is, At
  <2>3. QED
    BY <2>1, <2>2 DEF HelloOK, Is
<1>7. LeftOK'
  BY <1>1, <1>2, <1>3, <1>4 DEF LeftOK, Is
<1>8. GotOK'
  BY <1>1, <1>2, <1>3 DEF GotOK
<1>9. DoneOK'
  BY <1>1, <1>5 DEF DoneOK, At
<1>10. QED
  BY <1>6, <1>7, <1>8, <1>9 DEF LeftInv

(* The application calls.                                                   *)
LEMMA LeftCall ==
  ASSUME OutcomeInv, LeftInv,
         Connect \/ PublishNotReady \/ StartPublish("inline") \/ StartPublish("begin")
  PROVE  LeftInv'
<1> /\ Types /\ IdsOK /\ HelloOK /\ LeftOK
  BY DEF OutcomeInv, LeftInv
<1>1. /\ UNCHANGED <<awaiting, frames, bridge, replies, greeted, transfer, withheld>>
      /\ At("idle") /\ awaiting = 0
  BY DEF Connect, PublishNotReady, StartPublish, link, delegate, counts, IdsOK
<1>2. Under' = Under /\ Answers' = Answers
  BY <1>1 DEF Under, Answers
<1>3. DoneOK'
  BY <1>1 DEF DoneOK
<1>4. /\ task'.at \in {"idle", "hello", "inline", "begin"} /\ task'.tries = 0
      /\ session' = "established" => session = "established"
  <2>1. CASE Connect
    <3>1. task' = [Idle EXCEPT !.at = "hello"] /\ session' = "negotiating"
      BY <2>1 DEF Connect
    <3>2. QED
      BY <3>1 DEF Idle
  <2>2. CASE PublishNotReady
    <3>1. task.tries \in Nat /\ ~ (task.tries > 0)
      BY <1>1, Bounds DEF Types, TypeOK, IdsOK, At
    <3>2. QED
      BY <3>1, <2>2, <1>1 DEF PublishNotReady, At
  <2>3. ASSUME NEW form \in Opening, StartPublish(form)
        PROVE  task'.at = form /\ task'.tries = 0 /\ session' = session
    <3>1. task' = [Idle EXCEPT !.at = form] /\ session' = session
      BY <2>3 DEF StartPublish
    <3>2. QED
      BY <3>1 DEF Idle
  <2>4. QED
    BY <2>1, <2>2, <2>3 DEF Opening
<1>5. HelloOK'
  BY <1>1, <1>4 DEF HelloOK
<1>6. LeftOK'
  BY <1>1, <1>2, <1>4 DEF LeftOK, Is, At
<1>7. GotOK'
  BY <1>4 DEF GotOK
<1>8. QED
  BY <1>3, <1>5, <1>6, <1>7 DEF LeftInv

(* The delegate handles a request.                                          *)
LEMMA LeftHandled ==
  ASSUME OutcomeInv, LeftInv, NEW r, Handled(r)
  PROVE  LeftInv'
<1> /\ Types /\ InOrder /\ IdsOK /\ SentOK /\ HalfDoneOK /\ CallOK /\ AnswerOK
    /\ HelloOK /\ LeftOK /\ GotOK /\ DoneOK /\ Moved(r)
  BY DEF OutcomeInv, LeftInv, Handled
<1>1. /\ bridge \in Under
      /\ Under' \subseteq Under /\ \A g \in Under' : Precedes(bridge, g)
      /\ \A rep \in Answers' : rep \in Answers \/ rep = [id |-> bridge.id, result |-> r]
  BY RespondedView DEF Handled, HandledWith
<1>2. /\ UNCHANGED <<session, task, verdict, withheld, correlation, awaiting>> /\ Call' = Call
  BY DEF Handled, HandledWith, client, Respond, Call
<1>3. /\ correlation \in Nat /\ awaiting \in {0, correlation - 1}
      /\ \A f \in Under : f.id \in Nat /\ f.id <= correlation - 1
  BY UnderFrames DEF Types, TypeOK, IdsOK
<1>4. InCall /\ transfer'.op = Call => transfer' # NoTransfer
  <2>1. InCall => Call >= 1 /\ Call \in Nat
    BY CallFacts DEF CallOK
  <2>2. NoTransfer.op = 0
    BY DEF NoTransfer
  <2>3. QED
    BY <2>1, <2>2
(* The request of the task is at the bridge.                                *)
<1>5. ASSUME awaiting # 0 \/ task.tries > 0, bridge.id = correlation - 1
      PROVE  /\ bridge.request.kind = task.at /\ Op = Call /\ bridge.request.chunk = task.sent
             /\ \A kinds : Is(bridge, kinds) <=> task.at \in kinds
  BY <1>1, <1>5 DEF SentOK, Request, Op, Is
<1>6. HelloOK'
  <2>1. ~ greeted' => transfer' = NoTransfer
    BY DEF HelloOK, Moved
  <2>2. ASSUME At("hello"), awaiting # 0 \/ task.tries > 0,
               NEW rep \in Answers', rep.id = correlation - 1
        PROVE  transfer' = NoTransfer /\ \A f \in Under' : Is(f, {"hello"})
    <3>1. Is(bridge, {"hello"}) /\ \A f \in Under' : Is(f, {"hello"})
      <4>1. CASE rep \in Answers
        BY <4>1, <2>2, <1>1 DEF HelloOK
      <4>2. CASE rep = [id |-> bridge.id, result |-> r]
        <5>1. bridge.id = correlation - 1
          BY <4>2, <2>2
        <5>2. \A g \in Under' : ~ (bridge.id < g.id)
          BY <5>1, <1>1, <1>3
        <5>3. QED
          BY <5>1, <5>2, <2>2, <1>1, <1>5 DEF Precedes, At
      <4>3. QED
        BY <4>1, <4>2, <1>1
    <3>2. QED
      BY <3>1 DEF Moved, Is
  <2>3. QED
    BY <2>1, <2>2, <1>2 DEF HelloOK, At, Is
<1>7. LeftOK'
  <2>1. ASSUME session = "established"
        PROVE  \/ transfer'.op \in {0} \cup withheld
               \/ transfer'.op = Call /\ task.at \in {"begin", "chunk", "commit", "abort"}
    <3>1. CASE transfer' = NoTransfer
      BY <3>1 DEF NoTransfer
    <3>2. CASE transfer'.op = transfer.op
      BY <2>1, <3>2 DEF LeftOK
    <3>3. CASE Is(bridge, {"begin"}) /\ transfer' = [op |-> Op, got |-> 0]
      <4>1. Op = Call /\ task.at \in {"begin", "abort"}
        BY <2>1, <3>3, <1>1 DEF LeftOK, Op
      <4>2. QED
        BY <3>3, <4>1
    <3>4. QED
      BY <3>1, <3>2, <3>3 DEF Moved
  <2>2. QED
    BY <2>1, <1>1, <1>2 DEF LeftOK, Is
<1>8. GotOK'
  <2>1. ASSUME transfer'.op = Call, task.at \in {"chunk", "commit"},
               awaiting = 0 \/ \E f \in Under' : f.id = awaiting
        PROVE  transfer'.got = task.sent
    <3>1. InCall /\ transfer' # NoTransfer
      BY <2>1, <1>4 DEF InCall
    <3>2. CASE transfer' = transfer
      BY <2>1, <3>2, <1>1 DEF GotOK
    <3>3. CASE /\ bridge.request.op = Call
               /\ Is(bridge, {"begin"}) \/ Is(bridge, {"chunk"})
      <4>1. awaiting # 0 /\ bridge.id = awaiting /\ awaiting = correlation - 1
        BY <2>1, <3>3, <1>1, <1>3 DEF CallOK
      <4>2. PICK f \in Under' : f.id = awaiting
        BY <2>1, <4>1
      <4>3. Precedes(bridge, f) /\ f.id \in Nat
        BY <1>1, <1>3
      <4>4. QED
        BY <3>3, <4>1, <4>2, <4>3 DEF Precedes, Is
    <3>4. QED
      BY <2>1, <3>1, <3>2, <3>3 DEF Moved, Op
  <2>2. QED
    BY <2>1, <1>2 DEF GotOK
<1>9. DoneOK'
  <2>1. ASSUME awaiting # 0, NEW rep \in Answers', rep.id = awaiting, transfer'.op = Call, InCall
        PROVE  /\ At("begin") => rep.result = "ok" /\ transfer'.got = 0
               /\ At("chunk") /\ rep.result = "ok" => transfer'.got = task.sent + 1
               /\ ~ At("commit")
               /\ At("abort") => rep.result # "ok"
    <3>1. rep \notin Answers
      BY <2>1, <1>1 DEF AnswerOK, InCall, At
    <3>2. rep.result = r /\ bridge.id = awaiting /\ awaiting = correlation - 1
      BY <2>1, <3>1, <1>1, <1>3
    <3>3. /\ Op = Call /\ bridge.request.chunk = task.sent
          /\ \A kinds : Is(bridge, kinds) <=> task.at \in kinds
      BY <2>1, <3>2, <1>5
    <3>4. transfer' # NoTransfer
      BY <2>1, <1>4
    <3>5. CASE transfer' = transfer
      <4>1. ~ At("begin")
        BY <2>1, <3>3, <3>5, <1>1 DEF HalfDoneOK, Op, At, Opening
      <4>2. At("commit") => FALSE
        <5> SUFFICES ASSUME At("commit") PROVE FALSE
          OBVIOUS
        <5>1. transfer.op = Call /\ task.sent = Chunks
          BY <2>1, <3>5 DEF CallOK
        <5>2. transfer.got = Chunks
          BY <5>1, <3>2, <1>1 DEF GotOK, At
        <5>3. transfer = [op |-> Op, got |-> Chunks]
          BY <5>1, <5>2, <3>3 DEF Types, TypeOK
        <5>4. greeted
          BY <3>4, <3>5 DEF HelloOK
        <5>5. Is(bridge, {"commit"})
          BY <3>3 DEF At
        <5>6. Chunks # 0
          BY Bounds
        <5>7. QED
          BY <5>3, <5>4, <5>5, <5>6, <3>4, <3>5 DEF Moved, Is
      <4>3. At("chunk") \/ At("abort") => rep.result # "ok"
        <5>1. At("chunk") \/ At("abort") =>
                Is(bridge, {"begin", "chunk", "abort"}) /\ ~ Is(bridge, {"begin"})
          BY <3>3 DEF At
        <5>2. Is(bridge, {"chunk"}) => transfer'.got # transfer.got + 1
          BY <3>5 DEF Types, TypeOK
        <5>3. QED
          BY <3>2, <3>4, <3>5, <5>1, <5>2 DEF Moved
      <4>4. QED
        BY <4>1, <4>2, <4>3
    <3>6. CASE Is(bridge, {"begin"}) /\ transfer' = [op |-> Op, got |-> 0] /\ r = "ok"
      BY <3>2, <3>3, <3>6 DEF At
    <3>7. CASE /\ Is(bridge, {"chunk"}) /\ transfer.got = bridge.request.chunk
               /\ transfer'.got = transfer.got + 1
      BY <3>2, <3>3, <3>7 DEF At
    <3>8. QED
      BY <3>4, <3>5, <3>6, <3>7 DEF Moved
  <2>2. ASSUME ~ InCall
        PROVE  ~ At("begin") /\ ~ At("chunk") /\ ~ At("commit") /\ ~ At("abort")
    BY <2>2 DEF InCall, At
  <2>3. QED
    BY <2>1, <2>2, <1>2 DEF DoneOK, At
<1>10. QED
  BY <1>6, <1>7, <1>8, <1>9 DEF LeftInv

LEMMA LeftStep == OutcomeInv /\ LeftInv /\ [Next]_vars => LeftInv'
<1> SUFFICES ASSUME OutcomeInv, LeftInv, [Next]_vars PROVE LeftInv'
  OBVIOUS
<1>1. CASE Connect \/ PublishNotReady \/ StartPublish("inline") \/ StartPublish("begin")
  BY <1>1, LeftCall
<1>2. CASE Controller
  BY <1>2, ControllerView, LeftSend, LeftResult
<1>3. CASE \/ (DropStaleResponse /\ UNCHANGED <<client, delegate, counts>>)
           \/ (TakeFrame /\ UNCHANGED <<client, delegate, counts>>)
           \/ UNCHANGED vars
  BY <1>3, LeftLink
<1>4. CASE Handle
  BY <1>4, HandleView, LeftHandled
<1>5. CASE Restart
  BY <1>5, LeftRestart
<1>6. QED
  BY <1>1, <1>2, <1>3, <1>4, <1>5 DEF Next

(* Between calls of an established session with nothing under way, a half-  *)
(* done message on the delegate is one whose COMMIT the link refused: every *)
(* other way publish_chunked can end, late requests and restarts of the     *)
(* delegate included, leaves the delegate ready for the next large message. *)
THEOREM NothingIsLeftBehind == Spec => []HoldsNothingAfterReturn
<1>1. Init => LeftInv
  <2> SUFFICES ASSUME Init PROVE LeftInv
    OBVIOUS
  <2>1. /\ awaiting = 0 /\ task.at = "idle" /\ task.tries = 0
        /\ transfer = NoTransfer /\ session = "reset"
    BY DEF Init, LinkInit, Idle
  <2>2. QED
    BY <2>1 DEF LeftInv, HelloOK, LeftOK, GotOK, DoneOK, At
<1>2. OutcomeInv /\ LeftInv => HoldsNothingAfterReturn
  BY DEF OutcomeInv, LeftInv, LeftOK, HalfDoneOK, HoldsNothingAfterReturn, At
<1>3. QED
  BY <1>1, <1>2, OutcomeHolds, LeftStep, PTL DEF Spec

-----------------------------------------------------------------------------
(* Subscriptions: the inductive invariant                                   *)

SubFrame == [id : Nat, request : [kind  : {"hello", "subscribe", "unsubscribe"},
                                  topic : Topics \cup {NoTopic}, id : Nat]]
Results  == [status : {"ok", "failed", "notready"}] \cup [status : {"ok"}, boot : Nat]
            \cup [status : {"ok"}, id : Nat, boot : Nat]
SubReply == [id : Nat, result : Results]

SubTask == [at : Calls, slot : Slots \cup {0}, topic : Topics \cup {NoTopic},
            tries : 0..HelloRetries]
SubSlot == [topic : Topics \cup {NoTopic}, id : Nat, next : Nat, active : BOOLEAN,
            boot : Nat]
Event   == [id : Nat, seq : Nat, large : BOOLEAN, topic : Topics]
EventPiece ==
  {e \in [id : Nat, seq : Nat, topic : Topics, boot : Nat, part : Int,
          kind : {"inline", "begin", "chunk", "commit"}] :
     e.kind = "chunk" => e.part < Chunks}
Upcall  == [slot : Slots, seq : Nat, topic : Topics, boots : SUBSET Nat, fresh : BOOLEAN]

LinkTyped ==
  /\ correlation \in Nat /\ correlation > 0 /\ awaiting \in {0, correlation - 1}
  /\ frames \in Seq(SubFrame) /\ Len(frames) <= FrameQueue
  /\ replies \in Seq(SubReply) /\ Len(replies) <= OnTheLink
  /\ bridge = NoFrame \/ bridge \in SubFrame

CallTyped ==
  /\ session \in {"negotiating", "established", "degraded", "reset"}
  /\ task \in SubTask /\ slot \in [Slots -> SubSlot] /\ peerBoot \in Nat

DelegateTyped ==
  /\ boot \in Nat /\ boot > 0 /\ nextId \in Nat /\ nextId > 0 /\ greeted \in BOOLEAN
  /\ table \in [Topics -> [id : Nat, next : Nat]] /\ released \subseteq Nat

EventsTyped ==
  /\ held \in [id : Nat, seq : Nat, got : 0..Chunks, boots : SUBSET Nat]
  /\ inbox \in Seq(EventPiece) /\ Len(inbox) <= EventQueue
  /\ events \in Seq(Event) /\ Len(events) <= EventLimit
  /\ stage \in 0..(Chunks + 1) /\ given \in [Slots -> Nat]
  /\ upcall = NoCall \/ upcall \in Upcall

SubTypes == LinkTyped /\ CallTyped /\ DelegateTyped /\ EventsTyped

(* The latest request was sent, and may still be answered.                  *)
Latest == awaiting # 0 \/ task.tries > 0

(* Nothing is under way that was not sent; the latest request is that of    *)
(* the task; what is to be unsubscribed counts as released.                 *)
RequestsOK ==
  /\ \A f \in Under : f.id \in 1..(correlation - 1)
  /\ \A rep \in Answers : rep.id \in 1..(correlation - 1)
  /\ awaiting # 0 => Exchanging
  /\ task.tries > 0 => At("hello") /\ correlation > 1
  /\ Latest => \A f \in Under : f.id = correlation - 1 => f.request = SubRequest
  /\ \A f \in Under : f.request.kind = "subscribe" => f.request.topic \in Topics
  /\ \A f \in Under : f.request.kind = "unsubscribe" => f.request.id \in released

(* Subscriptions are of a boot of the delegate since the session began,     *)
(* unless they are about to be reset.                                       *)
BootsOK ==
  /\ peerBoot <= boot /\ (session = "established" => peerBoot > 0)
  /\ \A s \in Slots : slot[s].boot <= boot
  /\ peerBoot = 0 => Allocated = {}
  /\ \A s \in Slots : slot[s].active /\ ~ At("reset") => slot[s].boot >= peerBoot

(* The answer to the latest request tells the truth about the delegate, or  *)
(* is of an earlier boot.                                                   *)
AnswersOK ==
  Latest => \A rep \in Answers :
    rep.id = correlation - 1 /\ rep.result.status = "ok" =>
      /\ task.at \in {"hello", "subscribe", "reconcile"} =>
           rep.result.boot \in 1..boot /\ rep.result.boot >= peerBoot
      /\ task.at \in {"subscribe", "reconcile"} =>
           /\ rep.result.id \in Nat \ {0}
           /\ rep.result.boot = boot =>
                rep.result.id \in released \/ table[task.topic].id = rep.result.id

(* What was subscribed to in this boot is in the delegate's table until it  *)
(* is released.                                                             *)
KnownOK ==
  /\ \A s \in Slots : slot[s].active /\ slot[s].boot = boot =>
       slot[s].id \in released \/ table[slot[s].topic].id = slot[s].id
  /\ \A s \in Slots : slot[s].active => slot[s].id # 0
  /\ \A t \in Topics : table[t] # NoSub => table[t].id # 0

(* In a session only a reset or a reconciliation finds inactive             *)
(* subscriptions, and this one in the order of the slots.                   *)
SlotsOK ==
  /\ At("hello") <=> session = "negotiating"
  /\ task.at \in {"reset", "subscribe", "unsubscribe", "reconcile"} =>
       session = "established"
  /\ \A s \in Slots : slot[s].active => s \in Allocated
  /\ session = "established" /\ task.at \in {"idle", "subscribe", "unsubscribe"} =>
       \A s \in Allocated : slot[s].active
  /\ At("subscribe") => task.slot \in Slots \ Allocated /\ task.topic \in Topics
  /\ At("unsubscribe") => task.slot \in Allocated
  /\ At("reconcile") =>
       /\ task.slot \in Allocated /\ task.topic = slot[task.slot].topic
       /\ \A s \in Allocated : s < task.slot => slot[s].active

SubInv == SubTypes /\ RequestsOK /\ BootsOK /\ AnswersOK /\ KnownOK /\ SlotsOK

-----------------------------------------------------------------------------
(* What the types say.                                                      *)

LEMMA SubBounds ==
  /\ SlotCount \in Nat /\ SlotCount > 0 /\ Chunks \in Nat /\ Chunks > 0 /\ HelloRetries \in Nat
  /\ FrameQueue \in Nat /\ FrameQueue > 0 /\ OnTheLink \in Nat /\ OnTheLink > 0
  /\ EventQueue \in Nat /\ EventQueue > 0 /\ EventLimit \in Nat /\ EventLimit > 0
  /\ NoTopic \notin Topics
BY DeliveryAssumption, ExchangeAssumption

LEMMA SlotBounds ==
  /\ Slots \in SUBSET Nat /\ 0 \notin Slots
  /\ \A s \in Slots : s \in Nat /\ s > 0
BY SubBounds DEF Slots

LEMMA SubUnder ==
  ASSUME LinkTyped
  PROVE  /\ \A f \in Under : /\ f \in SubFrame /\ f.id \in Nat /\ f.request.id \in Nat
                             /\ f.request.kind \in {"hello", "subscribe", "unsubscribe"}
         /\ \A rep \in Answers : rep \in SubReply /\ rep.id \in Nat /\ rep.result \in Results
<1>1. \A p \in DOMAIN frames : frames[p] \in SubFrame
  BY ElementOfSeq DEF LinkTyped
<1>2. \A p \in DOMAIN replies : replies[p] \in SubReply
  BY ElementOfSeq DEF LinkTyped
<1>3. \A f \in Under : f \in SubFrame
  BY <1>1 DEF Under, LinkTyped
<1>4. \A rep \in Answers : rep \in SubReply
  BY <1>2 DEF Answers
<1>5. QED
  BY <1>3, <1>4 DEF SubFrame, SubReply

LEMMA SubTypesGive == SubTypes /\ peerBoot <= boot => SubTypeOK
<1> SUFFICES ASSUME SubTypes, peerBoot <= boot PROVE SubTypeOK
  OBVIOUS
<1>1. /\ correlation \in Nat \ {0} /\ awaiting \in 0..correlation
      /\ Len(frames) <= FrameQueue /\ Len(replies) <= OnTheLink
  BY DEF SubTypes, LinkTyped
<1>2. /\ session \in {"negotiating", "established", "degraded", "reset"}
      /\ task \in SubTask /\ slot \in [Slots -> SubSlot]
  BY DEF SubTypes, CallTyped
<1>3. peerBoot \in 0..boot /\ {boot, nextId} \subseteq Nat \ {0}
  BY DEF SubTypes, CallTyped, DelegateTyped
<1>4. greeted \in BOOLEAN /\ table \in [Topics -> [id : Nat, next : Nat]] /\ released \subseteq Nat
  BY DEF SubTypes, DelegateTyped
<1>5. /\ held \in [id : Nat, seq : Nat, got : 0..Chunks, boots : SUBSET Nat]
      /\ Len(inbox) <= EventQueue /\ Len(events) <= EventLimit
      /\ stage \in 0..(Chunks + 1) /\ given \in [Slots -> Nat]
  BY DEF SubTypes, EventsTyped
<1>6. QED
  BY <1>1, <1>2, <1>3, <1>4, <1>5 DEF SubTypeOK, SubTask, SubSlot

(* A set of natural numbers that has a member has a least one.              *)
LEMMA LeastOf ==
  ASSUME NEW T \in SUBSET Nat, T # {}
  PROVE  Min(T) \in T /\ \A m \in T : Min(T) <= m
<1> DEFINE R == OpToRel(<, Nat)
<1>1. PICK n \in T : \A m \in T : ~ (<<m, n>> \in R)
  <2> HIDE DEF R
  <2>1. QED
    BY NatLessThanWellFounded, WFMin, Zenon DEF R
<1>2. \A m \in T : ~ (m < n)
  BY <1>1 DEF OpToRel
<1>3. \E x \in T : \A y \in T : x =< y
  BY <1>2
<1>4. QED
  BY <1>3, Zenon DEF Min

(* The subscription that is subscribed to next.                             *)
LEMMA ReconcileView ==
  ASSUME NEW subscriptions, NEW after \in Nat, Reconcile(subscriptions, after)
  PROVE  \/ /\ task' = SubIdle
            /\ \A s \in Slots : s > after /\ subscriptions[s].topic # NoTopic =>
                 subscriptions[s].active
         \/ \E next \in Slots :
            /\ task' = [SubIdle EXCEPT !.at = "reconcile", !.slot = next,
                                       !.topic = subscriptions[next].topic]
            /\ next > after /\ subscriptions[next].topic # NoTopic
            /\ \A s \in Slots : s > after /\ s < next /\ subscriptions[s].topic # NoTopic =>
                 subscriptions[s].active
<1> DEFINE todo == {s \in Slots : /\ s > after /\ subscriptions[s].topic # NoTopic
                                  /\ ~ subscriptions[s].active}
<1>1. task' = IF todo = {} THEN SubIdle
              ELSE [SubIdle EXCEPT !.at = "reconcile", !.slot = Min(todo),
                                   !.topic = subscriptions[Min(todo)].topic]
  BY DEF Reconcile
<1>2. CASE todo = {}
  BY <1>1, <1>2
<1>3. CASE todo # {}
  <2>1. todo \in SUBSET Nat
    BY SlotBounds
  <2>2. Min(todo) \in todo /\ \A m \in todo : Min(todo) <= m
    BY <1>3, <2>1, LeastOf
  <2>3. PICK next \in todo : next = Min(todo)
    BY <2>2
  <2>4. /\ next \in Slots /\ next > after /\ subscriptions[next].topic # NoTopic
        /\ \A m \in todo : next <= m
    BY <2>2, <2>3
  <2>5. \A s \in Slots : s > after /\ s < next /\ subscriptions[s].topic # NoTopic =>
          subscriptions[s].active
    BY <2>4, SlotBounds
  <2>6. task' = [SubIdle EXCEPT !.at = "reconcile", !.slot = next,
                                !.topic = subscriptions[next].topic]
    BY <1>1, <1>3, <2>3
  <2>7. QED
    BY <2>4, <2>5, <2>6
<1>4. QED
  BY <1>2, <1>3

LEMMA SubTasks ==
  /\ SubIdle \in SubTask /\ SubIdle.at = "idle" /\ SubIdle.tries = 0
  /\ \A call \in Calls, s \in Slots \cup {0}, t \in Topics \cup {NoTopic} :
       LET k == [SubIdle EXCEPT !.at = call, !.slot = s, !.topic = t]
       IN k \in SubTask /\ k.at = call /\ k.slot = s /\ k.topic = t /\ k.tries = 0
<1>1. 0 \in 0..HelloRetries /\ 0 \in Slots \cup {0} /\ NoTopic \in Topics \cup {NoTopic}
  BY SubBounds
<1>2. "idle" \in Calls
  BY DEF Calls
<1>3. QED
  BY <1>1, <1>2 DEF SubIdle, SubTask

(* What the link, the event task and messages do to subscriptions.          *)
LEMMA SubQuiet ==
  ASSUME SubInv, SubTypes', Under' \subseteq Under, Answers' \subseteq Answers,
         UNCHANGED <<correlation, awaiting, session, peerBoot, task, boot, released>>,
         \A s \in Slots : /\ slot'[s].topic = slot[s].topic /\ slot'[s].id = slot[s].id
                          /\ slot'[s].active = slot[s].active /\ slot'[s].boot = slot[s].boot,
         \A t \in Topics : /\ table'[t].id = table[t].id
                           /\ table'[t] # NoSub => table[t] # NoSub
  PROVE  SubInv'
<1> /\ SubTypes /\ RequestsOK /\ BootsOK /\ AnswersOK /\ KnownOK /\ SlotsOK
  BY DEF SubInv
<1>1. Allocated' = Allocated
  BY DEF Allocated
<1>2. \A s \in Allocated : s \in Slots /\ slot[s].topic \in Topics
  BY DEF Allocated, SubTypes, CallTyped, SubSlot
<1>3. SubRequest' = SubRequest
  BY <1>2 DEF SubRequest, At, SlotsOK
<1>4. RequestsOK'
  BY <1>3 DEF RequestsOK, Latest, Exchanging, At
<1>5. BootsOK' /\ SlotsOK'
  BY <1>1, <1>2 DEF BootsOK, SlotsOK, At
<1>6. task.at \in {"subscribe", "reconcile"} => task.topic \in Topics
  BY <1>2 DEF SlotsOK, At
<1>7. AnswersOK'
  <2>1. task.at \in {"subscribe", "reconcile"} => table'[task.topic].id = table[task.topic].id
    BY <1>6
  <2>2. Latest' <=> Latest
    BY DEF Latest
  <2>3. QED
    BY <2>1, <2>2 DEF AnswersOK
<1>8. KnownOK'
  <2>1. \A s \in Slots : slot[s].active => table'[slot[s].topic].id = table[slot[s].topic].id
    BY <1>2 DEF SlotsOK
  <2>2. QED
    BY <2>1 DEF KnownOK
<1>9. QED
  BY <1>4, <1>5, <1>7, <1>8 DEF SubInv

-----------------------------------------------------------------------------
(* Subscriptions: the controller's steps                                    *)

LEMMA SubCallFacts ==
  ASSUME SubTypes, SlotsOK
  PROVE  /\ task.at \in Calls /\ task.topic \in Topics \cup {NoTopic} /\ task.tries \in Nat
         /\ \A s \in Allocated : s \in Slots /\ slot[s].topic \in Topics
         /\ \A s \in Slots : /\ slot[s] \in SubSlot /\ slot[s].topic \in Topics \cup {NoTopic}
                             /\ slot[s].id \in Nat /\ slot[s].boot \in Nat
                             /\ slot[s].active \in BOOLEAN
                             /\ slot[s].active => slot[s].topic \in Topics
         /\ task.at \in {"subscribe", "reconcile"} => task.topic \in Topics /\ task.slot \in Slots
         /\ At("unsubscribe") => task.slot \in Slots
<1>1. \A s \in Slots : /\ slot[s] \in SubSlot /\ slot[s].topic \in Topics \cup {NoTopic}
                       /\ slot[s].id \in Nat /\ slot[s].boot \in Nat /\ slot[s].active \in BOOLEAN
  BY DEF SubTypes, CallTyped, SubSlot
<1>2. \A s \in Allocated : s \in Slots /\ slot[s].topic \in Topics
  BY <1>1 DEF Allocated
<1>3. \A s \in Slots : slot[s].active => slot[s].topic \in Topics
  BY <1>2 DEF SlotsOK
<1>4. task \in SubTask
  BY DEF SubTypes, CallTyped
<1>5. task.at \in Calls /\ task.topic \in Topics \cup {NoTopic} /\ task.tries \in Nat
  BY <1>4, SubBounds DEF SubTask
<1>6. task.at \in {"subscribe", "reconcile"} => task.topic \in Topics /\ task.slot \in Slots
  BY <1>2 DEF SlotsOK, At
<1>7. At("unsubscribe") => task.slot \in Slots
  BY <1>2 DEF SlotsOK, At
<1>8. QED
  BY <1>1, <1>2, <1>3, <1>5, <1>6, <1>7

LEMMA SubRequestFrame ==
  ASSUME SubTypes, SlotsOK, Exchanging
  PROVE  /\ SubRequest \in [kind : {"hello", "subscribe", "unsubscribe"},
                            topic : Topics \cup {NoTopic}, id : Nat]
         /\ SubRequest.kind = "subscribe" => SubRequest.topic \in Topics
         /\ SubRequest.kind = "unsubscribe" <=> At("unsubscribe")
         /\ SubRequest.topic = task.topic
         /\ SubRequest.kind = "hello" <=> At("hello")
         /\ SubRequest.kind = "subscribe" <=> task.at \in {"subscribe", "reconcile"}
<1>1. task.at \in {"hello", "subscribe", "unsubscribe", "reconcile"}
  BY SubCallFacts DEF Exchanging, At, Calls
<1>2. (IF At("unsubscribe") THEN slot[task.slot].id ELSE 0) \in Nat
  BY SubCallFacts
<1>3. QED
  BY <1>1, <1>2, SubCallFacts DEF SubRequest, At

(* Without a request that may still be answered, nothing is to be said of   *)
(* what is under way.                                                       *)
LEMMA SubCallEnds ==
  ASSUME SubInv, SubTypes', awaiting' = 0, task'.tries = 0,
         correlation' >= correlation, Under' = Under, Answers' \subseteq Answers,
         released' = released, BootsOK', KnownOK', SlotsOK'
  PROVE  SubInv'
<1> RequestsOK /\ SubTypes
  BY DEF SubInv
<1>1. correlation \in Nat /\ correlation' \in Nat
  BY DEF SubTypes, LinkTyped
<1>2. ~ (awaiting' # 0) /\ ~ (task'.tries > 0)
  OBVIOUS
<1>3. ~ Latest'
  BY <1>2 DEF Latest
<1>4. \A n \in 1..(correlation - 1) : n \in 1..(correlation' - 1)
  <2>1. PICK c \in Nat : c = correlation'
    BY <1>1
  <2>2. c >= correlation
    BY <2>1
  <2>3. \A n \in 1..(correlation - 1) : n \in 1..(c - 1)
    BY <1>1, <2>2
  <2>4. QED
    BY <2>1, <2>3
<1>5. /\ \A f \in Under' : f.id \in 1..(correlation' - 1)
      /\ \A rep \in Answers' : rep.id \in 1..(correlation' - 1)
  BY <1>4 DEF RequestsOK
<1>6. RequestsOK'
  BY <1>2, <1>3, <1>5 DEF RequestsOK
<1>7. AnswersOK'
  BY <1>3 DEF AnswersOK
<1>8. QED
  BY <1>6, <1>7 DEF SubInv

LEMMA SubCallStep ==
  ASSUME SubInv,
         \/ SubConnect
         \/ \E t \in Topics : Subscribe(t)
         \/ \E s \in Slots : Unsubscribe(s)
  PROVE  SubInv'
<1> /\ SubTypes /\ RequestsOK /\ BootsOK /\ AnswersOK /\ KnownOK /\ SlotsOK
  BY DEF SubInv
<1>1. /\ UNCHANGED <<correlation, awaiting, frames, bridge, replies>>
      /\ UNCHANGED <<peerBoot, slot, held, upcall, inbox, boot, greeted, table, nextId>>
      /\ UNCHANGED <<events, stage, released, given>> /\ At("idle")
  BY DEF SubConnect, Subscribe, Unsubscribe, link, arrivals, registry, outbox
<1>2. /\ Under' = Under /\ Answers' = Answers /\ Allocated' = Allocated
  BY <1>1 DEF Under, Answers, Allocated
<1>3. awaiting' = 0
  BY <1>1 DEF RequestsOK, Exchanging
<1>4. correlation' >= correlation
  BY <1>1 DEF SubTypes, LinkTyped
<1>5. LinkTyped' /\ DelegateTyped' /\ EventsTyped'
  BY <1>1 DEF SubTypes, LinkTyped, DelegateTyped, EventsTyped
<1>6. KnownOK'
  BY <1>1 DEF KnownOK
<1>7. /\ task' \in SubTask /\ task'.tries = 0 /\ task'.at # "idle" /\ task'.at # "reset"
      /\ task'.at # "reconcile"
      /\ \/ session' = "negotiating" /\ task'.at = "hello"
         \/ session' = session /\ session = "established" /\ task'.at = "subscribe"
            /\ task'.slot \in Slots \ Allocated /\ task'.topic \in Topics
         \/ session' = session /\ session = "established" /\ task'.at = "unsubscribe"
            /\ task'.slot \in Allocated
  <2>1. CASE SubConnect
    <3>1. task' = [SubIdle EXCEPT !.at = "hello"] /\ session' = "negotiating"
      BY <2>1 DEF SubConnect
    <3>2. QED
      BY <3>1, SubTasks DEF SubIdle, SubTask, Calls
  <2>2. CASE \E t \in Topics : Subscribe(t)
    <3>1. PICK t \in Topics : Subscribe(t)
      BY <2>2
    <3>2. Slots \ Allocated \in SUBSET Nat /\ Slots \ Allocated # {}
      BY <3>1, SlotBounds DEF Subscribe, Allocated
    <3>3. PICK s \in Slots \ Allocated : s = Min(Slots \ Allocated)
      BY <3>2, LeastOf
    <3>4. /\ task' = [SubIdle EXCEPT !.at = "subscribe", !.slot = s, !.topic = t]
          /\ session' = session /\ session = "established"
      BY <3>1, <3>3 DEF Subscribe, SubIdle
    <3>5. 0 \in 0..HelloRetries
      BY SubBounds
    <3>6. /\ task' \in SubTask /\ task'.tries = 0 /\ task'.at = "subscribe"
          /\ task'.slot = s /\ task'.topic = t
      BY <3>4, <3>5 DEF SubIdle, SubTask, Calls
    <3>7. QED
      BY <3>4, <3>6, <3>3
  <2>3. CASE \E s \in Slots : Unsubscribe(s)
    <3>1. PICK s \in Slots : Unsubscribe(s)
      BY <2>3
    <3>2. /\ task' = [SubIdle EXCEPT !.at = "unsubscribe", !.slot = s]
          /\ session' = session /\ session = "established" /\ s \in Allocated
      BY <3>1 DEF Unsubscribe
    <3>3. task' = [at |-> "unsubscribe", slot |-> s, topic |-> NoTopic, tries |-> 0]
      BY <3>2 DEF SubIdle
    <3>4. 0 \in 0..HelloRetries
      BY SubBounds
    <3>5. task' \in SubTask
      BY <3>3, <3>4 DEF SubTask, Calls
    <3>6. task'.tries = 0 /\ task'.at = "unsubscribe" /\ task'.slot = s
      BY <3>3
    <3>7. QED
      BY <3>2, <3>5, <3>6
  <2>4. QED
    BY <2>1, <2>2, <2>3
<1>8. CallTyped'
  BY <1>1, <1>7 DEF SubTypes, CallTyped
<1>9. BootsOK'
  BY <1>1, <1>2, <1>7 DEF BootsOK, At
<1>10. SlotsOK'
  BY <1>1, <1>2, <1>7 DEF SlotsOK, At
<1>11. SubTypes'
  BY <1>5, <1>8 DEF SubTypes
<1>12. QED
  BY <1>1, <1>2, <1>3, <1>4, <1>6, <1>7, <1>9, <1>10, <1>11, SubCallEnds

LEMMA SubSentView ==
  ASSUME SubInv, SendSubRequest
  PROVE  \E new \in SubFrame :
           /\ new.id = awaiting' /\ new.request = SubRequest /\ awaiting = 0 /\ Exchanging
           /\ awaiting' \in Nat /\ awaiting' > 0 /\ awaiting' = correlation' - 1
           /\ correlation' \in Nat /\ correlation' >= correlation
           /\ Again => correlation' = correlation
           /\ ~ Again => correlation' = correlation + 1
           /\ \A f \in Under' : f \in Under \/ f = new
           /\ Answers' = Answers
           /\ frames' \in Seq(SubFrame) /\ Len(frames') <= FrameQueue
<1> /\ SubTypes /\ RequestsOK /\ SlotsOK
  BY DEF SubInv
<1> DEFINE new == [id |-> Id(Again), request |-> SubRequest]
<1>1. Exchanging /\ Transmit(SubRequest, Again)
  BY DEF SendSubRequest
<1>2. correlation \in Nat /\ correlation > 0 /\ (Again => correlation > 1)
  BY DEF SubTypes, LinkTyped, RequestsOK, Again
<1>3. /\ Id(Again) \in Nat /\ Id(Again) > 0 /\ Id(Again) = correlation' - 1
      /\ correlation' \in Nat /\ correlation' >= correlation
      /\ Again => correlation' = correlation
      /\ ~ Again => correlation' = correlation + 1
  BY <1>1, <1>2 DEF Transmit, TakeId, Id
<1>4. new \in SubFrame
  BY <1>1, <1>3, SubRequestFrame DEF SubFrame
<1>5. frames \in Seq(SubFrame) /\ Len(frames) <= FrameQueue
  BY DEF SubTypes, LinkTyped
<1>6. \/ frames' = frames
      \/ frames' = Append(frames, new) /\ Len(frames) < FrameQueue
  BY <1>1 DEF Transmit
<1>7. /\ frames' \in Seq(SubFrame) /\ Len(frames') <= FrameQueue
      /\ \A p \in DOMAIN frames' :
           \/ p \in DOMAIN frames /\ frames'[p] = frames[p]
           \/ frames'[p] = new
  <2>1. CASE frames' = frames
    BY <2>1, <1>5
  <2>2. CASE frames' = Append(frames, new) /\ Len(frames) < FrameQueue
    BY <2>2, <1>4, <1>5, AppendProperties, SubBounds
  <2>3. QED
    BY <2>1, <2>2, <1>6
<1>8. bridge' = bridge /\ replies' = replies /\ awaiting' = Id(Again) /\ awaiting = 0
  BY <1>1 DEF Transmit
<1>9. \A f \in Under' : f \in Under \/ f = new
  BY <1>7, <1>8 DEF Under
<1>10. Answers' = Answers
  BY <1>8 DEF Answers
<1>11. QED
  BY <1>1, <1>3, <1>4, <1>7, <1>8, <1>9, <1>10

LEMMA SubSendStep ==
  ASSUME SubInv, SendSubRequest
  PROVE  SubInv'
<1> /\ SubTypes /\ RequestsOK /\ BootsOK /\ AnswersOK /\ KnownOK /\ SlotsOK
  BY DEF SubInv
<1>1. PICK new \in SubFrame :
        /\ new.id = awaiting' /\ new.request = SubRequest /\ awaiting = 0 /\ Exchanging
        /\ awaiting' \in Nat /\ awaiting' > 0 /\ awaiting' = correlation' - 1
        /\ correlation' \in Nat /\ correlation' >= correlation
        /\ Again => correlation' = correlation
        /\ ~ Again => correlation' = correlation + 1
        /\ \A f \in Under' : f \in Under \/ f = new
        /\ Answers' = Answers
        /\ frames' \in Seq(SubFrame) /\ Len(frames') <= FrameQueue
  BY SubSentView
<1>2. /\ UNCHANGED <<session, peerBoot, task, slot, held, upcall, inbox, boot, greeted>>
      /\ UNCHANGED <<table, nextId, events, stage, given, bridge, replies>>
      /\ released' = IF At("unsubscribe") THEN released \cup {SubRequest.id} ELSE released
  BY DEF SendSubRequest, Transmit, subscriber, arrivals, registry, outbox
<1>3. SubRequest' = SubRequest /\ Allocated' = Allocated
  BY <1>2 DEF SubRequest, Allocated, At
<1>4. released \subseteq released' /\ (At("unsubscribe") => SubRequest.id \in released')
  BY <1>2
<1>5. SubRequest \in [kind : {"hello", "subscribe", "unsubscribe"},
                      topic : Topics \cup {NoTopic}, id : Nat]
  BY <1>1, SubRequestFrame
<1>6. LinkTyped'
  BY <1>1, <1>2 DEF SubTypes, LinkTyped
<1>7. CallTyped' /\ EventsTyped'
  BY <1>2 DEF SubTypes, CallTyped, EventsTyped
<1>8. released' \subseteq Nat
  BY <1>2, <1>5 DEF SubTypes, DelegateTyped
<1>9. SubTypes'
  BY <1>2, <1>6, <1>7, <1>8 DEF SubTypes, DelegateTyped
<1>10. PICK c \in Nat : c = correlation'
  BY <1>1
<1>11. correlation \in Nat
  BY DEF SubTypes, LinkTyped
<1>12. \A f \in Under : f.id \in 1..(correlation - 1)
  BY DEF RequestsOK
<1>13. /\ \A f \in Under' : f.id \in 1..(c - 1)
       /\ \A rep \in Answers' : rep.id \in 1..(c - 1)
  <2>1. c >= correlation
    BY <1>1, <1>10, Zenon
  <2>2. new.id = c - 1 /\ new.id > 0
    BY <1>1, <1>10, Zenon
  <2>3. c >= correlation /\ new.id \in 1..(c - 1)
    BY <2>1, <2>2
  <2>4. \A n \in 1..(correlation - 1) : n \in 1..(c - 1)
    BY <2>1, <1>11
  <2>5. QED
    BY <1>1, <1>12, <2>3, <2>4 DEF RequestsOK
<1>14. \A f \in Under' : f.id = c - 1 => f.request = SubRequest
  <2> SUFFICES ASSUME NEW f \in Under', f.id = c - 1 PROVE f.request = SubRequest
    OBVIOUS
  <2>1. CASE f = new
    BY <2>1, <1>1
  <2>2. CASE f \in Under /\ ~ Again
    BY <2>2, <1>1, <1>10, <1>11, <1>12
  <2>3. CASE f \in Under /\ Again
    BY <2>3, <1>1, <1>10 DEF RequestsOK, Latest, Again
  <2>4. QED
    BY <2>1, <2>2, <2>3, <1>1
<1>15. \A f \in Under' :
         /\ f.request.kind = "subscribe" => f.request.topic \in Topics
         /\ f.request.kind = "unsubscribe" => f.request.id \in released'
  <2>1. /\ new.request.kind = "subscribe" => new.request.topic \in Topics
        /\ new.request.kind = "unsubscribe" => new.request.id \in released'
    BY <1>1, <1>4, SubRequestFrame
  <2>2. QED
    BY <2>1, <1>1, <1>4 DEF RequestsOK
<1>16. task.tries > 0 => At("hello") /\ c > 1
  BY <1>1, <1>10, <1>11 DEF RequestsOK
<1>17. RequestsOK'
  BY <1>1, <1>2, <1>3, <1>10, <1>13, <1>14, <1>15, <1>16 DEF RequestsOK, Latest, Exchanging, At
<1>18. BootsOK' /\ SlotsOK'
  BY <1>2, <1>3 DEF BootsOK, SlotsOK, At
<1>19. KnownOK'
  BY <1>2, <1>4 DEF KnownOK
<1>20. AnswersOK'
  <2>1. CASE Again
    <3>1. Latest /\ correlation' = correlation
      BY <2>1, <1>1 DEF Latest, Again
    <3>2. QED
      BY <3>1, <1>1, <1>2, <1>4 DEF AnswersOK
  <2>2. CASE ~ Again
    <3>1. correlation' = correlation + 1
      BY <2>2, <1>1
    <3>2. \A rep \in Answers : rep.id # correlation' - 1
      BY <3>1, <1>11 DEF RequestsOK
    <3>3. QED
      BY <3>2, <1>1 DEF AnswersOK
  <2>3. QED
    BY <2>1, <2>2
<1>21. QED
  BY <1>9, <1>17, <1>18, <1>19, <1>20 DEF SubInv

(* What the latest request was answered with, if all is well.               *)
Awaited == {rep.result : rep \in {x \in Answers : /\ awaiting # 0 /\ x.id = awaiting
                                                 /\ x.result.status = "ok"}}

(* What the end of an exchange says, and what it leaves alone.              *)
Truthful(r) ==
  r.status = "ok" =>
    /\ task.at \in {"hello", "subscribe", "reconcile"} =>
         r.boot \in 1..boot /\ r.boot >= peerBoot
    /\ task.at \in {"subscribe", "reconcile"} =>
         /\ r.id \in Nat \ {0}
         /\ r.boot = boot => r.id \in released \/ table[task.topic].id = r.id

EndWith(r) ==
  /\ SubResult(r) /\ Truthful(r) /\ Exchanging
  /\ r.status = "ok" => r \in Awaited
  /\ awaiting' = 0 /\ correlation' >= correlation
  /\ \/ Latest /\ correlation' = correlation
     \/ ~ Latest /\ correlation' = correlation + 1
  /\ Under' = Under /\ Answers' \subseteq Answers /\ LinkTyped'
  /\ UNCHANGED <<boot, greeted, table, nextId, events, stage, released, inbox>>

LEMMA SubEndView ==
  ASSUME SubInv, SubRequestRefused \/ SubRequestAnswered \/ SubRequestTimesOut
  PROVE  \E r : EndWith(r)
<1> /\ SubTypes /\ RequestsOK /\ AnswersOK /\ SlotsOK
  BY DEF SubInv
<1>1. /\ correlation \in Nat /\ correlation > 0 /\ awaiting \in {0, correlation - 1}
      /\ replies \in Seq(SubReply) /\ Len(replies) <= OnTheLink
  BY DEF SubTypes, LinkTyped
<1>2. CASE SubRequestRefused
  <2>1. /\ Exchanging /\ Refuse(Again) /\ SubResult([status |-> "refused"])
        /\ UNCHANGED <<registry, outbox, released, used>>
    BY <1>2 DEF SubRequestRefused
  <2>2. UNCHANGED <<boot, greeted, table, nextId, events, stage, released, inbox>>
    BY <2>1 DEF registry, outbox, SubResult
  <2>3. /\ awaiting = 0 /\ UNCHANGED <<awaiting, frames, bridge, replies>>
        /\ correlation' = IF Again THEN correlation ELSE correlation + 1
    BY <2>1 DEF Refuse, TakeId
  <2>4. \/ Latest /\ correlation' = correlation
        \/ ~ Latest /\ correlation' = correlation + 1
    BY <2>3 DEF Latest, Again
  <2>5. /\ correlation' >= correlation /\ correlation' \in Nat /\ correlation' > 0
        /\ awaiting' = 0 /\ Under' = Under /\ Answers' = Answers
    BY <2>3, <1>1 DEF Under, Answers
  <2>6. LinkTyped'
    BY <2>3, <2>5 DEF SubTypes, LinkTyped
  <2>7. Truthful([status |-> "refused"]) /\ [status |-> "refused"].status # "ok"
    BY DEF Truthful
  <2>8. QED
    BY <2>1, <2>2, <2>4, <2>5, <2>6, <2>7 DEF EndWith
<1>3. CASE SubRequestTimesOut
  <2>1. Expired /\ SubResult([status |-> "unknown"]) /\ UNCHANGED <<registry, outbox, released, used>>
    BY <1>3 DEF SubRequestTimesOut
  <2>2. UNCHANGED <<boot, greeted, table, nextId, events, stage, released, inbox>>
    BY <2>1 DEF registry, outbox, SubResult
  <2>3. awaiting # 0 /\ awaiting' = 0 /\ UNCHANGED <<correlation, frames, bridge, replies>>
    BY <2>1 DEF Expired
  <2>4. Latest /\ Exchanging
    BY <2>3 DEF Latest, RequestsOK
  <2>5. correlation' >= correlation /\ Under' = Under /\ Answers' = Answers
    BY <2>3, <1>1 DEF Under, Answers
  <2>6. LinkTyped'
    BY <2>3 DEF SubTypes, LinkTyped
  <2>7. Truthful([status |-> "unknown"]) /\ [status |-> "unknown"].status # "ok"
    BY DEF Truthful
  <2>8. QED
    BY <2>1, <2>2, <2>3, <2>4, <2>5, <2>6, <2>7 DEF EndWith
<1>4. CASE SubRequestAnswered
  <2> DEFINE rep == Head(replies)
             r == rep.result
  <2>1. Answered(r) /\ SubResult(r) /\ UNCHANGED <<registry, outbox, released, used>>
    BY <1>4 DEF SubRequestAnswered
  <2>2. UNCHANGED <<boot, greeted, table, nextId, events, stage, released, inbox>>
    BY <2>1 DEF registry, outbox, SubResult
  <2>3. /\ awaiting # 0 /\ awaiting' = 0 /\ replies # <<>> /\ rep.id = awaiting
        /\ replies' = Tail(replies) /\ UNCHANGED <<correlation, frames, bridge>>
    BY <2>1 DEF Answered
  <2>4. Latest /\ Exchanging /\ awaiting = correlation - 1
    BY <2>3, <1>1 DEF Latest, RequestsOK
  <2>5. /\ replies' \in Seq(SubReply) /\ Len(replies') <= OnTheLink
        /\ \A p \in DOMAIN replies' : p + 1 \in DOMAIN replies /\ replies'[p] = replies[p + 1]
        /\ rep = replies[1] /\ 1 \in DOMAIN replies
    BY <2>3, <1>1, HeadTailProperties, SubBounds
  <2>6. Answers' \subseteq Answers /\ Under' = Under /\ rep \in Answers
    BY <2>3, <2>5 DEF Answers, Under
  <2>7. LinkTyped'
    BY <2>3, <2>5 DEF SubTypes, LinkTyped
  <2>8. Truthful(r)
    <3> HIDE DEF rep
    <3>1. QED
      BY <2>3, <2>4, <2>6 DEF AnswersOK, Truthful
  <2>9. correlation' >= correlation
    BY <2>3, <1>1
  <2>10. r.status = "ok" => r \in Awaited
    <3> HIDE DEF rep
    <3>1. QED
      BY <2>3, <2>6 DEF Awaited
  <2>11. QED
    <3> HIDE DEF r
    <3>1. QED
      BY <2>1, <2>2, <2>3, <2>4, <2>6, <2>7, <2>8, <2>9, <2>10 DEF EndWith
<1>5. QED
  BY <1>2, <1>3, <1>4

LEMMA RewrittenTyped ==
  ASSUME EventsTyped, NEW S, S \subseteq Slots, Rewritten(S)
  PROVE  given' \in [Slots -> Nat] /\ (upcall' = NoCall \/ upcall' \in Upcall)
<1>1. given \in [Slots -> Nat] /\ (upcall = NoCall \/ upcall \in Upcall)
  BY DEF EventsTyped
<1>2. given' = [s \in Slots |-> IF s \in S THEN 0 ELSE given[s]]
  BY DEF Rewritten
<1>3. given' \in [Slots -> Nat]
  BY <1>1, <1>2
<1>4. upcall' = upcall \/ (upcall.slot \in S /\ upcall' = [upcall EXCEPT !.fresh = FALSE])
  BY DEF Rewritten
<1>5. NoCall.slot \notin S
  BY SlotBounds DEF NoCall
<1>6. upcall \in Upcall => [upcall EXCEPT !.fresh = FALSE] \in Upcall
  BY DEF Upcall
<1>7. QED
  BY <1>1, <1>3, <1>4, <1>5, <1>6

(* A call of the subscriber goes on to reconcile or is over.                *)
LEMMA SubGoesOn ==
  ASSUME SubTypes, SlotsOK, CallTyped', NEW after \in Nat, Reconcile(slot', after),
         \A s \in Slots : slot'[s].active => slot'[s].topic # NoTopic,
         \A s \in Slots : s <= after /\ slot'[s].topic # NoTopic => slot'[s].active,
         session' = "established"
  PROVE  SlotsOK' /\ task'.tries = 0 /\ task'.at # "reset"
<1>1. \A s \in Slots : s \in Nat
  BY SlotBounds
<1>2. Allocated' = {s \in Slots : slot'[s].topic # NoTopic}
  BY DEF Allocated
<1>3. CASE /\ task' = SubIdle
           /\ \A s \in Slots : s > after /\ slot'[s].topic # NoTopic => slot'[s].active
  <2>1. task'.at = "idle" /\ task'.tries = 0
    BY <1>3, SubTasks
  <2>2. \A s \in Slots : s > after \/ s <= after
    BY <1>1
  <2>3. \A s \in Allocated' : slot'[s].active
    BY <1>2, <1>3, <2>2
  <2>4. QED
    BY <2>1, <2>3, <1>2 DEF SlotsOK, At
<1>4. CASE \E next \in Slots :
            /\ task' = [SubIdle EXCEPT !.at = "reconcile", !.slot = next,
                                       !.topic = slot'[next].topic]
            /\ next > after /\ slot'[next].topic # NoTopic
            /\ \A s \in Slots : s > after /\ s < next /\ slot'[s].topic # NoTopic =>
                 slot'[s].active
  <2>1. PICK next \in Slots :
            /\ task' = [SubIdle EXCEPT !.at = "reconcile", !.slot = next,
                                       !.topic = slot'[next].topic]
            /\ next > after /\ slot'[next].topic # NoTopic
            /\ \A s \in Slots : s > after /\ s < next /\ slot'[s].topic # NoTopic =>
                 slot'[s].active
    BY <1>4
  <2>2. /\ task'.at = "reconcile" /\ task'.tries = 0 /\ task'.slot = next
        /\ task'.topic = slot'[next].topic
    BY <2>1 DEF SubIdle
  <2>3. \A s \in Slots : s < next => \/ s <= after \/ (s > after /\ s < next)
    BY <1>1
  <2>4. \A s \in Allocated' : s < next => slot'[s].active
    BY <1>2, <2>1, <2>3
  <2>5. next \in Allocated'
    BY <1>2, <2>1
  <2>6. QED
    BY <2>2, <2>4, <2>5, <1>2 DEF SlotsOK, At
<1>5. QED
  BY <1>3, <1>4, ReconcileView

LEMMA ReconcileTyped ==
  ASSUME NEW subscriptions \in [Slots -> SubSlot], NEW after \in Nat,
         Reconcile(subscriptions, after)
  PROVE  task' \in SubTask
<1>1. CASE task' = SubIdle
  BY <1>1, SubTasks
<1>2. CASE \E next \in Slots :
             task' = [SubIdle EXCEPT !.at = "reconcile", !.slot = next,
                                     !.topic = subscriptions[next].topic]
  <2>1. PICK next \in Slots :
             task' = [SubIdle EXCEPT !.at = "reconcile", !.slot = next,
                                     !.topic = subscriptions[next].topic]
    BY <1>2
  <2>2. PICK t \in Topics \cup {NoTopic} : t = subscriptions[next].topic
    BY DEF SubSlot
  <2>3. 0 \in 0..HelloRetries
    BY SubBounds
  <2>4. QED
    BY <2>1, <2>2, <2>3 DEF SubIdle, SubTask, Calls
<1>3. QED
  BY <1>1, <1>2, ReconcileView

LEMMA SubHelloEnds ==
  ASSUME SubInv, NEW r, EndWith(r), AfterSubHello(r)
  PROVE  SubInv'
<1> /\ SubTypes /\ RequestsOK /\ BootsOK /\ AnswersOK /\ KnownOK /\ SlotsOK
  BY DEF SubInv
<1>1. /\ UNCHANGED <<boot, greeted, table, nextId, events, stage, released, inbox>>
      /\ UNCHANGED <<slot, held, upcall, given>> /\ At("hello") /\ awaiting' = 0
      /\ correlation' >= correlation /\ Under' = Under /\ Answers' \subseteq Answers
      /\ LinkTyped'
  BY DEF EndWith, AfterSubHello
<1>2. DelegateTyped' /\ EventsTyped' /\ KnownOK' /\ Allocated' = Allocated
  BY <1>1 DEF SubTypes, DelegateTyped, EventsTyped, KnownOK, Allocated
<1>3. /\ \A s \in Slots : slot[s].active => slot[s].topic # NoTopic
      /\ \A s \in Slots : s > 0
  BY SlotBounds DEF SlotsOK, Allocated
<1>4. task \in SubTask /\ slot \in [Slots -> SubSlot] /\ boot \in Nat /\ peerBoot \in Nat
  BY DEF SubTypes, CallTyped, DelegateTyped
<1>5. CASE /\ r.status = "ok" /\ session' = "established" /\ peerBoot' = r.boot
           /\ IF peerBoot \notin {0, r.boot}
              THEN task' = [SubIdle EXCEPT !.at = "reset"]
              ELSE Reconcile(slot, 0)
  <2>1. PICK b \in 1..boot : b = r.boot /\ b >= peerBoot
    BY <1>1, <1>5 DEF EndWith, Truthful, At
  <2>2. peerBoot' = b /\ b \in Nat /\ b > 0 /\ b <= boot
    BY <2>1, <1>4, <1>5
  <2>3. CASE peerBoot \notin {0, b}
    <3>1. task' = [SubIdle EXCEPT !.at = "reset"]
      BY <2>1, <2>3, <1>5
    <3>2. task' \in SubTask /\ task'.at = "reset" /\ task'.tries = 0
      BY <3>1, SubTasks DEF SubIdle, SubTask, Calls
    <3>3. CallTyped'
      BY <1>1, <1>4, <1>5, <2>2, <3>2 DEF CallTyped
    <3>4. BootsOK'
      BY <1>1, <1>2, <2>2, <3>2 DEF BootsOK, At
    <3>5. SlotsOK'
      BY <1>1, <1>2, <1>5, <3>2 DEF SlotsOK, At
    <3>6. QED
      BY <1>1, <1>2, <3>2, <3>3, <3>4, <3>5, SubCallEnds DEF SubTypes
  <2>4. CASE peerBoot \in {0, b}
    <3>1. Reconcile(slot, 0) /\ 0 \in Nat
      BY <2>1, <2>4, <1>5
    <3>2. task' \in SubTask
      BY <3>1, <1>4, ReconcileTyped
    <3>3. CallTyped'
      BY <1>1, <1>4, <1>5, <2>2, <3>2 DEF CallTyped
    <3>4. /\ \A s \in Slots : slot'[s].active => slot'[s].topic # NoTopic
          /\ \A s \in Slots : s <= 0 /\ slot'[s].topic # NoTopic => slot'[s].active
      BY <1>1, <1>3, SlotBounds
    <3>5. Reconcile(slot', 0)
      BY <1>1, <3>1 DEF Reconcile
    <3>6. SlotsOK' /\ task'.tries = 0
      BY <3>1, <3>3, <3>4, <3>5, <1>5, SubGoesOn
    <3>7. \A s \in Slots : slot[s].active => slot[s].boot >= b
      BY <2>1, <2>4, <1>1 DEF BootsOK, SlotsOK, At
    <3>8. BootsOK'
      BY <1>1, <1>2, <2>2, <3>7 DEF BootsOK
    <3>9. QED
      BY <1>1, <1>2, <3>3, <3>6, <3>8, SubCallEnds DEF SubTypes
  <2>5. QED
    BY <2>3, <2>4
<1>6. CASE /\ task.tries < HelloRetries /\ task' = [task EXCEPT !.tries = @ + 1]
           /\ UNCHANGED <<session, peerBoot>>
  <2>1. task.tries \in Nat /\ task.tries + 1 \in 0..HelloRetries
    BY <1>4, <1>6, SubBounds DEF SubTask
  <2>2. /\ task' \in SubTask /\ task'.at = task.at /\ task'.topic = task.topic
        /\ task'.slot = task.slot /\ task'.tries > 0
    BY <2>1, <1>4, <1>6 DEF SubTask
  <2>3. SubTypes'
    BY <1>1, <1>2, <1>4, <1>6, <2>2 DEF SubTypes, CallTyped
  <2>4. BootsOK' /\ SlotsOK'
    BY <1>1, <1>2, <1>6, <2>2 DEF BootsOK, SlotsOK, At
  <2>5. SubRequest' = SubRequest /\ Exchanging' /\ At("hello")'
    BY <1>1, <2>2 DEF SubRequest, At, Exchanging
  <2>6. correlation \in Nat /\ correlation > 0
    BY DEF SubTypes, LinkTyped
  <2>7. PICK c \in Nat : c = correlation'
    BY <1>1 DEF LinkTyped
  <2>8. /\ c >= correlation
        /\ \/ Latest /\ c = correlation
           \/ ~ Latest /\ c = correlation + 1
    BY <2>7, Zenon DEF EndWith
  <2>9. /\ \A f \in Under : f.id \in 1..(correlation - 1)
        /\ \A rep \in Answers : rep.id \in 1..(correlation - 1)
    BY DEF RequestsOK
  <2>10. \A n \in 1..(correlation - 1) : n \in 1..(c - 1)
    BY <2>6, <2>8
  <2>11. c > 1
    <3>1. CASE Latest
      <4>1. correlation > 1
        <5>1. CASE awaiting # 0
          BY <5>1, <2>6 DEF SubTypes, LinkTyped
        <5>2. CASE task.tries > 0
          BY <5>2 DEF RequestsOK
        <5>3. QED
          BY <3>1, <5>1, <5>2 DEF Latest
      <4>2. QED
        BY <4>1, <3>1, <2>8
    <3>2. CASE ~ Latest
      BY <3>2, <2>6, <2>8
    <3>3. QED
      BY <3>1, <3>2
  <2>12. \A f \in Under : f.id = c - 1 => f.request = SubRequest
    <3>1. CASE Latest
      BY <3>1, <2>8 DEF RequestsOK
    <3>2. CASE ~ Latest
      BY <3>2, <2>6, <2>8, <2>9
    <3>3. QED
      BY <3>1, <3>2
  <2>13. RequestsOK'
    BY <1>1, <2>5, <2>7, <2>9, <2>10, <2>11, <2>12 DEF RequestsOK
  <2>14. AnswersOK'
    <3>1. CASE Latest
      <4>1. correlation' = correlation
        BY <3>1, <2>7, <2>8
      <4>2. QED
        BY <3>1, <4>1, <1>1, <1>6, <2>2 DEF AnswersOK, At
    <3>2. CASE ~ Latest
      <4>1. \A rep \in Answers : rep.id # c - 1
        BY <3>2, <2>6, <2>8, <2>9
      <4>2. QED
        BY <4>1, <1>1, <2>7 DEF AnswersOK
    <3>3. QED
      BY <3>1, <3>2
  <2>15. QED
    BY <1>2, <2>3, <2>4, <2>13, <2>14 DEF SubInv
<1>7. CASE session' = "reset" /\ task' = SubIdle /\ UNCHANGED peerBoot
  <2>1. task' \in SubTask /\ task'.at = "idle" /\ task'.tries = 0
    BY <1>7, SubTasks
  <2>2. SubTypes'
    BY <1>1, <1>2, <1>4, <1>7, <2>1 DEF SubTypes, CallTyped
  <2>3. BootsOK' /\ SlotsOK'
    BY <1>1, <1>2, <1>7, <2>1 DEF BootsOK, SlotsOK, At
  <2>4. QED
    BY <1>1, <1>2, <2>1, <2>2, <2>3, SubCallEnds
<1>8. QED
  BY <1>5, <1>6, <1>7 DEF AfterSubHello

(* A subscription is the delegate's, from a boot since the session began.   *)
LEMMA SubSlotTaken ==
  ASSUME SubInv, NEW s \in Slots, NEW entry \in SubSlot,
         slot' = [slot EXCEPT ![s] = entry], entry.topic # NoTopic, entry.id # 0,
         entry.boot \in 1..boot, entry.boot >= peerBoot, peerBoot > 0,
         entry.boot = boot => entry.id \in released \/ table[entry.topic].id = entry.id,
         UNCHANGED <<boot, released, table, peerBoot>>,
         session' = "established" \/ UNCHANGED session
  PROVE  /\ slot' \in [Slots -> SubSlot] /\ slot'[s] = entry
         /\ \A x \in Slots : x # s => slot'[x] = slot[x]
         /\ Allocated' = Allocated \cup {s}
         /\ KnownOK'
         /\ session' = session /\ ~ At("reset") => BootsOK'
<1> /\ SubTypes /\ BootsOK /\ KnownOK /\ SlotsOK
  BY DEF SubInv
<1>1. slot \in [Slots -> SubSlot] /\ boot \in Nat
  BY DEF SubTypes, CallTyped, DelegateTyped
<1>2. /\ slot' \in [Slots -> SubSlot] /\ slot'[s] = entry
      /\ \A x \in Slots : x # s => slot'[x] = slot[x]
  BY <1>1
<1>3. Allocated' = Allocated \cup {s}
  BY <1>2 DEF Allocated
<1>4. KnownOK'
  BY <1>2 DEF KnownOK
<1>5. ASSUME session' = session, ~ At("reset") PROVE BootsOK'
  <2>1. /\ peerBoot' <= boot' /\ (session' = "established" => peerBoot' > 0) /\ peerBoot' # 0
    BY <1>5 DEF BootsOK, SubTypes, CallTyped
  <2>2. \A x \in Slots : slot'[x].boot <= boot
    BY <1>1, <1>2 DEF BootsOK
  <2>3. \A x \in Slots : slot'[x].active => slot'[x].boot >= peerBoot
    BY <1>2, <1>5 DEF BootsOK
  <2>4. QED
    BY <2>1, <2>2, <2>3 DEF BootsOK
<1>6. QED
  BY <1>2, <1>3, <1>4, <1>5

LEMMA SubReconcileEnds ==
  ASSUME SubInv, NEW r, EndWith(r), AfterReconcile(r)
  PROVE  SubInv'
<1> /\ SubTypes /\ RequestsOK /\ BootsOK /\ AnswersOK /\ KnownOK /\ SlotsOK
  BY DEF SubInv
<1>1. /\ UNCHANGED <<boot, greeted, table, nextId, events, stage, released, inbox>>
      /\ UNCHANGED <<held, peerBoot>> /\ At("reconcile") /\ awaiting' = 0
      /\ correlation' >= correlation /\ Under' = Under /\ Answers' \subseteq Answers
      /\ LinkTyped'
  BY DEF EndWith, AfterReconcile
<1>2. DelegateTyped'
  BY <1>1 DEF SubTypes, DelegateTyped
<1>3. task \in SubTask /\ slot \in [Slots -> SubSlot] /\ boot \in Nat /\ peerBoot \in Nat
  BY DEF SubTypes, CallTyped, DelegateTyped
<1>4. /\ task.slot \in Slots /\ task.slot \in Allocated /\ task.topic = slot[task.slot].topic
      /\ \A s \in Allocated : s < task.slot => slot[s].active
      /\ session = "established" /\ peerBoot > 0 /\ task.slot \in Nat
  BY <1>1, SlotBounds DEF SlotsOK, BootsOK, Allocated, At
<1>5. CASE /\ r.status = "ok"
           /\ slot' = [slot EXCEPT ![task.slot].id = r.id, ![task.slot].next = 1,
                                   ![task.slot].active = TRUE,
                                   ![task.slot].boot = r.boot]
           /\ Rewritten({task.slot})
           /\ Reconcile(slot', task.slot)
           /\ UNCHANGED session
  <2> DEFINE entry == [slot[task.slot] EXCEPT !.id = r.id, !.next = 1, !.active = TRUE,
                                              !.boot = r.boot]
  <2>1. /\ r.boot \in 1..boot /\ r.boot >= peerBoot /\ r.id \in Nat /\ r.id # 0 /\ r.boot \in Nat
        /\ r.boot = boot => r.id \in released \/ table[task.topic].id = r.id
    BY <1>1, <1>3, <1>5 DEF EndWith, Truthful, At
  <2>2. entry \in SubSlot /\ entry.topic = task.topic /\ entry.topic # NoTopic
        /\ entry.id = r.id /\ entry.boot = r.boot /\ entry.active
    BY <2>1, <1>3, <1>4 DEF SubSlot, Allocated
  <2>3. slot' = [slot EXCEPT ![task.slot] = entry]
    BY <1>5, <1>3, <1>4 DEF SubSlot
  <2>4. /\ slot' \in [Slots -> SubSlot] /\ slot'[task.slot] = entry
        /\ \A x \in Slots : x # task.slot => slot'[x] = slot[x]
        /\ Allocated' = Allocated \cup {task.slot} /\ KnownOK' /\ BootsOK'
    <3> HIDE DEF entry
    <3>1. ~ At("reset") /\ session' = session
      BY <1>1, <1>5 DEF At
    <3>2. QED
      BY <2>1, <2>2, <2>3, <3>1, <1>1, <1>4, SubSlotTaken
  <2>5. task' \in SubTask
    BY <2>4, <1>4, <1>5, ReconcileTyped
  <2>6. CallTyped'
    BY <2>4, <2>5, <1>1, <1>3, <1>4, <1>5 DEF CallTyped
  <2>7. given' \in [Slots -> Nat] /\ (upcall' = NoCall \/ upcall' \in Upcall)
    BY <1>4, <1>5, RewrittenTyped DEF SubTypes
  <2>8. EventsTyped'
    BY <2>7, <1>1 DEF SubTypes, EventsTyped
  <2>9. /\ \A s \in Slots : slot'[s].active => slot'[s].topic # NoTopic
        /\ \A s \in Slots : s <= task.slot /\ slot'[s].topic # NoTopic => slot'[s].active
    <3> HIDE DEF entry
    <3>1. \A s \in Slots : s # task.slot /\ slot[s].active => slot[s].topic # NoTopic
      BY DEF SlotsOK, Allocated
    <3>2. \A s \in Slots : s <= task.slot /\ s # task.slot => s < task.slot
      <4>1. \A m, n \in Nat : m <= n /\ m # n => m < n
        OBVIOUS
      <4>2. QED
        BY <4>1, <1>4, SlotBounds, Zenon
    <3>3. \A s \in Slots : s # task.slot /\ s <= task.slot /\ slot[s].topic # NoTopic => slot[s].active
      BY <3>2, <1>4 DEF Allocated
    <3>4. QED
      BY <3>1, <3>3, <2>2, <2>4
  <2>10. SlotsOK' /\ task'.tries = 0
    BY <2>6, <2>9, <1>4, <1>5, SubGoesOn
  <2>11. QED
    BY <1>1, <1>2, <2>4, <2>6, <2>8, <2>10, SubCallEnds DEF SubTypes
<1>6. CASE session' = "degraded" /\ task' = SubIdle /\ UNCHANGED <<slot, upcall, given>>
  <2>1. task' \in SubTask /\ task'.at = "idle" /\ task'.tries = 0
    BY <1>6, SubTasks
  <2>2. CallTyped' /\ EventsTyped'
    BY <1>1, <1>3, <1>6, <2>1 DEF CallTyped, SubTypes, EventsTyped
  <2>3. KnownOK' /\ Allocated' = Allocated
    BY <1>1, <1>6 DEF KnownOK, Allocated
  <2>4. BootsOK' /\ SlotsOK'
    BY <1>1, <1>6, <2>1, <2>3 DEF BootsOK, SlotsOK, At
  <2>5. QED
    BY <1>1, <1>2, <2>1, <2>2, <2>3, <2>4, SubCallEnds DEF SubTypes
<1>7. QED
  BY <1>5, <1>6 DEF AfterReconcile

LEMMA SubSubscribeEnds ==
  ASSUME SubInv, NEW r, EndWith(r), AfterSubscribe(r)
  PROVE  SubInv'
<1> /\ SubTypes /\ RequestsOK /\ BootsOK /\ AnswersOK /\ KnownOK /\ SlotsOK
  BY DEF SubInv
<1>1. /\ UNCHANGED <<boot, greeted, table, nextId, events, stage, released, inbox>>
      /\ UNCHANGED <<held, peerBoot, session>> /\ At("subscribe") /\ awaiting' = 0
      /\ correlation' >= correlation /\ Under' = Under /\ Answers' \subseteq Answers
      /\ LinkTyped' /\ task' = SubIdle
  BY DEF EndWith, AfterSubscribe
<1>2. DelegateTyped'
  BY <1>1 DEF SubTypes, DelegateTyped
<1>3. task \in SubTask /\ slot \in [Slots -> SubSlot] /\ boot \in Nat /\ peerBoot \in Nat
  BY DEF SubTypes, CallTyped, DelegateTyped
<1>4. /\ task.slot \in Slots /\ task.topic \in Topics /\ task.topic # NoTopic
      /\ session = "established" /\ peerBoot > 0
      /\ \A s \in Allocated : slot[s].active
  BY <1>1, SubBounds DEF SlotsOK, BootsOK, At
<1>5. task' \in SubTask /\ task'.at = "idle" /\ task'.tries = 0
  BY <1>1, SubTasks
<1>6. CASE /\ r.status = "ok"
           /\ slot' = [slot EXCEPT ![task.slot] =
                         [topic |-> task.topic, id |-> r.id, next |-> 1,
                          active |-> TRUE, boot |-> r.boot]]
           /\ Rewritten({task.slot})
  <2> DEFINE entry == [topic |-> task.topic, id |-> r.id, next |-> 1,
                       active |-> TRUE, boot |-> r.boot]
  <2>1. /\ r.boot \in 1..boot /\ r.boot >= peerBoot /\ r.id \in Nat /\ r.id # 0 /\ r.boot \in Nat
        /\ r.boot = boot => r.id \in released \/ table[task.topic].id = r.id
    BY <1>1, <1>3, <1>6 DEF EndWith, Truthful, At
  <2>2. entry \in SubSlot /\ entry.topic = task.topic /\ entry.topic # NoTopic
        /\ entry.id = r.id /\ entry.boot = r.boot /\ entry.active
    BY <2>1, <1>4 DEF SubSlot
  <2>3. slot' = [slot EXCEPT ![task.slot] = entry]
    BY <1>6
  <2>4. /\ slot' \in [Slots -> SubSlot] /\ slot'[task.slot] = entry
        /\ \A x \in Slots : x # task.slot => slot'[x] = slot[x]
        /\ Allocated' = Allocated \cup {task.slot} /\ KnownOK' /\ BootsOK'
    <3> HIDE DEF entry
    <3>1. ~ At("reset") /\ session' = session
      BY <1>1 DEF At
    <3>2. QED
      BY <2>1, <2>2, <2>3, <3>1, <1>1, <1>4, SubSlotTaken
  <2>6. CallTyped'
    BY <2>4, <1>1, <1>3, <1>5 DEF CallTyped, SubTypes
  <2>7. given' \in [Slots -> Nat] /\ (upcall' = NoCall \/ upcall' \in Upcall)
    BY <1>4, <1>6, RewrittenTyped DEF SubTypes
  <2>8. EventsTyped'
    BY <2>7, <1>1 DEF SubTypes, EventsTyped
  <2>9. \A s \in Allocated' : slot'[s].active
    <3> HIDE DEF entry
    <3>1. QED
      BY <2>2, <2>4, <1>4 DEF Allocated
  <2>10. \A s \in Slots : slot'[s].active => s \in Allocated'
    <3> HIDE DEF entry
    <3>1. QED
      BY <2>2, <2>4 DEF SlotsOK
  <2>11. SlotsOK'
    BY <2>9, <2>10, <1>1, <1>4, <1>5 DEF SlotsOK, At
  <2>12. QED
    BY <1>1, <1>2, <1>5, <2>4, <2>6, <2>8, <2>11, SubCallEnds DEF SubTypes
<1>7. CASE UNCHANGED <<slot, upcall, given>>
  <2>2. CallTyped' /\ EventsTyped'
    BY <1>1, <1>3, <1>5, <1>7 DEF CallTyped, SubTypes, EventsTyped
  <2>3. KnownOK' /\ Allocated' = Allocated
    BY <1>1, <1>7 DEF KnownOK, Allocated
  <2>4. BootsOK' /\ SlotsOK'
    BY <1>1, <1>4, <1>5, <1>7, <2>3 DEF BootsOK, SlotsOK, At
  <2>5. QED
    BY <1>1, <1>2, <1>5, <2>2, <2>3, <2>4, SubCallEnds DEF SubTypes
<1>8. QED
  BY <1>6, <1>7 DEF AfterSubscribe

LEMMA SubUnsubscribeEnds ==
  ASSUME SubInv, NEW r, EndWith(r), AfterUnsubscribe(r)
  PROVE  SubInv'
<1> /\ SubTypes /\ RequestsOK /\ BootsOK /\ AnswersOK /\ KnownOK /\ SlotsOK
  BY DEF SubInv
<1>1. /\ UNCHANGED <<boot, greeted, table, nextId, events, stage, released, inbox>>
      /\ UNCHANGED <<peerBoot, session>> /\ At("unsubscribe") /\ awaiting' = 0
      /\ correlation' >= correlation /\ Under' = Under /\ Answers' \subseteq Answers
      /\ LinkTyped' /\ task' = SubIdle
  BY DEF EndWith, AfterUnsubscribe
<1>2. DelegateTyped'
  BY <1>1 DEF SubTypes, DelegateTyped
<1>3. task \in SubTask /\ slot \in [Slots -> SubSlot] /\ boot \in Nat /\ peerBoot \in Nat
  BY DEF SubTypes, CallTyped, DelegateTyped
<1>4. /\ task.slot \in Slots /\ session = "established" /\ peerBoot > 0
      /\ \A s \in Allocated : slot[s].active
  BY <1>1 DEF SlotsOK, BootsOK, At, Allocated
<1>5. task' \in SubTask /\ task'.at = "idle" /\ task'.tries = 0
  BY <1>1, SubTasks
<1>6. CASE /\ slot' = [slot EXCEPT ![task.slot] = Unused]
           /\ held' = IF held.id = slot[task.slot].id THEN NoneHeld ELSE held
           /\ Rewritten({task.slot})
  <2>1. Unused \in SubSlot /\ Unused.topic = NoTopic /\ Unused.active = FALSE /\ Unused.boot = 0
    BY DEF Unused, SubSlot
  <2>2. /\ slot' \in [Slots -> SubSlot] /\ slot'[task.slot] = Unused
        /\ \A x \in Slots : x # task.slot => slot'[x] = slot[x]
    BY <1>3, <1>4, <1>6, <2>1
  <2>3. Allocated' \subseteq Allocated /\ (\A s \in Allocated' : s # task.slot)
    BY <2>1, <2>2 DEF Allocated
  <2>4. CallTyped'
    BY <1>1, <1>3, <1>5, <2>2 DEF CallTyped, SubTypes
  <2>5. given' \in [Slots -> Nat] /\ (upcall' = NoCall \/ upcall' \in Upcall)
    BY <1>4, <1>6, RewrittenTyped DEF SubTypes
  <2>6. NoneHeld \in [id : Nat, seq : Nat, got : 0..Chunks, boots : SUBSET Nat]
    BY SubBounds DEF NoneHeld
  <2>7. held' \in [id : Nat, seq : Nat, got : 0..Chunks, boots : SUBSET Nat]
    BY <2>6, <1>6 DEF SubTypes, EventsTyped
  <2>8. EventsTyped'
    BY <2>5, <2>7, <1>1 DEF SubTypes, EventsTyped
  <2>9. KnownOK'
    BY <2>1, <2>2, <1>1 DEF KnownOK
  <2>10. \A s \in Slots : slot'[s].boot <= boot
    BY <2>1, <2>2, <1>3 DEF BootsOK
  <2>11. \A s \in Slots : slot'[s].active => slot'[s].boot >= peerBoot
    BY <2>1, <2>2, <1>1 DEF BootsOK, At
  <2>12. BootsOK'
    BY <2>10, <2>11, <1>1, <1>4 DEF BootsOK
  <2>13. \A s \in Allocated' : slot'[s].active
    BY <2>2, <2>3, <1>4 DEF Allocated
  <2>14. \A s \in Slots : slot'[s].active => s \in Allocated'
    BY <2>1, <2>2 DEF SlotsOK, Allocated
  <2>15. SlotsOK'
    BY <2>13, <2>14, <1>1, <1>4, <1>5 DEF SlotsOK, At
  <2>16. QED
    BY <1>1, <1>2, <1>5, <2>4, <2>8, <2>9, <2>12, <2>15, SubCallEnds DEF SubTypes
<1>7. CASE UNCHANGED <<slot, held, upcall, given>>
  <2>2. CallTyped' /\ EventsTyped'
    BY <1>1, <1>3, <1>5, <1>7 DEF CallTyped, SubTypes, EventsTyped
  <2>3. KnownOK' /\ Allocated' = Allocated
    BY <1>1, <1>7 DEF KnownOK, Allocated
  <2>4. BootsOK' /\ SlotsOK'
    BY <1>1, <1>4, <1>5, <1>7, <2>3 DEF BootsOK, SlotsOK, At
  <2>5. QED
    BY <1>1, <1>2, <1>5, <2>2, <2>3, <2>4, SubCallEnds DEF SubTypes
<1>8. QED
  BY <1>6, <1>7 DEF AfterUnsubscribe

LEMMA SubEndStep ==
  ASSUME SubInv, SubRequestRefused \/ SubRequestAnswered \/ SubRequestTimesOut
  PROVE  SubInv'
<1>1. PICK r : EndWith(r)
  BY SubEndView
<1>2. \/ AfterSubHello(r) \/ AfterReconcile(r) \/ AfterSubscribe(r) \/ AfterUnsubscribe(r)
  BY <1>1 DEF EndWith, SubResult
<1>3. QED
  BY <1>1, <1>2, SubHelloEnds, SubReconcileEnds, SubSubscribeEnds, SubUnsubscribeEnds

LEMMA SubResetStep ==
  ASSUME SubInv, SessionReset
  PROVE  SubInv'
<1> /\ SubTypes /\ RequestsOK /\ BootsOK /\ AnswersOK /\ KnownOK /\ SlotsOK
  BY DEF SubInv
<1>1. /\ UNCHANGED <<correlation, awaiting, frames, bridge, replies, session, peerBoot, inbox>>
      /\ UNCHANGED <<boot, greeted, table, nextId, events, stage, released>>
      /\ At("reset") /\ held' = NoneHeld
      /\ Rewritten(Allocated) /\ Reconcile(slot', 0)
      /\ slot' = [s \in Slots |->
                    IF s \in Allocated
                    THEN [slot[s] EXCEPT !.active = FALSE, !.id = 0, !.next = 1]
                    ELSE slot[s]]
  BY DEF SessionReset, link, registry, outbox
<1>2. task \in SubTask /\ slot \in [Slots -> SubSlot] /\ boot \in Nat /\ peerBoot \in Nat
  BY DEF SubTypes, CallTyped, DelegateTyped
<1>3. LinkTyped' /\ DelegateTyped'
  BY <1>1 DEF SubTypes, LinkTyped, DelegateTyped
<1>4. awaiting' = 0 /\ correlation' >= correlation /\ Under' = Under /\ Answers' = Answers
  <2>1. correlation \in Nat /\ awaiting = 0
    BY <1>1 DEF RequestsOK, Exchanging, SubTypes, LinkTyped
  <2>2. correlation >= correlation
    BY <2>1
  <2>3. UNCHANGED <<correlation, awaiting, frames, bridge, replies>>
    BY <1>1
  <2>4. QED
    BY <2>1, <2>2, <2>3, Zenon DEF Under, Answers
<1>5. \A s \in Slots : /\ slot'[s] \in SubSlot /\ slot'[s].topic = slot[s].topic
                       /\ slot'[s].active = FALSE /\ slot'[s].boot = slot[s].boot
  <2> SUFFICES ASSUME NEW s \in Slots
               PROVE  /\ slot'[s] \in SubSlot /\ slot'[s].topic = slot[s].topic
                      /\ slot'[s].active = FALSE /\ slot'[s].boot = slot[s].boot
    OBVIOUS
  <2>1. slot[s] \in SubSlot
    BY <1>2
  <2>2. CASE s \in Allocated
    BY <2>1, <2>2, <1>1 DEF SubSlot
  <2>3. CASE s \notin Allocated
    <3>1. slot'[s] = slot[s]
      BY <2>3, <1>1
    <3>2. slot[s].active = FALSE
      BY <2>1, <2>3 DEF SlotsOK, SubSlot
    <3>3. QED
      BY <2>1, <3>1, <3>2
  <2>4. QED
    BY <2>2, <2>3
<1>6. slot' \in [Slots -> SubSlot]
  BY <1>1, <1>5
<1>7. Allocated' = Allocated
  BY <1>5 DEF Allocated
<1>8. Allocated \subseteq Slots /\ 0 \in Nat
  BY DEF Allocated
<1>9. task' \in SubTask
  BY <1>1, <1>6, <1>8, ReconcileTyped
<1>10. given' \in [Slots -> Nat] /\ (upcall' = NoCall \/ upcall' \in Upcall)
  BY <1>1, <1>8, RewrittenTyped DEF SubTypes
<1>11. NoneHeld \in [id : Nat, seq : Nat, got : 0..Chunks, boots : SUBSET Nat]
  BY SubBounds DEF NoneHeld
<1>12. EventsTyped'
  BY <1>1, <1>10, <1>11 DEF SubTypes, EventsTyped
<1>13. CallTyped'
  BY <1>1, <1>2, <1>6, <1>9 DEF CallTyped, SubTypes
<1>14. session' = "established"
  BY <1>1 DEF SlotsOK, At
<1>15. /\ \A s \in Slots : slot'[s].active => slot'[s].topic # NoTopic
       /\ \A s \in Slots : s <= 0 /\ slot'[s].topic # NoTopic => slot'[s].active
  BY <1>5, SlotBounds
<1>16. SlotsOK' /\ task'.tries = 0
  BY <1>1, <1>8, <1>13, <1>14, <1>15, SubGoesOn
<1>17. BootsOK'
  BY <1>1, <1>5, <1>7 DEF BootsOK
<1>18. KnownOK'
  BY <1>1, <1>5 DEF KnownOK
<1>19. QED
  BY <1>1, <1>3, <1>4, <1>12, <1>13, <1>16, <1>17, <1>18, SubCallEnds DEF SubTypes

-----------------------------------------------------------------------------
(* Subscriptions: the delegate's steps                                      *)

LEMMA SubRespondedView ==
  ASSUME NEW r \in Results, SubTypes, bridge # NoFrame, Respond(r)
  PROVE  /\ bridge \in Under /\ bridge \in SubFrame /\ Under' \subseteq Under
         /\ \A rep \in Answers' : rep \in Answers \/ rep = [id |-> bridge.id, result |-> r]
         /\ UNCHANGED <<correlation, awaiting>> /\ LinkTyped'
<1>1. bridge \in SubFrame /\ replies \in Seq(SubReply) /\ Len(replies) <= OnTheLink
  BY DEF SubTypes, LinkTyped
<1>2. bridge' = NoFrame /\ UNCHANGED <<frames, correlation, awaiting>>
  BY DEF Respond
<1>3. bridge \in Under /\ Under' \subseteq Under
  BY <1>2 DEF Under
<1>4. /\ \A rep \in Answers' : rep \in Answers \/ rep = [id |-> bridge.id, result |-> r]
      /\ replies' \in Seq(SubReply) /\ Len(replies') <= OnTheLink
  <2>1. CASE replies' = replies
    BY <2>1, <1>1 DEF Answers
  <2>2. CASE /\ Len(replies) < OnTheLink
             /\ replies' = Append(replies, [id |-> bridge.id, result |-> r])
    <3>1. [id |-> bridge.id, result |-> r] \in SubReply
      BY <1>1 DEF SubReply, SubFrame
    <3>2. /\ replies' \in Seq(SubReply) /\ Len(replies') = Len(replies) + 1
          /\ \A p \in DOMAIN replies' :
               \/ p \in DOMAIN replies /\ replies'[p] = replies[p]
               \/ replies'[p] = [id |-> bridge.id, result |-> r]
      BY <2>2, <3>1, <1>1, AppendProperties
    <3>3. QED
      BY <3>2, <2>2, <1>1, SubBounds DEF Answers
  <2>3. QED
    BY <2>1, <2>2 DEF Respond
<1>5. LinkTyped'
  BY <1>2, <1>4 DEF LinkTyped, SubTypes
<1>6. QED
  BY <1>1, <1>2, <1>3, <1>4, <1>5

(* The delegate answers, and what it says is true: it may have registered   *)
(* topics, and forgotten ids that were released.                            *)
LEMMA SubAnswers ==
  ASSUME SubInv, NEW r \in Results, bridge # NoFrame, Respond(r), DelegateTyped', EventsTyped',
         UNCHANGED <<boot, released, session, peerBoot, task, slot>>,
         \A t \in Topics : table[t] # NoSub /\ table[t].id \notin released =>
           table'[t] = table[t],
         \A t \in Topics : table'[t] # NoSub => table'[t].id # 0,
         bridge.request.kind \in {"hello", "subscribe"} /\ r.status = "ok" => r.boot = boot,
         bridge.request.kind = "subscribe" /\ r.status = "ok" =>
           r.id \in Nat \ {0} /\ table'[bridge.request.topic].id = r.id
  PROVE  SubInv'
<1> /\ SubTypes /\ RequestsOK /\ BootsOK /\ AnswersOK /\ KnownOK /\ SlotsOK
  BY DEF SubInv
<1>1. /\ bridge \in Under /\ bridge \in SubFrame /\ Under' \subseteq Under
      /\ \A rep \in Answers' : rep \in Answers \/ rep = [id |-> bridge.id, result |-> r]
      /\ UNCHANGED <<correlation, awaiting>> /\ LinkTyped'
  BY SubRespondedView
<1>2. /\ SubRequest' = SubRequest /\ Allocated' = Allocated /\ (Latest' <=> Latest)
      /\ (Exchanging' <=> Exchanging)
  BY <1>1 DEF SubRequest, Allocated, Latest, Exchanging, At
<1>3. CallTyped'
  BY DEF SubTypes, CallTyped
<1>4. SubTypes'
  BY <1>1, <1>3 DEF SubTypes
<1>5. bridge.id \in 1..(correlation - 1)
  BY <1>1 DEF RequestsOK
<1>6. /\ \A f \in Under' : f.id \in 1..(correlation - 1)
      /\ \A rep \in Answers' : rep.id \in 1..(correlation - 1)
  BY <1>1, <1>5 DEF RequestsOK
<1>7. RequestsOK'
  BY <1>1, <1>2, <1>6 DEF RequestsOK, At
<1>8. BootsOK' /\ SlotsOK'
  BY <1>2 DEF BootsOK, SlotsOK, At
<1>9. \A t \in Topics, id \in Nat \ {0} :
        id \in released \/ table[t].id = id => id \in released \/ table'[t].id = id
  BY DEF NoSub
<1>10. \A s \in Slots : slot[s].active => slot[s].topic \in Topics /\ slot[s].id \in Nat \ {0}
  BY SubCallFacts DEF KnownOK
<1>11. KnownOK'
  <2>1. \A s \in Slots : slot[s].active /\ slot[s].boot = boot =>
          slot[s].id \in released \/ table'[slot[s].topic].id = slot[s].id
    BY <1>9, <1>10 DEF KnownOK
  <2>2. QED
    BY <2>1, <1>10 DEF KnownOK
<1>12. task.at \in {"subscribe", "reconcile"} => task.topic \in Topics
  BY SubCallFacts
<1>13. AnswersOK'
  <2> SUFFICES ASSUME Latest, NEW rep \in Answers',
                      rep.id = correlation - 1, rep.result.status = "ok"
               PROVE  /\ task.at \in {"hello", "subscribe", "reconcile"} =>
                           rep.result.boot \in 1..boot /\ rep.result.boot >= peerBoot
                      /\ task.at \in {"subscribe", "reconcile"} =>
                           /\ rep.result.id \in Nat \ {0}
                           /\ rep.result.boot = boot =>
                                rep.result.id \in released \/ table'[task.topic].id = rep.result.id
    BY <1>1, <1>2 DEF AnswersOK
  <2>1. CASE rep \in Answers
    BY <2>1, <1>9, <1>12 DEF AnswersOK
  <2>2. CASE rep = [id |-> bridge.id, result |-> r]
    <3>1. bridge.id = correlation - 1 /\ r.status = "ok" /\ rep.result = r
      BY <2>2
    <3>2. bridge.request = SubRequest
      BY <3>1, <1>1 DEF RequestsOK
    <3>3. boot \in 1..boot /\ boot >= peerBoot
      BY DEF SubTypes, DelegateTyped, CallTyped, BootsOK
    <3>4. task.at = "hello" => bridge.request.kind = "hello"
      BY <3>2 DEF SubRequest, At
    <3>5. task.at \in {"subscribe", "reconcile"} =>
            bridge.request.kind = "subscribe" /\ bridge.request.topic = task.topic
      BY <3>2 DEF SubRequest, At
    <3>6. QED
      BY <3>1, <3>3, <3>4, <3>5
  <2>3. QED
    BY <2>1, <2>2, <1>1
<1>14. QED
  BY <1>4, <1>7, <1>8, <1>11, <1>13 DEF SubInv

LEMMA SubHandledStep ==
  ASSUME SubInv, HandleRequest
  PROVE  SubInv'
<1> /\ SubTypes /\ RequestsOK /\ KnownOK
  BY DEF SubInv
<1>1. UNCHANGED <<session, peerBoot, task, slot, held, upcall, inbox, released, given>>
  BY DEF HandleRequest, subscriber, arrivals, history
<1>2. DelegateTyped /\ EventsTyped
  BY DEF SubTypes
<1>3. \A t \in Topics : table[t] # NoSub => table[t].id # 0
  BY DEF KnownOK
<1>4. CASE SubHandshakeRequired
  <2>1. /\ bridge # NoFrame /\ Respond([status |-> "notready"])
        /\ UNCHANGED <<boot, greeted, table, nextId, events, stage>>
    BY <1>4 DEF SubHandshakeRequired, registry, outbox
  <2>2. [status |-> "notready"] \in Results
    BY DEF Results
  <2>3. DelegateTyped' /\ EventsTyped'
    BY <2>1, <1>1, <1>2 DEF DelegateTyped, EventsTyped
  <2>4. QED
    BY <2>1, <2>2, <2>3, <1>1, <1>3, SubAnswers
<1>5. CASE HandleSubHello
  <2>1. /\ bridge # NoFrame /\ bridge.request.kind = "hello"
        /\ Respond([status |-> "ok", boot |-> boot])
        /\ UNCHANGED <<boot, table, nextId>>
        /\ greeted' = TRUE /\ events' = <<>> /\ stage' = 0
    BY <1>5 DEF HandleSubHello, Handling
  <2>2. boot \in Nat
    BY <1>2 DEF DelegateTyped
  <2>3. [status |-> "ok", boot |-> boot] \in Results
    BY <2>2 DEF Results
  <2>4. DelegateTyped'
    BY <2>1, <1>1, <1>2 DEF DelegateTyped
  <2>5. 0 \in 0..(Chunks + 1) /\ Len(events') = 0 /\ events' \in Seq(Event)
    BY <2>1, SubBounds
  <2>6. EventsTyped'
    BY <2>1, <2>5, <1>1, <1>2, SubBounds DEF EventsTyped
  <2>7. QED
    BY <2>1, <2>3, <2>4, <2>6, <1>1, <1>3, SubAnswers
<1>6. CASE HandleSubscribe
  <2> DEFINE t == bridge.request.topic
  <2>1. /\ bridge # NoFrame /\ bridge.request.kind = "subscribe"
        /\ UNCHANGED <<boot, greeted, events, stage>>
        /\ \/ table[t] # NoSub /\ Respond(Ok(table[t].id)) /\ UNCHANGED <<table, nextId>>
           \/ /\ table[t] = NoSub /\ Respond(Ok(nextId))
              /\ table' = [table EXCEPT ![t] = [id |-> nextId, next |-> 1]]
              /\ nextId' = nextId + 1
           \/ /\ table[t] = NoSub /\ Respond([status |-> "failed"])
              /\ nextId' = nextId + 1 /\ UNCHANGED table
    BY <1>6 DEF HandleSubscribe, Handling, outbox
  <2>2. t \in Topics
    <3>1. bridge \in Under
      BY <2>1 DEF Under
    <3>2. QED
      BY <2>1, <3>1 DEF RequestsOK
  <2>3. /\ boot \in Nat /\ nextId \in Nat /\ nextId > 0 /\ table[t].id \in Nat
        /\ table \in [Topics -> [id : Nat, next : Nat]]
    BY <2>2, <1>2 DEF DelegateTyped
  <2> HIDE DEF t
  <2>4. EventsTyped'
    BY <2>1, <1>1, <1>2 DEF EventsTyped
  <2>5. \A i \in Nat : Ok(i) \in Results /\ Ok(i).status = "ok" /\ Ok(i).id = i /\ Ok(i).boot = boot
    BY <2>3 DEF Ok, Results
  <2>6. CASE table[t] # NoSub /\ Respond(Ok(table[t].id)) /\ UNCHANGED <<table, nextId>>
    <3>1. DelegateTyped'
      BY <2>1, <2>6, <1>1, <1>2 DEF DelegateTyped
    <3>2. PICK r \in Results : r = Ok(table[t].id)
      BY <2>3, <2>5
    <3>3. r.status = "ok" /\ r.id = table[t].id /\ r.boot = boot /\ r.id \in Nat \ {0}
      BY <2>2, <2>3, <2>5, <2>6, <3>2, <1>3
    <3>4. Respond(r)
      BY <2>6, <3>2
    <3>5. table'[bridge.request.topic].id = r.id
      BY <2>6, <3>3 DEF t
    <3>6. QED
      BY <2>1, <2>4, <2>6, <3>1, <3>3, <3>4, <3>5, <1>1, <1>3, SubAnswers
  <2>7. CASE /\ table[t] = NoSub /\ Respond(Ok(nextId))
             /\ table' = [table EXCEPT ![t] = [id |-> nextId, next |-> 1]]
             /\ nextId' = nextId + 1
    <3>1. [id |-> nextId, next |-> 1] \in [id : Nat, next : Nat]
      BY <2>3
    <3>2. /\ table' \in [Topics -> [id : Nat, next : Nat]]
          /\ table'[t] = [id |-> nextId, next |-> 1]
          /\ \A x \in Topics : x # t => table'[x] = table[x]
      BY <2>2, <2>3, <2>7, <3>1
    <3>3. DelegateTyped'
      BY <2>1, <2>3, <2>7, <3>2, <1>1, <1>2 DEF DelegateTyped
    <3>4. PICK r \in Results : r = Ok(nextId)
      BY <2>3, <2>5
    <3>5. r.status = "ok" /\ r.id = nextId /\ r.boot = boot /\ r.id \in Nat \ {0}
      BY <2>3, <2>5, <3>4
    <3>6. Respond(r)
      BY <2>7, <3>4
    <3>7. table'[bridge.request.topic].id = r.id
      BY <3>2, <3>5 DEF t
    <3>8. /\ \A x \in Topics : table[x] # NoSub => table'[x] = table[x]
          /\ \A x \in Topics : table'[x] # NoSub => table'[x].id # 0
      BY <2>3, <2>7, <3>2, <1>3
    <3>9. QED
      BY <2>1, <2>4, <3>3, <3>5, <3>6, <3>7, <3>8, <1>1, SubAnswers
  <2>8. CASE /\ table[t] = NoSub /\ Respond([status |-> "failed"])
             /\ nextId' = nextId + 1 /\ UNCHANGED table
    <3>1. DelegateTyped'
      BY <2>1, <2>3, <2>8, <1>1, <1>2 DEF DelegateTyped
    <3>2. [status |-> "failed"] \in Results
      BY DEF Results
    <3>3. QED
      BY <2>1, <2>4, <2>8, <3>1, <3>2, <1>1, <1>3, SubAnswers
  <2>9. QED
    BY <2>1, <2>6, <2>7, <2>8
<1>7. CASE HandleUnsubscribe
  <2> DEFINE id == bridge.request.id
  <2>1. /\ bridge # NoFrame /\ bridge.request.kind = "unsubscribe"
        /\ UNCHANGED <<boot, greeted, nextId, events, stage>>
        /\ \/ /\ Respond([status |-> "ok"])
              /\ table' = [t \in Topics |-> IF table[t].id = id THEN NoSub ELSE table[t]]
           \/ Respond([status |-> "failed"]) /\ UNCHANGED table
    BY <1>7 DEF HandleUnsubscribe, Handling, outbox
  <2>2. id \in released
    <3>1. bridge \in Under
      BY <2>1 DEF Under
    <3>2. QED
      BY <2>1, <3>1 DEF RequestsOK
  <2>3. table \in [Topics -> [id : Nat, next : Nat]] /\ NoSub \in [id : Nat, next : Nat]
    BY <1>2 DEF DelegateTyped, NoSub
  <2> HIDE DEF id
  <2>4. EventsTyped'
    BY <2>1, <1>1, <1>2 DEF EventsTyped
  <2>5. [status |-> "ok"] \in Results /\ [status |-> "failed"] \in Results
    BY DEF Results
  <2>6. CASE /\ Respond([status |-> "ok"])
             /\ table' = [t \in Topics |-> IF table[t].id = id THEN NoSub ELSE table[t]]
    <3>1. DelegateTyped'
      BY <2>1, <2>3, <2>6, <1>1, <1>2 DEF DelegateTyped
    <3>2. /\ \A t \in Topics : table[t].id \notin released => table'[t] = table[t]
          /\ \A t \in Topics : table'[t] # NoSub => table'[t].id # 0
      BY <2>2, <2>6, <1>3
    <3>3. QED
      BY <2>1, <2>4, <2>5, <2>6, <3>1, <3>2, <1>1, SubAnswers
  <2>7. CASE Respond([status |-> "failed"]) /\ UNCHANGED table
    <3>1. DelegateTyped'
      BY <2>1, <2>7, <1>1, <1>2 DEF DelegateTyped
    <3>2. QED
      BY <2>1, <2>4, <2>5, <2>7, <3>1, <1>1, <1>3, SubAnswers
  <2>8. QED
    BY <2>1, <2>6, <2>7
<1>8. QED
  BY <1>4, <1>5, <1>6, <1>7 DEF HandleRequest

(* The delegate restarts: its answers are of an earlier boot.               *)
LEMMA SubRestartStep ==
  ASSUME SubInv, SubRestart
  PROVE  SubInv'
<1> /\ SubTypes /\ RequestsOK /\ BootsOK /\ AnswersOK /\ KnownOK /\ SlotsOK
  BY DEF SubInv
<1>1. /\ UNCHANGED <<correlation, awaiting, replies, session, peerBoot, task, slot>>
      /\ UNCHANGED <<held, upcall, inbox, given>>
      /\ frames' = <<>> /\ bridge' = NoFrame
      /\ boot' = boot + 1 /\ greeted' = FALSE /\ nextId' = 1
      /\ table' = [t \in Topics |-> NoSub]
      /\ events' = <<>> /\ stage' = 0 /\ released' = {}
  BY DEF SubRestart, LoseFrames, subscriber, arrivals
<1>2. boot \in Nat /\ boot > 0 /\ peerBoot \in Nat
  BY DEF SubTypes, DelegateTyped, CallTyped
<1>3. PICK b \in Nat : b = boot + 1 /\ b > boot /\ b > 0
  BY <1>2
<1>4. boot' = b
  BY <1>1, <1>3
<1>5. Under' = {} /\ Answers' = Answers /\ SubRequest' = SubRequest /\ Allocated' = Allocated
  BY <1>1 DEF Under, Answers, SubRequest, Allocated, At
<1>6. Len(frames') = 0 /\ frames' \in Seq(SubFrame) /\ Len(events') = 0 /\ events' \in Seq(Event)
  BY <1>1
<1>7. LinkTyped'
  BY <1>1, <1>6, SubBounds DEF SubTypes, LinkTyped
<1>8. NoSub \in [id : Nat, next : Nat] /\ 0 \in 0..(Chunks + 1)
  BY SubBounds DEF NoSub
<1>9. DelegateTyped'
  <2>1. table' \in [Topics -> [id : Nat, next : Nat]]
    BY <1>1, <1>8
  <2>2. boot' \in Nat /\ boot' > 0
    BY <1>3, <1>4
  <2>3. nextId' = 1 /\ greeted' = FALSE /\ released' = {}
    BY <1>1
  <2>4. nextId' \in Nat /\ nextId' > 0 /\ released' \subseteq Nat
    BY <2>3
  <2>5. greeted' \in BOOLEAN
    BY <2>3, Zenon
  <2>6. QED
    BY <2>1, <2>2, <2>4, <2>5 DEF DelegateTyped
<1>10. EventsTyped'
  BY <1>1, <1>6, <1>8, SubBounds DEF SubTypes, EventsTyped
<1>11. CallTyped'
  BY <1>1 DEF SubTypes, CallTyped
<1>12. SubTypes'
  BY <1>7, <1>9, <1>10, <1>11 DEF SubTypes
<1>13. RequestsOK'
  BY <1>1, <1>5 DEF RequestsOK, Latest, Exchanging, At
<1>14. \A s \in Slots : slot[s].boot \in Nat /\ slot[s].boot <= boot
  BY SubCallFacts DEF BootsOK
<1>15. \A s \in Slots : slot[s].boot <= b /\ slot[s].boot # b
  BY <1>2, <1>3, <1>14
<1>16. peerBoot <= b
  BY <1>2, <1>3 DEF BootsOK
<1>17. BootsOK'
  BY <1>1, <1>4, <1>5, <1>15, <1>16 DEF BootsOK, At
<1>18. KnownOK'
  BY <1>1, <1>4, <1>15 DEF KnownOK
<1>19. AnswersOK'
  <2>1. \A n \in 1..boot : n \in 1..b /\ n # b
    BY <1>2, <1>3
  <2>2. Latest' <=> Latest
    BY <1>1 DEF Latest
  <2>3. QED
    BY <1>1, <1>4, <1>5, <2>1, <2>2 DEF AnswersOK
<1>20. SlotsOK'
  BY <1>1, <1>5 DEF SlotsOK, At
<1>21. QED
  BY <1>12, <1>13, <1>17, <1>18, <1>19, <1>20 DEF SubInv

(* Steps that change neither calls nor what the delegate knows.             *)
LEMMA SubLinkStep ==
  ASSUME SubInv,
         \/ DropStaleResponse /\ UNCHANGED <<subscriber, arrivals, registry, outbox, history>>
         \/ TakeFrame /\ UNCHANGED <<subscriber, arrivals, registry, outbox, history>>
         \/ UNCHANGED subVars
  PROVE  SubInv'
<1> SubTypes
  BY DEF SubInv
<1>1. /\ UNCHANGED <<correlation, awaiting, session, peerBoot, task, slot, boot, released>>
      /\ UNCHANGED <<greeted, table, nextId, held, upcall, inbox, events, stage, given>>
  BY DEF DropStaleResponse, TakeFrame, subVars, link, subscriber, arrivals, registry, outbox,
         history
<1>2. /\ correlation \in Nat /\ correlation > 0 /\ awaiting \in {0, correlation - 1}
      /\ frames \in Seq(SubFrame) /\ Len(frames) <= FrameQueue
      /\ replies \in Seq(SubReply) /\ Len(replies) <= OnTheLink
      /\ bridge = NoFrame \/ bridge \in SubFrame
  BY DEF SubTypes, LinkTyped
<1>3. Under' \subseteq Under /\ Answers' \subseteq Answers /\ LinkTyped'
  <2>1. CASE DropStaleResponse
    <3>1. /\ replies # <<>> /\ replies' = Tail(replies)
          /\ UNCHANGED <<frames, bridge, correlation, awaiting>>
      BY <2>1 DEF DropStaleResponse
    <3>2. /\ replies' \in Seq(SubReply) /\ Len(replies') <= OnTheLink
          /\ \A p \in DOMAIN replies' : p + 1 \in DOMAIN replies /\ replies'[p] = replies[p + 1]
      BY <3>1, <1>2, HeadTailProperties, SubBounds
    <3>3. QED
      BY <3>1, <3>2, <1>2 DEF Answers, Under, LinkTyped
  <2>2. CASE TakeFrame
    <3>1. /\ frames # <<>> /\ bridge' = Head(frames) /\ frames' = Tail(frames)
          /\ UNCHANGED <<correlation, awaiting, replies>>
      BY <2>2 DEF TakeFrame
    <3>2. /\ frames' \in Seq(SubFrame) /\ Len(frames') = Len(frames) - 1 /\ Len(frames) \in Nat
          /\ \A p \in DOMAIN frames' : p + 1 \in DOMAIN frames /\ frames'[p] = frames[p + 1]
          /\ bridge' = frames[1] /\ 1 \in DOMAIN frames
      BY <3>1, <1>2, HeadTailProperties
    <3>3. frames[1] \in SubFrame
      BY <3>2, <1>2, ElementOfSeq
    <3>4. Len(frames') <= FrameQueue
      BY <3>2, <1>2, SubBounds
    <3>5. LinkTyped'
      BY <3>1, <3>2, <3>3, <3>4, <1>2 DEF LinkTyped
    <3>6. Under' \subseteq Under /\ Answers' = Answers
      BY <3>1, <3>2 DEF Under, Answers
    <3>7. QED
      BY <3>5, <3>6
  <2>3. CASE UNCHANGED subVars
    <3>1. UNCHANGED <<correlation, awaiting, frames, bridge, replies>>
      BY <2>3 DEF subVars, link
    <3>2. QED
      BY <3>1, <1>2 DEF Under, Answers, LinkTyped
  <2>4. QED
    BY <2>1, <2>2, <2>3
<1>4. CallTyped' /\ DelegateTyped' /\ EventsTyped'
  BY <1>1 DEF SubTypes, CallTyped, DelegateTyped, EventsTyped
<1>5. SubTypes'
  BY <1>3, <1>4 DEF SubTypes
<1>6. QED
  BY <1>1, <1>3, <1>5, SubQuiet

(* A subscription whose id the event carries.                               *)
LEMMA MatchingLeast ==
  ASSUME NEW id, Matching(id) # {}
  PROVE  /\ Min(Matching(id)) \in Slots /\ slot[Min(Matching(id))].active
         /\ slot[Min(Matching(id))].id = id
<1>1. Matching(id) \in SUBSET Nat
  BY SlotBounds DEF Matching
<1>2. Min(Matching(id)) \in Matching(id)
  BY <1>1, LeastOf
<1>3. QED
  BY <1>2 DEF Matching

LEMMA FoundTyped ==
  ASSUME NEW e \in EventPiece, NEW boots \in SUBSET Nat, Matching(e.id) # {}, Found(e, boots)
  PROVE  upcall' \in Upcall
<1>1. Min(Matching(e.id)) \in Slots
  BY MatchingLeast
<1>2. PICK s \in Slots : s = Min(Matching(e.id))
  BY <1>1
<1>3. upcall' = [slot |-> s, seq |-> e.seq, topic |-> e.topic, boots |-> boots, fresh |-> TRUE]
  BY <1>2 DEF Found
<1>4. e.seq \in Nat /\ e.topic \in Topics
  BY DEF EventPiece
<1>5. QED
  BY <1>3, <1>4 DEF Upcall

LEMMA HeardTyped ==
  ASSUME SubTypes, HandleEvent
  PROVE  /\ EventsTyped' /\ inbox \in Seq(EventPiece) /\ inbox # <<>>
         /\ Head(inbox) \in EventPiece /\ inbox' = Tail(inbox) /\ inbox' \in Seq(EventPiece)
         /\ Len(inbox') = Len(inbox) - 1 /\ Len(inbox) \in Nat /\ Head(inbox) = inbox[1]
         /\ \A p \in DOMAIN inbox' : p + 1 \in DOMAIN inbox /\ inbox'[p] = inbox[p + 1]
         /\ 1 \in DOMAIN inbox
<1>1. /\ held \in [id : Nat, seq : Nat, got : 0..Chunks, boots : SUBSET Nat]
      /\ inbox \in Seq(EventPiece) /\ Len(inbox) <= EventQueue
      /\ upcall = NoCall \/ upcall \in Upcall
  BY DEF SubTypes, EventsTyped
<1>2. /\ inbox # <<>> /\ upcall = NoCall /\ inbox' = Tail(inbox)
      /\ UNCHANGED <<events, stage, given>>
  BY DEF HandleEvent, outbox, history
<1>3. /\ inbox' \in Seq(EventPiece) /\ Len(inbox') = Len(inbox) - 1 /\ Len(inbox) \in Nat
      /\ \A p \in DOMAIN inbox' : p + 1 \in DOMAIN inbox /\ inbox'[p] = inbox[p + 1]
      /\ Head(inbox) = inbox[1] /\ 1 \in DOMAIN inbox
  BY <1>1, <1>2, HeadTailProperties
<1>4. Head(inbox) \in EventPiece
  BY <1>1, <1>3, ElementOfSeq
<1>5. PICK e \in EventPiece : e = Head(inbox)
  BY <1>4
<1>6. /\ e.id \in Nat /\ e.seq \in Nat /\ e.boot \in Nat /\ {e.boot} \in SUBSET Nat
  BY DEF EventPiece
<1>7. \/ UNCHANGED <<held, upcall>>
      \/ HandleDelivery(e) \/ HandleEventBegin(e) \/ HandleEventChunk(e) \/ HandleEventCommit(e)
  BY <1>5 DEF HandleEvent
<1>8. NoneHeld \in [id : Nat, seq : Nat, got : 0..Chunks, boots : SUBSET Nat]
  BY SubBounds DEF NoneHeld
<1>9. /\ held' \in [id : Nat, seq : Nat, got : 0..Chunks, boots : SUBSET Nat]
      /\ upcall' = NoCall \/ upcall' \in Upcall
  <2>1. CASE UNCHANGED <<held, upcall>>
    BY <2>1, <1>1
  <2>2. CASE HandleDelivery(e)
    <3>1. UNCHANGED held
      BY <2>2 DEF HandleDelivery
    <3>2. UNCHANGED upcall \/ (Matching(e.id) # {} /\ Found(e, {e.boot}))
      BY <2>2 DEF HandleDelivery
    <3>3. QED
      BY <3>1, <3>2, <1>1, <1>6, FoundTyped
  <2>3. CASE HandleEventBegin(e)
    <3>1. [id |-> e.id, seq |-> e.seq, got |-> 0, boots |-> {e.boot}]
            \in [id : Nat, seq : Nat, got : 0..Chunks, boots : SUBSET Nat]
      BY <1>6, SubBounds
    <3>2. QED
      BY <2>3, <3>1, <1>1, <1>8 DEF HandleEventBegin
  <2>4. CASE HandleEventChunk(e)
    <3>1. UNCHANGED upcall
      BY <2>4 DEF HandleEventChunk
    <3>2. CASE held' = NoneHeld
      BY <3>1, <3>2, <1>1, <1>8
    <3>3. CASE /\ e.part = held.got
               /\ held' = [held EXCEPT !.got = @ + 1, !.boots = @ \cup {e.boot}]
      <4>1. held.got + 1 \in 0..Chunks
        BY <2>4, <3>3, <1>1, SubBounds DEF EventPiece, HandleEventChunk
      <4>2. held.boots \cup {e.boot} \in SUBSET Nat
        BY <1>1, <1>6
      <4>3. held' = [held EXCEPT !.got = held.got + 1, !.boots = held.boots \cup {e.boot}]
        BY <3>3, <1>1
      <4>4. held' \in [id : Nat, seq : Nat, got : 0..Chunks, boots : SUBSET Nat]
        BY <4>1, <4>2, <4>3, <1>1
      <4>5. QED
        BY <4>4, <3>1, <1>1
    <3>4. QED
      BY <2>4, <3>2, <3>3 DEF HandleEventChunk
  <2>5. CASE HandleEventCommit(e)
    <3>1. held' = NoneHeld
      BY <2>5 DEF HandleEventCommit
    <3>2. UNCHANGED upcall \/ (Matching(e.id) # {} /\ Found(e, held.boots \cup {e.boot}))
      BY <2>5 DEF HandleEventCommit
    <3>3. held.boots \cup {e.boot} \in SUBSET Nat
      BY <1>1, <1>6
    <3>4. QED
      BY <3>1, <3>2, <3>3, <1>1, <1>8, FoundTyped
  <2>6. QED
    BY <1>7, <2>1, <2>2, <2>3, <2>4, <2>5
<1>10. Len(inbox') <= EventQueue
  BY <1>1, <1>3, SubBounds
<1>11. EventsTyped'
  BY <1>2, <1>3, <1>9, <1>10 DEF SubTypes, EventsTyped
<1>12. QED
  BY <1>1, <1>2, <1>3, <1>4, <1>11

LEMMA DispatchedTyped ==
  ASSUME SubTypes, DispatchDelivery
  PROVE  /\ upcall \in Upcall /\ upcall.slot \in Slots /\ upcall.seq \in Nat
         /\ slot' \in [Slots -> SubSlot]
         /\ slot'[upcall.slot] = [slot[upcall.slot] EXCEPT !.next = upcall.seq + 1]
         /\ \A s \in Slots : /\ slot'[s].topic = slot[s].topic /\ slot'[s].id = slot[s].id
                             /\ slot'[s].active = slot[s].active /\ slot'[s].boot = slot[s].boot
         /\ \A s \in Slots : given'[s] = IF s = upcall.slot /\ Own(upcall) THEN upcall.seq
                                         ELSE given[s]
         /\ EventsTyped'
<1>1. /\ upcall # NoCall /\ upcall' = NoCall
      /\ slot' = [slot EXCEPT ![upcall.slot].next = upcall.seq + 1]
      /\ given' = IF Own(upcall) THEN [given EXCEPT ![upcall.slot] = upcall.seq] ELSE given
      /\ UNCHANGED <<held, inbox, events, stage>>
  BY DEF DispatchDelivery, outbox
<1>2. /\ given \in [Slots -> Nat] /\ slot \in [Slots -> SubSlot]
      /\ upcall = NoCall \/ upcall \in Upcall
  BY DEF SubTypes, EventsTyped, CallTyped
<1>3. upcall \in Upcall /\ upcall.slot \in Slots /\ upcall.seq \in Nat
  BY <1>1, <1>2 DEF Upcall
<1>4. PICK u \in Slots : u = upcall.slot
  BY <1>3
<1>5. PICK n \in Nat : n = upcall.seq
  BY <1>3
<1>6. PICK entry : entry = [slot[u] EXCEPT !.next = n + 1]
  OBVIOUS
<1>7. /\ entry \in SubSlot /\ entry.topic = slot[u].topic /\ entry.id = slot[u].id
      /\ entry.active = slot[u].active /\ entry.boot = slot[u].boot
  BY <1>2, <1>6 DEF SubSlot
<1>8. slot' = [slot EXCEPT ![u] = entry]
  BY <1>1, <1>4, <1>5, <1>6
<1>9. /\ slot' \in [Slots -> SubSlot] /\ slot'[u] = entry
      /\ \A s \in Slots : s # u => slot'[s] = slot[s]
  BY <1>2, <1>7, <1>8
<1>10. \A s \in Slots : /\ slot'[s].topic = slot[s].topic /\ slot'[s].id = slot[s].id
                        /\ slot'[s].active = slot[s].active /\ slot'[s].boot = slot[s].boot
  BY <1>7, <1>9
<1>11. /\ given' \in [Slots -> Nat]
       /\ \A s \in Slots : given'[s] = IF s = u /\ Own(upcall) THEN n ELSE given[s]
  <2>1. given' = IF Own(upcall) THEN [given EXCEPT ![u] = n] ELSE given
    BY <1>1, <1>4, <1>5
  <2>2. QED
    BY <2>1, <1>2
<1>12. EventsTyped'
  BY <1>1, <1>11 DEF SubTypes, EventsTyped
<1>13. slot'[upcall.slot] = [slot[upcall.slot] EXCEPT !.next = upcall.seq + 1]
  BY <1>4, <1>5, <1>6, <1>9
<1>14. QED
  BY <1>3, <1>4, <1>5, <1>9, <1>10, <1>11, <1>12, <1>13

LEMMA PublishedView ==
  ASSUME SubTypes, NEW t \in Topics, NEW large \in BOOLEAN, Publish(t, large)
  PROVE  /\ table[t] # NoSub /\ table[t].id \in Nat /\ table[t].next \in Nat
         /\ table' \in [Topics -> [id : Nat, next : Nat]]
         /\ table'[t].id = table[t].id /\ table'[t].next = table[t].next + 1
         /\ \A x \in Topics : x # t => table'[x] = table[x]
         /\ events' \in Seq(Event) /\ Len(events') <= EventLimit
         /\ \/ events' = events
            \/ events' = Append(events, [id |-> table[t].id, seq |-> table[t].next,
                                         large |-> large, topic |-> t])
         /\ UNCHANGED <<link, subscriber, arrivals, boot, greeted, nextId, stage, released, given>>
<1>1. /\ table[t] # NoSub /\ table' = [table EXCEPT ![t].next = @ + 1]
      /\ \/ Len(events) < EventLimit
            /\ events' = Append(events, [id |-> table[t].id, seq |-> table[t].next,
                                         large |-> large, topic |-> t])
         \/ UNCHANGED events
      /\ UNCHANGED <<link, subscriber, arrivals, boot, greeted, nextId, stage, released, given>>
  BY DEF Publish
<1>2. /\ table \in [Topics -> [id : Nat, next : Nat]]
      /\ events \in Seq(Event) /\ Len(events) <= EventLimit
  BY DEF SubTypes, DelegateTyped, EventsTyped
<1>3. PICK i \in Nat, n \in Nat : table[t] = [id |-> i, next |-> n]
  BY <1>2
<1>4. table' = [table EXCEPT ![t] = [id |-> i, next |-> n + 1]]
  <2>1. [table[t] EXCEPT !.next = @ + 1] = [id |-> i, next |-> n + 1]
    BY <1>3
  <2>2. table' = [table EXCEPT ![t] = [table[t] EXCEPT !.next = @ + 1]]
    BY <1>1, <1>2
  <2>3. QED
    BY <2>1, <2>2
<1>5. /\ table' \in [Topics -> [id : Nat, next : Nat]] /\ table'[t] = [id |-> i, next |-> n + 1]
      /\ \A x \in Topics : x # t => table'[x] = table[x]
  BY <1>2, <1>4
<1>6. [id |-> table[t].id, seq |-> table[t].next, large |-> large, topic |-> t] \in Event
  BY <1>3 DEF Event
<1>7. events' \in Seq(Event) /\ Len(events') <= EventLimit
  <2>1. CASE UNCHANGED events
    BY <2>1, <1>2
  <2>2. CASE /\ Len(events) < EventLimit
             /\ events' = Append(events, [id |-> table[t].id, seq |-> table[t].next,
                                          large |-> large, topic |-> t])
    BY <2>2, <1>2, <1>6, AppendProperties, SubBounds
  <2>3. QED
    BY <2>1, <2>2, <1>1
<1>8. QED
  BY <1>1, <1>3, <1>5, <1>7

LEMMA SentPiece ==
  ASSUME SubTypes, SendPiece
  PROVE  \E e \in Event, p \in EventPiece :
           /\ p.id = e.id /\ p.seq = e.seq /\ p.topic = e.topic /\ p.boot = boot
           /\ 1 \in DOMAIN events /\ e = events[1]
           /\ inbox' \in Seq(EventPiece) /\ Len(inbox') <= EventQueue
           /\ inbox' = inbox \/ inbox' = Append(inbox, p)
           /\ \/ /\ p.kind \in {"inline", "commit"} /\ stage' = 0
                 /\ events' = Tail(events) /\ Len(events') = Len(events) - 1
                 /\ \A q \in DOMAIN events' : q + 1 \in DOMAIN events /\ events'[q] = events[q + 1]
              \/ p.kind \notin {"inline", "commit"} /\ stage' \in 0..(Chunks + 1)
                 /\ events' = events
           /\ events' \in Seq(Event) /\ Len(events') <= EventLimit
           /\ UNCHANGED <<link, subscriber, held, upcall, registry, history>>
<1> DEFINE e == Head(events)
           p == Piece(e)
<1>1. /\ events \in Seq(Event) /\ Len(events) <= EventLimit /\ stage \in 0..(Chunks + 1)
      /\ inbox \in Seq(EventPiece) /\ Len(inbox) <= EventQueue /\ boot \in Nat
  BY DEF SubTypes, DelegateTyped, EventsTyped
<1>2. /\ events # <<>>
      /\ inbox' = IF Len(inbox) < EventQueue THEN Append(inbox, p) ELSE inbox
      /\ IF p.kind \in {"inline", "commit"}
         THEN events' = Tail(events) /\ stage' = 0
         ELSE stage' = stage + 1 /\ UNCHANGED events
      /\ UNCHANGED <<link, subscriber, held, upcall, registry, history>>
  BY DEF SendPiece
<1>3. /\ Tail(events) \in Seq(Event) /\ Len(Tail(events)) = Len(events) - 1
      /\ \A q \in DOMAIN Tail(events) : q + 1 \in DOMAIN events /\ Tail(events)[q] = events[q + 1]
      /\ e = events[1] /\ 1 \in DOMAIN events /\ Len(events) \in Nat
  BY <1>1, <1>2, HeadTailProperties
<1>4. e \in Event
  BY <1>1, <1>3, ElementOfSeq
<1> HIDE DEF e
<1>5. PICK k \in {"inline", "begin", "chunk", "commit"} :
        /\ p = [id |-> e.id, seq |-> e.seq, topic |-> e.topic, boot |-> boot,
                part |-> stage - 1, kind |-> k]
        /\ k = "chunk" => stage \in 1..Chunks
        /\ k \notin {"inline", "commit"} => stage \in 0..Chunks
  <2>1. CASE ~ e.large
    BY <2>1 DEF Piece
  <2>2. CASE e.large /\ stage = 0
    BY <2>2, SubBounds DEF Piece
  <2>3. CASE e.large /\ stage # 0 /\ stage \in 1..Chunks
    BY <2>3, SubBounds DEF Piece
  <2>4. CASE e.large /\ stage # 0 /\ stage \notin 1..Chunks
    BY <2>4 DEF Piece
  <2>5. QED
    BY <2>1, <2>2, <2>3, <2>4
<1>6. p \in EventPiece /\ p.kind = k
  BY <1>1, <1>4, <1>5, SubBounds DEF EventPiece, Event
<1>7. p.id = e.id /\ p.seq = e.seq /\ p.topic = e.topic /\ p.boot = boot
  BY <1>5
<1> HIDE DEF p
<1>8. inbox' \in Seq(EventPiece) /\ Len(inbox') <= EventQueue
  BY <1>1, <1>2, <1>6, AppendProperties, SubBounds
<1>9. inbox' = inbox \/ inbox' = Append(inbox, p)
  BY <1>2
<1>10. \/ /\ p.kind \in {"inline", "commit"} /\ stage' = 0
          /\ events' = Tail(events) /\ Len(events') = Len(events) - 1
          /\ \A q \in DOMAIN events' : q + 1 \in DOMAIN events /\ events'[q] = events[q + 1]
       \/ p.kind \notin {"inline", "commit"} /\ stage' \in 0..(Chunks + 1)
          /\ events' = events
  <2>1. CASE p.kind \in {"inline", "commit"}
    BY <2>1, <1>2, <1>3
  <2>2. CASE p.kind \notin {"inline", "commit"}
    <3>1. stage \in 0..Chunks /\ stage' = stage + 1 /\ events' = events
      BY <2>2, <1>2, <1>5, <1>6
    <3>2. QED
      BY <3>1, <2>2, SubBounds
  <2>3. QED
    BY <2>1, <2>2
<1>11. events' \in Seq(Event) /\ Len(events') <= EventLimit
  <2>1. CASE events' = Tail(events)
    <3>1. Len(Tail(events)) <= EventLimit
      BY <1>1, <1>3, SubBounds
    <3>2. QED
      BY <2>1, <3>1, <1>3
  <2>2. CASE events' = events
    BY <2>2, <1>1
  <2>3. QED
    BY <2>1, <2>2, <1>10
<1>12. QED
  BY <1>2, <1>3, <1>4, <1>6, <1>7, <1>8, <1>9, <1>10, <1>11

LEMMA SubMessageStep ==
  ASSUME SubInv,
         \/ HandleEvent \/ DispatchDelivery \/ SendPiece
         \/ \E t \in Topics : Publish(t, TRUE) \/ Publish(t, FALSE)
  PROVE  SubInv'
<1> SubTypes /\ LinkTyped /\ CallTyped /\ DelegateTyped /\ EventsTyped
  BY DEF SubInv, SubTypes
<1>1. CASE HandleEvent
  <2>1. UNCHANGED <<link, subscriber, registry, outbox, history>>
    BY <1>1 DEF HandleEvent
  <2>2. /\ UNCHANGED <<correlation, awaiting, frames, bridge, replies>>
        /\ UNCHANGED <<session, peerBoot, task, slot, boot, greeted, table, nextId, released>>
    BY <2>1 DEF link, subscriber, registry, history
  <2>3. EventsTyped'
    BY <1>1, HeardTyped
  <2>4. SubTypes'
    BY <2>2, <2>3 DEF SubTypes, LinkTyped, CallTyped, DelegateTyped
  <2>5. Under' = Under /\ Answers' = Answers
    BY <2>2 DEF Under, Answers
  <2>6. QED
    BY <2>2, <2>4, <2>5, SubQuiet
<1>2. CASE DispatchDelivery
  <2>1. /\ UNCHANGED <<correlation, awaiting, frames, bridge, replies>>
        /\ UNCHANGED <<session, peerBoot, task, boot, greeted, table, nextId, released>>
    BY <1>2 DEF DispatchDelivery, link, registry
  <2>2. /\ slot' \in [Slots -> SubSlot] /\ EventsTyped'
        /\ \A s \in Slots : /\ slot'[s].topic = slot[s].topic /\ slot'[s].id = slot[s].id
                            /\ slot'[s].active = slot[s].active /\ slot'[s].boot = slot[s].boot
    BY <1>2, DispatchedTyped
  <2>3. SubTypes'
    BY <2>1, <2>2 DEF SubTypes, LinkTyped, CallTyped, DelegateTyped
  <2>4. Under' = Under /\ Answers' = Answers
    BY <2>1 DEF Under, Answers
  <2>5. QED
    BY <2>1, <2>2, <2>3, <2>4, SubQuiet
<1>3. CASE SendPiece
  <2>1. /\ UNCHANGED <<link, subscriber, held, upcall, registry, history>>
        /\ inbox' \in Seq(EventPiece) /\ Len(inbox') <= EventQueue
        /\ events' \in Seq(Event) /\ Len(events') <= EventLimit /\ stage' \in 0..(Chunks + 1)
    <3>1. 0 \in 0..(Chunks + 1)
      BY SubBounds
    <3>2. QED
      BY <1>3, <3>1, SentPiece
  <2>2. /\ UNCHANGED <<correlation, awaiting, frames, bridge, replies>>
        /\ UNCHANGED <<session, peerBoot, task, slot, boot, greeted, table, nextId, released>>
        /\ UNCHANGED <<held, upcall, given>>
    BY <2>1 DEF link, subscriber, registry, history
  <2>3. SubTypes'
    BY <2>1, <2>2 DEF SubTypes, LinkTyped, CallTyped, DelegateTyped, EventsTyped
  <2>4. Under' = Under /\ Answers' = Answers
    BY <2>2 DEF Under, Answers
  <2>5. QED
    BY <2>2, <2>3, <2>4, SubQuiet
<1>4. CASE \E t \in Topics : Publish(t, TRUE) \/ Publish(t, FALSE)
  <2>1. PICK t \in Topics, large \in BOOLEAN : Publish(t, large)
    BY <1>4
  <2>2. /\ table[t] # NoSub /\ table' \in [Topics -> [id : Nat, next : Nat]]
        /\ table'[t].id = table[t].id
        /\ \A x \in Topics : x # t => table'[x] = table[x]
        /\ events' \in Seq(Event) /\ Len(events') <= EventLimit
        /\ UNCHANGED <<link, subscriber, arrivals, boot, greeted, nextId, stage, released, given>>
    BY <2>1, PublishedView
  <2>3. /\ UNCHANGED <<correlation, awaiting, frames, bridge, replies>>
        /\ UNCHANGED <<session, peerBoot, task, slot, boot, greeted, nextId, released>>
        /\ UNCHANGED <<held, upcall, inbox, stage, given>>
    BY <2>2 DEF link, subscriber, arrivals
  <2>4. SubTypes'
    BY <2>2, <2>3 DEF SubTypes, LinkTyped, CallTyped, DelegateTyped, EventsTyped
  <2>5. Under' = Under /\ Answers' = Answers
    BY <2>3 DEF Under, Answers
  <2>6. \A x \in Topics : table'[x].id = table[x].id /\ (table'[x] # NoSub => table[x] # NoSub)
    BY <2>2
  <2>7. QED
    BY <2>3, <2>4, <2>5, <2>6, SubQuiet
<1>5. QED
  BY <1>1, <1>2, <1>3, <1>4

LEMMA SubInitHolds == SubInit => SubInv
<1> SUFFICES ASSUME SubInit PROVE SubInv
  OBVIOUS
<1>1. /\ correlation = 1 /\ awaiting = 0 /\ frames = <<>> /\ bridge = NoFrame /\ replies = <<>>
      /\ session = "reset" /\ peerBoot = 0 /\ task = SubIdle
      /\ slot = [s \in Slots |-> Unused]
      /\ held = NoneHeld /\ upcall = NoCall /\ inbox = <<>>
      /\ boot = 1 /\ greeted = FALSE /\ nextId = 1
      /\ table = [t \in Topics |-> NoSub] /\ events = <<>> /\ stage = 0
      /\ released = {} /\ given = [s \in Slots |-> 0]
  BY DEF SubInit, LinkInit
<1>2. \A S : <<>> \in Seq(S)
  OBVIOUS
<1>3. Len(frames) = 0 /\ Len(replies) = 0 /\ Len(inbox) = 0 /\ Len(events) = 0
  BY <1>1
<1>4. LinkTyped
  BY <1>1, <1>2, <1>3, SubBounds DEF LinkTyped
<1>5. Unused \in SubSlot /\ Unused.topic = NoTopic /\ Unused.active = FALSE /\ Unused.boot = 0
  BY DEF Unused, SubSlot
<1>6. task \in SubTask /\ task.at = "idle" /\ task.tries = 0
  BY <1>1, SubTasks
<1>7. CallTyped
  BY <1>1, <1>5, <1>6 DEF CallTyped
<1>8. NoSub \in [id : Nat, next : Nat] /\ 0 \in 0..(Chunks + 1)
  BY SubBounds DEF NoSub
<1>9. table \in [Topics -> [id : Nat, next : Nat]]
  BY <1>1, <1>8
<1>10. DelegateTyped
  <2>1. boot = 1 /\ nextId = 1 /\ greeted = FALSE /\ released = {}
    BY <1>1
  <2>2. boot \in Nat /\ boot > 0 /\ nextId \in Nat /\ nextId > 0 /\ released \subseteq Nat
    BY <2>1
  <2>3. greeted \in BOOLEAN
    BY <2>1, Zenon
  <2>4. QED
    BY <1>9, <2>2, <2>3 DEF DelegateTyped
<1>11. NoneHeld \in [id : Nat, seq : Nat, got : 0..Chunks, boots : SUBSET Nat]
  BY SubBounds DEF NoneHeld
<1>12. EventsTyped
  BY <1>1, <1>2, <1>3, <1>8, <1>11, SubBounds DEF EventsTyped
<1>13. Under = {} /\ Answers = {} /\ ~ Latest /\ Allocated = {}
  BY <1>1, <1>5, <1>6 DEF Under, Answers, Latest, Allocated
<1>14. \A s \in Slots : slot[s].active = FALSE /\ slot[s].boot = 0
  BY <1>1, <1>5
<1>15. RequestsOK /\ AnswersOK
  BY <1>1, <1>6, <1>13 DEF RequestsOK, AnswersOK
<1>16. BootsOK /\ KnownOK
  BY <1>1, <1>13, <1>14 DEF BootsOK, KnownOK
<1>17. SlotsOK
  BY <1>1, <1>6, <1>13, <1>14 DEF SlotsOK, At
<1>18. QED
  BY <1>4, <1>7, <1>10, <1>12, <1>15, <1>16, <1>17 DEF SubInv, SubTypes

LEMMA SubStep == SubInv /\ [SubNext]_subVars => SubInv'
<1> SUFFICES ASSUME SubInv, [SubNext]_subVars PROVE SubInv'
  OBVIOUS
<1>1. CASE SubConnect
  BY <1>1, SubCallStep
<1>2. CASE \E t \in Topics : Subscribe(t) \/ Publish(t, TRUE) \/ Publish(t, FALSE)
  BY <1>2, SubCallStep, SubMessageStep
<1>3. CASE \E s \in Slots : Unsubscribe(s)
  BY <1>3, SubCallStep
<1>4. CASE Application
  BY <1>4, SubSendStep, SubEndStep, SubResetStep DEF Application
<1>5. CASE HandleEvent \/ DispatchDelivery \/ SendPiece
  BY <1>5, SubMessageStep
<1>6. CASE \/ DropStaleResponse /\ UNCHANGED <<subscriber, arrivals, registry, outbox, history>>
           \/ TakeFrame /\ UNCHANGED <<subscriber, arrivals, registry, outbox, history>>
           \/ UNCHANGED subVars
  BY <1>6, SubLinkStep
<1>7. CASE HandleRequest
  BY <1>7, SubHandledStep
<1>8. CASE SubRestart
  BY <1>8, SubRestartStep
<1>9. QED
  BY <1>1, <1>2, <1>3, <1>4, <1>5, <1>6, <1>7, <1>8 DEF SubNext

LEMMA SubInvHolds == SubSpec => []SubInv
BY SubInitHolds, SubStep, PTL DEF SubSpec

(* The variables keep their types (SubTypeOK).                              *)
THEOREM SubscriptionTypeCorrect == SubSpec => []SubTypeOK
<1>1. SubInv => SubTypeOK
  BY SubTypesGive DEF SubInv, BootsOK
<1>2. QED
  BY <1>1, SubInvHolds, PTL

(* Between calls, in a session with the present boot of the delegate, every *)
(* subscription is one of the delegate's, unless it was released.           *)
THEOREM NoSubscriptionIsForgotten == SubSpec => []SubscriptionsAreKnown
<1>1. SubInv => SubscriptionsAreKnown
  <2> SUFFICES ASSUME SubInv, session = "established", At("idle"), peerBoot = boot,
                      NEW s \in Allocated
               PROVE  /\ slot[s].active
                      /\ slot[s].id \in released \/ table[slot[s].topic].id = slot[s].id
    BY DEF SubscriptionsAreKnown
  <2>1. s \in Slots
    BY DEF Allocated
  <2>2. slot[s].active
    BY DEF SubInv, SlotsOK, At
  <2>3. slot[s].boot <= boot /\ slot[s].boot >= boot
    BY <2>1, <2>2 DEF SubInv, BootsOK, At
  <2>4. slot[s].boot \in Nat /\ boot \in Nat
    BY <2>1, SubCallFacts DEF SubInv, SubTypes, DelegateTyped
  <2>5. slot[s].boot = boot
    BY <2>3, <2>4
  <2>6. QED
    BY <2>1, <2>2, <2>5 DEF SubInv, KnownOK
<1>2. QED
  BY <1>1, SubInvHolds, PTL

-----------------------------------------------------------------------------
(* Messages: the inductive invariant                                        *)

(* Who says that, in a boot of the delegate, an id is of a topic.           *)
Claim(b, id, t) == [boot |-> b, id |-> id, topic |-> t]

Live == {t \in Topics : table[t] # NoSub}
TableClaims  == {Claim(boot, table[t].id, t) : t \in Live}
SlotClaims   == {Claim(slot[s].boot, slot[s].id, slot[s].topic) : s \in {x \in Slots : slot[x].active}}
EventClaims  == {Claim(boot, events[p].id, events[p].topic) : p \in DOMAIN events}
PieceClaims  == {Claim(inbox[p].boot, inbox[p].id, inbox[p].topic) : p \in DOMAIN inbox}
AnswerClaims == {Claim(r.boot, r.id, task.topic) :
                   r \in {x \in Awaited : task.at \in {"subscribe", "reconcile"}}}
Claims == TableClaims \cup SlotClaims \cup EventClaims \cup PieceClaims \cup AnswerClaims

ClaimsOK ==
  /\ \A c \in Claims : c.boot \in 1..boot /\ c.id > 0 /\ (c.boot = boot => c.id < nextId)
  /\ \A c, d \in Claims : c.boot = d.boot /\ c.id = d.id => c.topic = d.topic

(* After the last piece of a message none of it comes any more.             *)
Last(e) == e.kind \in {"inline", "commit"}

(* Of each subscription, messages are in the order of their numbers, from   *)
(* the controller's queue through the delegate's to the next one.           *)
QueuesOK ==
  /\ \A p \in DOMAIN inbox : inbox[p].seq > 0
  /\ \A p \in DOMAIN events : events[p].seq > 0
  /\ \A t \in Live : table[t].next > 0
  /\ \A p, q \in DOMAIN inbox :
       p < q /\ inbox[p].boot = inbox[q].boot /\ inbox[p].id = inbox[q].id =>
         inbox[p].seq <= inbox[q].seq /\ (Last(inbox[p]) => inbox[p].seq < inbox[q].seq)
  /\ \A p \in DOMAIN inbox, q \in DOMAIN events :
       inbox[p].boot = boot /\ inbox[p].id = events[q].id =>
         inbox[p].seq <= events[q].seq /\ (Last(inbox[p]) => inbox[p].seq < events[q].seq)
  /\ \A p, q \in DOMAIN events :
       p < q /\ events[p].id = events[q].id => events[p].seq < events[q].seq
  /\ \A t \in Live, p \in DOMAIN inbox :
       inbox[p].boot = boot /\ inbox[p].id = table[t].id => inbox[p].seq < table[t].next
  /\ \A t \in Live, p \in DOMAIN events :
       events[p].id = table[t].id => events[p].seq < table[t].next

(* All that may still come for a subscription comes after message n.        *)
Ahead(b, id, n) ==
  /\ \A p \in DOMAIN inbox : inbox[p].boot = b /\ inbox[p].id = id => inbox[p].seq > n
  /\ b = boot =>
       /\ \A p \in DOMAIN events : events[p].id = id => events[p].seq > n
       /\ \A t \in Live : table[t].id = id => table[t].next > n

GivenOK == \A s \in Slots : slot[s].active => Ahead(slot[s].boot, slot[s].id, given[s])

PendingOK ==
  upcall # NoCall /\ Own(upcall) =>
    /\ slot[upcall.slot].active
    /\ upcall.topic = slot[upcall.slot].topic
    /\ upcall.seq > given[upcall.slot]
    /\ Ahead(slot[upcall.slot].boot, slot[upcall.slot].id, upcall.seq)

MessageInv == ClaimsOK /\ QueuesOK /\ GivenOK /\ PendingOK

-----------------------------------------------------------------------------
(* Messages: claims                                                         *)

LEMMA MessageTypes ==
  ASSUME SubInv
  PROVE  /\ boot \in Nat /\ nextId \in Nat /\ nextId > 0
         /\ inbox \in Seq(EventPiece) /\ events \in Seq(Event)
         /\ Len(inbox) \in Nat /\ Len(events) \in Nat
         /\ DOMAIN inbox = 1..Len(inbox) /\ DOMAIN events = 1..Len(events)
         /\ \A p \in DOMAIN inbox :
              /\ p \in Nat /\ inbox[p].boot \in Nat /\ inbox[p].id \in Nat /\ inbox[p].seq \in Nat
              /\ inbox[p].topic \in Topics
         /\ \A p \in DOMAIN events : /\ p \in Nat /\ events[p].id \in Nat /\ events[p].seq \in Nat
                                     /\ events[p].topic \in Topics
         /\ \A t \in Topics : table[t].id \in Nat /\ table[t].next \in Nat
         /\ \A s \in Slots : slot[s].boot \in Nat /\ slot[s].id \in Nat /\ given[s] \in Nat
<1>1. DelegateTyped /\ EventsTyped /\ CallTyped
  BY DEF SubInv, SubTypes
<1>2. \A p \in DOMAIN inbox : inbox[p] \in EventPiece
  BY <1>1, ElementOfSeq DEF EventsTyped
<1>3. \A p \in DOMAIN events : events[p] \in Event
  BY <1>1, ElementOfSeq DEF EventsTyped
<1>4. /\ inbox \in Seq(EventPiece) /\ events \in Seq(Event)
      /\ Len(inbox) \in Nat /\ Len(events) \in Nat
      /\ DOMAIN inbox = 1..Len(inbox) /\ DOMAIN events = 1..Len(events)
  BY <1>1 DEF EventsTyped
<1>5. \A p \in DOMAIN inbox :
              /\ p \in Nat /\ inbox[p].boot \in Nat /\ inbox[p].id \in Nat /\ inbox[p].seq \in Nat
              /\ inbox[p].topic \in Topics
  BY <1>2, <1>4 DEF EventPiece
<1>6. \A p \in DOMAIN events : /\ p \in Nat /\ events[p].id \in Nat /\ events[p].seq \in Nat
                               /\ events[p].topic \in Topics
  BY <1>3, <1>4 DEF Event
<1>7. \A t \in Topics : table[t].id \in Nat /\ table[t].next \in Nat
  BY <1>1 DEF DelegateTyped
<1>8. \A s \in Slots : slot[s].boot \in Nat /\ slot[s].id \in Nat /\ given[s] \in Nat
  BY <1>1 DEF CallTyped, SubSlot, EventsTyped
<1>9. QED
  BY <1>1, <1>4, <1>5, <1>6, <1>7, <1>8 DEF DelegateTyped

LEMMA AwaitedTyped ==
  ASSUME SubInv, task.at \in {"subscribe", "reconcile"}, NEW r \in Awaited
  PROVE  r.boot \in 1..boot /\ r.boot \in Nat /\ r.id \in Nat \ {0}
<1>1. PICK rep \in Answers : /\ awaiting # 0 /\ rep.id = awaiting /\ rep.result.status = "ok"
                             /\ r = rep.result
  BY DEF Awaited
<1>2. awaiting = correlation - 1 /\ Latest
  BY <1>1 DEF SubInv, SubTypes, LinkTyped, Latest
<1>3. boot \in Nat
  BY MessageTypes
<1>4. r.boot \in 1..boot /\ r.id \in Nat \ {0}
  BY <1>1, <1>2 DEF SubInv, AnswersOK
<1>5. QED
  BY <1>3, <1>4

LEMMA ClaimsTyped ==
  ASSUME SubInv, NEW c \in Claims
  PROVE  c.boot \in Nat /\ c.id \in Nat
<1>1. CASE c \in TableClaims
  BY <1>1, MessageTypes DEF TableClaims, Claim, Live
<1>2. CASE c \in SlotClaims
  BY <1>2, MessageTypes DEF SlotClaims, Claim
<1>3. CASE c \in EventClaims
  BY <1>3, MessageTypes DEF EventClaims, Claim
<1>4. CASE c \in PieceClaims
  BY <1>4, MessageTypes DEF PieceClaims, Claim
<1>5. CASE c \in AnswerClaims
  BY <1>5, AwaitedTyped DEF AnswerClaims, Claim
<1>6. QED
  BY <1>1, <1>2, <1>3, <1>4, <1>5 DEF Claims

(* Who claims what.                                                         *)
LEMMA ClaimsView ==
  /\ \A t \in Live : Claim(boot, table[t].id, t) \in Claims
  /\ \A s \in Slots : slot[s].active => Claim(slot[s].boot, slot[s].id, slot[s].topic) \in Claims
  /\ \A p \in DOMAIN events : Claim(boot, events[p].id, events[p].topic) \in Claims
  /\ \A p \in DOMAIN inbox : Claim(inbox[p].boot, inbox[p].id, inbox[p].topic) \in Claims
  /\ \A r \in Awaited : task.at \in {"subscribe", "reconcile"} =>
       Claim(r.boot, r.id, task.topic) \in Claims
<1>1. \A t \in Live : Claim(boot, table[t].id, t) \in TableClaims
  BY DEF TableClaims
<1>2. \A s \in Slots : slot[s].active => Claim(slot[s].boot, slot[s].id, slot[s].topic) \in SlotClaims
  BY DEF SlotClaims
<1>3. \A p \in DOMAIN events : Claim(boot, events[p].id, events[p].topic) \in EventClaims
  BY DEF EventClaims
<1>4. \A p \in DOMAIN inbox : Claim(inbox[p].boot, inbox[p].id, inbox[p].topic) \in PieceClaims
  BY DEF PieceClaims
<1>5. \A r \in Awaited : task.at \in {"subscribe", "reconcile"} =>
        Claim(r.boot, r.id, task.topic) \in AnswerClaims
  BY DEF AnswerClaims
<1>6. QED
  BY <1>1, <1>2, <1>3, <1>4, <1>5 DEF Claims

(* What the claims of the next state come from.                             *)
LEMMA ClaimsFrom ==
  ASSUME NEW C,
         \A t \in Live' : Claim(boot', table'[t].id, t) \in C,
         \A s \in Slots : slot'[s].active => Claim(slot'[s].boot, slot'[s].id, slot'[s].topic) \in C,
         \A p \in DOMAIN events' : Claim(boot', events'[p].id, events'[p].topic) \in C,
         \A p \in DOMAIN inbox' : Claim(inbox'[p].boot, inbox'[p].id, inbox'[p].topic) \in C,
         task'.at \in {"subscribe", "reconcile"} =>
           \A r \in Awaited' : Claim(r.boot, r.id, task'.topic) \in C
  PROVE  Claims' \subseteq C
<1>1. TableClaims' \subseteq C
  BY DEF TableClaims, Claim
<1>2. SlotClaims' \subseteq C
  BY DEF SlotClaims, Claim
<1>3. EventClaims' \subseteq C
  BY DEF EventClaims, Claim
<1>4. PieceClaims' \subseteq C
  BY DEF PieceClaims, Claim
<1>5. AnswerClaims' \subseteq C
  BY DEF AnswerClaims, Claim
<1>6. QED
  BY <1>1, <1>2, <1>3, <1>4, <1>5 DEF Claims

-----------------------------------------------------------------------------
(* Messages: the order of the queues                                        *)

LEMMA QueuesShrink ==
  ASSUME SubInv, QueuesOK, NEW k \in {0, 1}, boot' = boot,
         \A p \in DOMAIN inbox' : p \in Nat /\ p + k \in DOMAIN inbox /\ inbox'[p] = inbox[p + k],
         events' = events \/ events' = <<>>,
         \A t \in Topics : table'[t] = table[t] \/ table'[t] = NoSub
  PROVE  /\ QueuesOK'
         /\ \A b, id : \A n \in Nat : Ahead(b, id, n) => Ahead(b, id, n)'
<1>1. \A t \in Live' : t \in Live /\ table'[t] = table[t]
  BY DEF Live
<1>2. \A p \in DOMAIN events' : p \in DOMAIN events /\ events'[p] = events[p]
  OBVIOUS
<1>3. \A p, q \in DOMAIN inbox' : p < q => p + k < q + k
  OBVIOUS
<1>4. \A p, q \in DOMAIN inbox' :
        p < q /\ inbox'[p].boot = inbox'[q].boot /\ inbox'[p].id = inbox'[q].id =>
          inbox'[p].seq <= inbox'[q].seq /\ (Last(inbox'[p]) => inbox'[p].seq < inbox'[q].seq)
  BY <1>3 DEF QueuesOK
<1>5. \A p \in DOMAIN inbox', q \in DOMAIN events' :
        inbox'[p].boot = boot' /\ inbox'[p].id = events'[q].id =>
          inbox'[p].seq <= events'[q].seq /\ (Last(inbox'[p]) => inbox'[p].seq < events'[q].seq)
  BY <1>2 DEF QueuesOK
<1>6. \A t \in Live', p \in DOMAIN inbox' :
        inbox'[p].boot = boot' /\ inbox'[p].id = table'[t].id => inbox'[p].seq < table'[t].next
  BY <1>1 DEF QueuesOK
<1>7. /\ \A p \in DOMAIN inbox' : inbox'[p].seq > 0
      /\ \A p \in DOMAIN events' : events'[p].seq > 0
      /\ \A t \in Live' : table'[t].next > 0
  BY <1>1, <1>2 DEF QueuesOK
<1>8. \A p, q \in DOMAIN events' :
        p < q /\ events'[p].id = events'[q].id => events'[p].seq < events'[q].seq
  BY <1>2 DEF QueuesOK
<1>9. \A t \in Live', p \in DOMAIN events' :
        events'[p].id = table'[t].id => events'[p].seq < table'[t].next
  BY <1>1, <1>2 DEF QueuesOK
<1>10. QueuesOK'
  BY <1>4, <1>5, <1>6, <1>7, <1>8, <1>9 DEF QueuesOK, Last
<1>11. \A b, id : \A n \in Nat : Ahead(b, id, n) => Ahead(b, id, n)'
  BY <1>1, <1>2 DEF Ahead
<1>12. QED
  BY <1>10, <1>11

(* The delegate restarts: what has reached the controller stays in order.   *)
LEMMA QueuesRestart ==
  ASSUME QueuesOK, inbox' = inbox, events' = <<>>, \A t \in Topics : table'[t] = NoSub
  PROVE  /\ QueuesOK'
         /\ \A b, id : \A n \in Nat : Ahead(b, id, n) => Ahead(b, id, n)'
<1>1. Live' = {} /\ DOMAIN events' = {}
  BY DEF Live
<1>2. QueuesOK'
  BY <1>1 DEF QueuesOK, Last
<1>3. \A b, id : \A n \in Nat : Ahead(b, id, n) => Ahead(b, id, n)'
  BY <1>1 DEF Ahead
<1>4. QED
  BY <1>2, <1>3

(* A topic is registered under an id that nothing claims yet.               *)
LEMMA QueuesRegister ==
  ASSUME SubInv, ClaimsOK, QueuesOK, UNCHANGED <<inbox, events, boot>>,
         NEW t \in Topics, table'[t] = [id |-> nextId, next |-> 1],
         \A x \in Topics : x # t => table'[x] = table[x]
  PROVE  /\ QueuesOK'
         /\ \A b, id : \A n \in Nat : Ahead(b, id, n) /\ (b = boot => id # nextId) => Ahead(b, id, n)'
<1>1. \A x \in Live' : \/ x \in Live /\ table'[x] = table[x]
                       \/ x = t /\ table'[x].id = nextId /\ table'[x].next = 1
  BY DEF Live
<1>2. nextId \in Nat
  BY MessageTypes
<1>3. \A p \in DOMAIN inbox : inbox[p].boot = boot => inbox[p].id # nextId
  <2> SUFFICES ASSUME NEW p \in DOMAIN inbox, inbox[p].boot = boot PROVE inbox[p].id # nextId
    OBVIOUS
  <2>1. PICK c \in Claims : c = Claim(inbox[p].boot, inbox[p].id, inbox[p].topic)
    BY ClaimsView
  <2>2. c.id < nextId /\ c.id = inbox[p].id
    BY <2>1 DEF ClaimsOK, Claim
  <2>3. QED
    BY <2>2, <1>2
<1>4. \A p \in DOMAIN events : events[p].id # nextId
  <2> SUFFICES ASSUME NEW p \in DOMAIN events PROVE events[p].id # nextId
    OBVIOUS
  <2>1. PICK c \in Claims : c = Claim(boot, events[p].id, events[p].topic)
    BY ClaimsView
  <2>2. c.id < nextId /\ c.id = events[p].id
    BY <2>1 DEF ClaimsOK, Claim
  <2>3. QED
    BY <2>2, <1>2
<1>5. \A x \in Live', p \in DOMAIN inbox' :
        inbox'[p].boot = boot' /\ inbox'[p].id = table'[x].id => inbox'[p].seq < table'[x].next
  BY <1>1, <1>3 DEF QueuesOK
<1>6. \A x \in Live', p \in DOMAIN events' :
        events'[p].id = table'[x].id => events'[p].seq < table'[x].next
  BY <1>1, <1>4 DEF QueuesOK
<1>7. \A x \in Live' : table'[x].next > 0
  BY <1>1 DEF QueuesOK
<1>8. QueuesOK'
  BY <1>5, <1>6, <1>7 DEF QueuesOK, Last
<1>9. \A b, id : \A n \in Nat : Ahead(b, id, n) /\ (b = boot => id # nextId) => Ahead(b, id, n)'
  BY <1>1 DEF Ahead
<1>10. QED
  BY <1>8, <1>9

(* A message of a topic comes after those that are queued.                  *)
LEMMA QueuesPublish ==
  ASSUME SubInv, ClaimsOK, QueuesOK, NEW t \in Topics, NEW large \in BOOLEAN, Publish(t, large)
  PROVE  /\ QueuesOK'
         /\ \A b, id : \A n \in Nat : Ahead(b, id, n) => Ahead(b, id, n)'
<1>1. /\ table[t] # NoSub /\ table[t].id \in Nat /\ table[t].next \in Nat
      /\ table'[t].id = table[t].id /\ table'[t].next = table[t].next + 1
      /\ \A x \in Topics : x # t => table'[x] = table[x]
      /\ \/ events' = events
         \/ events' = Append(events, [id |-> table[t].id, seq |-> table[t].next,
                                      large |-> large, topic |-> t])
      /\ UNCHANGED <<inbox, boot>>
  BY PublishedView DEF SubInv, arrivals
<1>2. PICK i \in Nat, m \in Nat : i = table[t].id /\ m = table[t].next /\ m > 0
  BY <1>1 DEF QueuesOK, Live
<1>3. PICK new \in {[id |-> i, seq |-> m, large |-> large, topic |-> t]} :
        /\ new = [id |-> i, seq |-> m, large |-> large, topic |-> t]
        /\ new.id = i /\ new.seq = m
  OBVIOUS
<1>4. /\ events \in Seq(Event) /\ Len(events) \in Nat /\ DOMAIN events = 1..Len(events)
      /\ \A p \in DOMAIN events : p \in Nat /\ events[p].id \in Nat /\ events[p].seq \in Nat
      /\ \A p \in DOMAIN inbox : inbox[p].id \in Nat /\ inbox[p].seq \in Nat
      /\ \A x \in Topics : table[x].id \in Nat /\ table[x].next \in Nat
  BY MessageTypes
<1>5. \A p \in DOMAIN events' :
        \/ p \in DOMAIN events /\ events'[p] = events[p]
        \/ p = Len(events) + 1 /\ events'[p] = new
  <2>1. CASE events' = events
    BY <2>1
  <2>2. CASE events' = Append(events, new)
    <3>1. new \in Event
      BY <1>3 DEF Event
    <3>2. QED
      BY <2>2, <3>1, <1>4, AppendProperties
  <2>3. QED
    BY <2>1, <2>2, <1>1, <1>2, <1>3
<1>6. t \in Live /\ t \in Live'
  <2>1. t \in Live
    BY <1>1 DEF Live
  <2>2. table[t].next + 1 # 0
    BY <1>1
  <2>3. table'[t] # NoSub
    BY <2>2, <1>1 DEF NoSub
  <2>4. QED
    BY <2>1, <2>3 DEF Live
<1>7. \A x \in Live' : /\ x \in Live /\ x \in Topics
                       /\ x # t => table'[x] = table[x]
  BY <1>1, <1>6 DEF Live
<1>8. \A x \in Live : x # t => table[x].id # i
  <2> SUFFICES ASSUME NEW x \in Live, x # t, table[x].id = i PROVE FALSE
    OBVIOUS
  <2>1. PICK c \in Claims : c = Claim(boot, table[x].id, x)
    BY ClaimsView
  <2>2. PICK d \in Claims : d = Claim(boot, table[t].id, t)
    BY <1>6, ClaimsView
  <2>3. c.boot = d.boot /\ c.id = d.id /\ c.topic = x /\ d.topic = t
    BY <2>1, <2>2, <1>2 DEF Claim
  <2>4. QED
    BY <2>3 DEF ClaimsOK
<1>9. table'[t].id = i /\ table'[t].next = m + 1
  BY <1>1, <1>2
<1>10. \A p \in DOMAIN inbox : inbox[p].boot = boot /\ inbox[p].id = i => inbox[p].seq < m
  BY <1>2, <1>6 DEF QueuesOK
<1>11. \A p \in DOMAIN events : events[p].id = i => events[p].seq < m
  BY <1>2, <1>6 DEF QueuesOK
<1>12. \A p, q \in DOMAIN events' :
         p < q /\ events'[p].id = events'[q].id => events'[p].seq < events'[q].seq
  BY <1>3, <1>4, <1>5, <1>11 DEF QueuesOK
<1>13. \A p \in DOMAIN inbox', q \in DOMAIN events' :
         inbox'[p].boot = boot' /\ inbox'[p].id = events'[q].id =>
           inbox'[p].seq <= events'[q].seq /\ (Last(inbox'[p]) => inbox'[p].seq < events'[q].seq)
  <2> SUFFICES ASSUME NEW p \in DOMAIN inbox, NEW q \in DOMAIN events',
                      inbox[p].boot = boot, inbox[p].id = events'[q].id
               PROVE  inbox[p].seq <= events'[q].seq /\ (Last(inbox[p]) => inbox[p].seq < events'[q].seq)
    BY <1>1 DEF Last
  <2>1. CASE q \in DOMAIN events /\ events'[q] = events[q]
    BY <2>1 DEF QueuesOK
  <2>2. CASE events'[q] = new
    <3>1. inbox[p].seq < m /\ inbox[p].seq \in Nat
      BY <2>2, <1>3, <1>4, <1>10
    <3>2. QED
      BY <2>2, <3>1, <1>3
  <2>3. QED
    BY <2>1, <2>2, <1>5
<1>14. \A x \in Live', p \in DOMAIN inbox' :
         inbox'[p].boot = boot' /\ inbox'[p].id = table'[x].id => inbox'[p].seq < table'[x].next
  <2> SUFFICES ASSUME NEW x \in Live', NEW p \in DOMAIN inbox,
                      inbox[p].boot = boot, inbox[p].id = table'[x].id
               PROVE  inbox[p].seq < table'[x].next
    BY <1>1
  <2>1. CASE x = t
    <3>1. inbox[p].seq < m /\ inbox[p].seq \in Nat
      BY <2>1, <1>4, <1>9, <1>10
    <3>2. QED
      BY <2>1, <3>1, <1>9
  <2>2. CASE x # t
    BY <2>2, <1>7 DEF QueuesOK
  <2>3. QED
    BY <2>1, <2>2
<1>15. \A x \in Live', p \in DOMAIN events' :
         events'[p].id = table'[x].id => events'[p].seq < table'[x].next
  <2> SUFFICES ASSUME NEW x \in Live', NEW p \in DOMAIN events', events'[p].id = table'[x].id
               PROVE  events'[p].seq < table'[x].next
    OBVIOUS
  <2>1. CASE x = t
    <3>1. events'[p].seq \in Nat /\ events'[p].seq <= m
      BY <2>1, <1>3, <1>4, <1>5, <1>9, <1>11
    <3>2. QED
      BY <2>1, <3>1, <1>9
  <2>2. CASE x # t
    <3>1. events'[p].id # i /\ x \in Live /\ table'[x] = table[x]
      BY <2>2, <1>7, <1>8
    <3>2. p \in DOMAIN events /\ events'[p] = events[p]
      BY <3>1, <1>3, <1>5
    <3>3. QED
      BY <3>1, <3>2 DEF QueuesOK
  <2>3. QED
    BY <2>1, <2>2
<1>16. /\ \A p \in DOMAIN inbox' : inbox'[p].seq > 0
       /\ \A p \in DOMAIN events' : events'[p].seq > 0
  BY <1>1, <1>2, <1>3, <1>5 DEF QueuesOK
<1>17. \A x \in Live' : table'[x].next > 0
  BY <1>2, <1>7, <1>9 DEF QueuesOK
<1>18. QueuesOK'
  <2>1. \A p, q \in DOMAIN inbox' :
          p < q /\ inbox'[p].boot = inbox'[q].boot /\ inbox'[p].id = inbox'[q].id =>
            inbox'[p].seq <= inbox'[q].seq /\ (Last(inbox'[p]) => inbox'[p].seq < inbox'[q].seq)
    BY <1>1 DEF QueuesOK
  <2>2. QED
    BY <2>1, <1>12, <1>13, <1>14, <1>15, <1>16, <1>17 DEF QueuesOK, Last
<1>19. ASSUME NEW b, NEW id, NEW n \in Nat, Ahead(b, id, n) PROVE Ahead(b, id, n)'
  <2>1. \A p \in DOMAIN inbox' : inbox'[p].boot = b /\ inbox'[p].id = id => inbox'[p].seq > n
    BY <1>1, <1>19 DEF Ahead
  <2>2. ASSUME b = boot', NEW p \in DOMAIN events', events'[p].id = id PROVE events'[p].seq > n
    <3>1. CASE p \in DOMAIN events /\ events'[p] = events[p]
      BY <3>1, <2>2, <1>1, <1>19 DEF Ahead
    <3>2. CASE events'[p] = new
      BY <3>2, <2>2, <1>1, <1>2, <1>3, <1>6, <1>19 DEF Ahead
    <3>3. QED
      BY <3>1, <3>2, <1>5
  <2>3. ASSUME b = boot', NEW x \in Live', table'[x].id = id PROVE table'[x].next > n
    <3>1. CASE x = t
      <4>1. m > n /\ i = id
        BY <3>1, <2>3, <1>1, <1>2, <1>6, <1>9, <1>19 DEF Ahead
      <4>2. QED
        BY <4>1, <3>1, <1>9
    <3>2. CASE x # t
      BY <3>2, <2>3, <1>1, <1>7, <1>19 DEF Ahead
    <3>3. QED
      BY <3>1, <3>2
  <2>4. QED
    BY <2>1, <2>2, <2>3 DEF Ahead
<1>20. QED
  BY <1>18, <1>19

(* A piece of the first message goes from the delegate's queue to the       *)
(* controller's, or is lost on the way.                                     *)
LEMMA QueuesSend ==
  ASSUME SubInv, QueuesOK, SendPiece
  PROVE  /\ QueuesOK'
         /\ \A b, id : \A n \in Nat : Ahead(b, id, n) => Ahead(b, id, n)'
         /\ \A q \in DOMAIN events' : \E p \in DOMAIN events : events'[q] = events[p]
         /\ \A q \in DOMAIN inbox' : \/ \E p \in DOMAIN inbox : inbox'[q] = inbox[p]
                                     \/ \E p \in DOMAIN events :
                                          /\ inbox'[q].boot = boot /\ inbox'[q].id = events[p].id
                                          /\ inbox'[q].topic = events[p].topic
         /\ UNCHANGED <<link, subscriber, held, upcall, registry, history>>
<1>1. PICK e \in Event, piece \in EventPiece :
           /\ piece.id = e.id /\ piece.seq = e.seq /\ piece.topic = e.topic /\ piece.boot = boot
           /\ 1 \in DOMAIN events /\ e = events[1]
           /\ inbox' \in Seq(EventPiece) /\ Len(inbox') <= EventQueue
           /\ inbox' = inbox \/ inbox' = Append(inbox, piece)
           /\ \/ /\ piece.kind \in {"inline", "commit"} /\ stage' = 0
                 /\ events' = Tail(events) /\ Len(events') = Len(events) - 1
                 /\ \A q \in DOMAIN events' : q + 1 \in DOMAIN events /\ events'[q] = events[q + 1]
              \/ piece.kind \notin {"inline", "commit"} /\ stage' \in 0..(Chunks + 1)
                 /\ events' = events
           /\ events' \in Seq(Event) /\ Len(events') <= EventLimit
           /\ UNCHANGED <<link, subscriber, held, upcall, registry, history>>
  BY SentPiece DEF SubInv
<1>2. /\ inbox \in Seq(EventPiece) /\ events \in Seq(Event)
      /\ Len(inbox) \in Nat /\ DOMAIN inbox = 1..Len(inbox)
      /\ \A p \in DOMAIN inbox : p \in Nat /\ inbox[p].seq \in Nat
      /\ \A p \in DOMAIN events : p \in Nat /\ p >= 1 /\ events[p].seq \in Nat
  BY MessageTypes
<1>3. \A p \in DOMAIN inbox' :
        \/ p \in DOMAIN inbox /\ inbox'[p] = inbox[p]
        \/ p = Len(inbox) + 1 /\ inbox'[p] = piece
  <2>1. CASE inbox' = inbox
    BY <2>1
  <2>2. CASE inbox' = Append(inbox, piece)
    BY <2>2, <1>2, AppendProperties
  <2>3. QED
    BY <2>1, <2>2, <1>1
<1>4. PICK k \in {0, 1} :
        /\ \A q \in DOMAIN events' : /\ q \in Nat /\ q + k \in DOMAIN events
                                     /\ events'[q] = events[q + k] /\ q + k >= 1
        /\ Last(piece) => k = 1
  <2>1. DOMAIN events' = 1..Len(events') /\ Len(events') \in Nat
    BY <1>1
  <2>2. CASE piece.kind \in {"inline", "commit"}
    <3>1. \A q \in DOMAIN events' : q + 1 \in DOMAIN events /\ events'[q] = events[q + 1]
      BY <2>2, <1>1
    <3>2. \A q \in DOMAIN events' : q \in Nat /\ q + 1 >= 1
      BY <2>1
    <3>3. QED
      BY <3>1, <3>2
  <2>3. CASE piece.kind \notin {"inline", "commit"}
    <3>1. events' = events /\ ~ Last(piece)
      BY <2>3, <1>1 DEF Last
    <3>2. \A q \in DOMAIN events' : q \in Nat /\ q + 0 = q /\ q >= 1
      BY <2>1
    <3>3. QED
      BY <3>1, <3>2
  <2>4. QED
    BY <2>2, <2>3
<1>5. boot' = boot /\ table' = table /\ Live' = Live
  BY <1>1 DEF registry, Live
<1>6. PICK i \in Nat, m \in Nat : /\ i = piece.id /\ m = piece.seq /\ m > 0
                                  /\ events[1].id = i /\ events[1].seq = m
  BY <1>1 DEF QueuesOK, Event
<1>7. \A q \in DOMAIN events' : events'[q].id = i =>
        m <= events'[q].seq /\ (Last(piece) => m < events'[q].seq)
  <2> SUFFICES ASSUME NEW q \in DOMAIN events', events'[q].id = i
               PROVE  m <= events'[q].seq /\ (Last(piece) => m < events'[q].seq)
    OBVIOUS
  <2>1. PICK x \in DOMAIN events : x = q + k /\ events'[q] = events[x] /\ x >= 1 /\ q \in Nat
    BY <1>4
  <2>2. DOMAIN events' = 1..Len(events')
    BY <1>1
  <2>3. q >= 1
    BY <2>2
  <2>4. CASE x = 1
    <3>1. ~ Last(piece)
      BY <2>1, <2>3, <2>4, <1>4
    <3>2. QED
      BY <3>1, <2>1, <2>4, <1>6
  <2>5. CASE x # 1
    <3>1. 1 < x
      BY <2>1, <2>5, <1>2
    <3>2. m < events[x].seq
      BY <3>1, <2>1, <1>1, <1>6 DEF QueuesOK
    <3>3. QED
      BY <3>2, <2>1, <1>2
  <2>6. QED
    BY <2>4, <2>5
<1>8. \A p \in DOMAIN inbox : inbox[p].boot = boot /\ inbox[p].id = i =>
        inbox[p].seq <= m /\ (Last(inbox[p]) => inbox[p].seq < m)
  BY <1>1, <1>6 DEF QueuesOK
<1>9. \A t \in Live : table[t].id = i => m < table[t].next
  BY <1>1, <1>6 DEF QueuesOK
<1>10. \A p, q \in DOMAIN inbox' :
         p < q /\ inbox'[p].boot = inbox'[q].boot /\ inbox'[p].id = inbox'[q].id =>
           inbox'[p].seq <= inbox'[q].seq /\ (Last(inbox'[p]) => inbox'[p].seq < inbox'[q].seq)
  <2> SUFFICES ASSUME NEW p \in DOMAIN inbox', NEW q \in DOMAIN inbox',
                      p < q, inbox'[p].boot = inbox'[q].boot, inbox'[p].id = inbox'[q].id
               PROVE  /\ inbox'[p].seq <= inbox'[q].seq
                      /\ Last(inbox'[p]) => inbox'[p].seq < inbox'[q].seq
    OBVIOUS
  <2>1. p \in DOMAIN inbox /\ inbox'[p] = inbox[p]
    <3>1. \A x \in DOMAIN inbox : x <= Len(inbox)
      BY <1>2
    <3>2. p # Len(inbox) + 1
      <4>1. q \in Nat /\ q <= Len(inbox) + 1
        BY <3>1, <1>2, <1>3
      <4>2. QED
        BY <4>1, <1>2
    <3>3. QED
      BY <3>2, <1>3
  <2>2. CASE q \in DOMAIN inbox /\ inbox'[q] = inbox[q]
    BY <2>1, <2>2 DEF QueuesOK
  <2>3. CASE inbox'[q] = piece
    BY <2>1, <2>3, <1>1, <1>6, <1>8
  <2>4. QED
    BY <2>2, <2>3, <1>3
<1>11. \A p \in DOMAIN inbox', q \in DOMAIN events' :
         inbox'[p].boot = boot' /\ inbox'[p].id = events'[q].id =>
           inbox'[p].seq <= events'[q].seq /\ (Last(inbox'[p]) => inbox'[p].seq < events'[q].seq)
  <2> SUFFICES ASSUME NEW p \in DOMAIN inbox', NEW q \in DOMAIN events',
                      inbox'[p].boot = boot', inbox'[p].id = events'[q].id
               PROVE  /\ inbox'[p].seq <= events'[q].seq
                      /\ Last(inbox'[p]) => inbox'[p].seq < events'[q].seq
    OBVIOUS
  <2>1. CASE p \in DOMAIN inbox /\ inbox'[p] = inbox[p]
    BY <2>1, <1>4, <1>5 DEF QueuesOK
  <2>2. CASE inbox'[p] = piece
    BY <2>2, <1>6, <1>7
  <2>3. QED
    BY <2>1, <2>2, <1>3
<1>12. \A p, q \in DOMAIN events' :
         p < q /\ events'[p].id = events'[q].id => events'[p].seq < events'[q].seq
  <2> SUFFICES ASSUME NEW p \in DOMAIN events', NEW q \in DOMAIN events', p < q,
                      events'[p].id = events'[q].id
               PROVE  events'[p].seq < events'[q].seq
    OBVIOUS
  <2>1. p + k < q + k
    BY <1>4
  <2>2. QED
    BY <2>1, <1>4 DEF QueuesOK
<1>13. \A t \in Live', p \in DOMAIN inbox' :
         inbox'[p].boot = boot' /\ inbox'[p].id = table'[t].id => inbox'[p].seq < table'[t].next
  <2> SUFFICES ASSUME NEW t \in Live, NEW p \in DOMAIN inbox',
                      inbox'[p].boot = boot, inbox'[p].id = table[t].id
               PROVE  inbox'[p].seq < table[t].next
    BY <1>5
  <2>1. CASE p \in DOMAIN inbox /\ inbox'[p] = inbox[p]
    BY <2>1 DEF QueuesOK
  <2>2. CASE inbox'[p] = piece
    BY <2>2, <1>6, <1>9
  <2>3. QED
    BY <2>1, <2>2, <1>3
<1>14. \A t \in Live', p \in DOMAIN events' :
         events'[p].id = table'[t].id => events'[p].seq < table'[t].next
  BY <1>4, <1>5 DEF QueuesOK
<1>15. /\ \A p \in DOMAIN inbox' : inbox'[p].seq > 0
       /\ \A p \in DOMAIN events' : events'[p].seq > 0
       /\ \A t \in Live' : table'[t].next > 0
  <2>1. \A p \in DOMAIN inbox' : inbox'[p].seq > 0
    BY <1>3, <1>6 DEF QueuesOK
  <2>2. \A p \in DOMAIN events' : events'[p].seq > 0
    BY <1>4 DEF QueuesOK
  <2>3. QED
    BY <2>1, <2>2, <1>5 DEF QueuesOK
<1>16. QueuesOK'
  BY <1>10, <1>11, <1>12, <1>13, <1>14, <1>15 DEF QueuesOK, Last
<1>17. ASSUME NEW b, NEW id, NEW n \in Nat, Ahead(b, id, n) PROVE Ahead(b, id, n)'
  <2>1. ASSUME NEW p \in DOMAIN inbox', inbox'[p].boot = b, inbox'[p].id = id
        PROVE  inbox'[p].seq > n
    <3>1. CASE p \in DOMAIN inbox /\ inbox'[p] = inbox[p]
      BY <3>1, <2>1, <1>17 DEF Ahead
    <3>2. CASE inbox'[p] = piece
      BY <3>2, <2>1, <1>1, <1>6, <1>17 DEF Ahead
    <3>3. QED
      BY <3>1, <3>2, <1>3
  <2>2. b = boot' =>
          /\ \A p \in DOMAIN events' : events'[p].id = id => events'[p].seq > n
          /\ \A t \in Live' : table'[t].id = id => table'[t].next > n
    BY <1>4, <1>5, <1>17 DEF Ahead
  <2>3. QED
    BY <2>1, <2>2 DEF Ahead
<1>18. \A q \in DOMAIN events' : \E p \in DOMAIN events : events'[q] = events[p]
  BY <1>4
<1>19. \A q \in DOMAIN inbox' : \/ \E p \in DOMAIN inbox : inbox'[q] = inbox[p]
                                \/ \E p \in DOMAIN events :
                                     /\ inbox'[q].boot = boot /\ inbox'[q].id = events[p].id
                                     /\ inbox'[q].topic = events[p].topic
  BY <1>1, <1>3
<1>20. QED
  BY <1>1, <1>16, <1>17, <1>18, <1>19

-----------------------------------------------------------------------------
(* Messages: subscriptions                                                  *)

LEMMA ClaimsShrink ==
  ASSUME SubInv, ClaimsOK, Claims' \subseteq Claims, boot' = boot, nextId' >= nextId,
         nextId' \in Nat
  PROVE  ClaimsOK'
<1>1. PICK n \in Nat : n = nextId' /\ n >= nextId
  OBVIOUS
<1>2. nextId \in Nat /\ \A c \in Claims : c.id \in Nat
  BY MessageTypes, ClaimsTyped
<1>3. \A c \in Claims : c.boot = boot => c.id < n
  BY <1>1, <1>2 DEF ClaimsOK
<1>4. QED
  BY <1>1, <1>3 DEF ClaimsOK

LEMMA PendingView ==
  ASSUME SubInv, upcall # NoCall
  PROVE  upcall.slot \in Slots /\ upcall.seq \in Nat /\ upcall.fresh \in BOOLEAN
BY DEF SubInv, SubTypes, EventsTyped, Upcall

(* The subscriptions and what they were given stay as they are.             *)
LEMMA SlotsKeep ==
  ASSUME SubInv, GivenOK, PendingOK, UNCHANGED <<given, upcall>>,
         \A s \in Slots : /\ slot'[s].topic = slot[s].topic /\ slot'[s].id = slot[s].id
                          /\ slot'[s].active = slot[s].active /\ slot'[s].boot = slot[s].boot,
         \A b, id : \A n \in Nat :
           /\ Ahead(b, id, n)
           /\ \E s \in Slots : slot[s].active /\ slot[s].boot = b /\ slot[s].id = id
           => Ahead(b, id, n)'
  PROVE  GivenOK' /\ PendingOK'
<1>1. ASSUME NEW s \in Slots, slot[s].active, NEW n \in Nat, Ahead(slot[s].boot, slot[s].id, n),
             NEW b, NEW id, b = slot'[s].boot, id = slot'[s].id
      PROVE  Ahead(b, id, n)'
  <2>1. b = slot[s].boot /\ id = slot[s].id
    BY <1>1
  <2>2. Ahead(b, id, n)
    BY <1>1, <2>1
  <2>3. QED
    BY <1>1, <2>1, <2>2
<1>2. \A s \in Slots : given[s] \in Nat
  BY MessageTypes
<1>3. GivenOK'
  <2> SUFFICES ASSUME NEW s \in Slots, slot'[s].active
               PROVE  Ahead(slot[s].boot, slot[s].id, given[s])'
    BY DEF GivenOK
  <2>1. slot[s].active /\ Ahead(slot[s].boot, slot[s].id, given[s])
    BY DEF GivenOK
  <2>2. PICK b \in {slot'[s].boot}, id \in {slot'[s].id}, n \in {given[s]} : TRUE
    OBVIOUS
  <2>3. Ahead(b, id, n)'
    BY <1>1, <1>2, <2>1, <2>2
  <2>4. b = slot'[s].boot /\ id = slot'[s].id /\ n = given'[s]
    BY <2>2
  <2>5. QED
    BY <2>3, <2>4 DEF Ahead
<1>4. PendingOK'
  <2> SUFFICES ASSUME upcall # NoCall, Own(upcall)'
               PROVE  /\ slot'[upcall.slot].active
                      /\ upcall.topic = slot'[upcall.slot].topic
                      /\ upcall.seq > given[upcall.slot]
                      /\ Ahead(slot[upcall.slot].boot, slot[upcall.slot].id, upcall.seq)'
    BY DEF PendingOK
  <2>1. upcall.slot \in Slots /\ upcall.seq \in Nat
    BY PendingView
  <2>2. PICK s \in Slots : s = upcall.slot
    BY <2>1
  <2>3. Own(upcall)
    BY <2>2 DEF Own
  <2>4. /\ slot[s].active /\ upcall.topic = slot[s].topic /\ upcall.seq > given[s]
        /\ Ahead(slot[s].boot, slot[s].id, upcall.seq)
    BY <2>2, <2>3 DEF PendingOK
  <2>5. PICK b \in {slot'[s].boot}, id \in {slot'[s].id}, n \in {upcall.seq} : TRUE
    OBVIOUS
  <2>6. Ahead(b, id, n)'
    BY <1>1, <2>1, <2>4, <2>5
  <2>7. b = slot'[s].boot /\ id = slot'[s].id /\ n = upcall'.seq /\ s = upcall'.slot
    BY <2>2, <2>5
  <2>8. Ahead(slot[upcall.slot].boot, slot[upcall.slot].id, upcall.seq)'
    BY <2>6, <2>7 DEF Ahead
  <2>9. QED
    BY <2>2, <2>4, <2>8
<1>5. QED
  BY <1>3, <1>4

(* Some subscriptions become others.                                        *)
LEMMA SlotsRewrite ==
  ASSUME SubInv, QueuesOK, GivenOK, PendingOK, NEW S, S \subseteq Slots, Rewritten(S),
         UNCHANGED <<inbox, events, table, boot>>,
         \A s \in Slots \ S : slot'[s] = slot[s]
  PROVE  GivenOK' /\ PendingOK'
<1>1. /\ upcall' = IF upcall.slot \in S THEN [upcall EXCEPT !.fresh = FALSE] ELSE upcall
      /\ given' = [s \in Slots |-> IF s \in S THEN 0 ELSE given[s]]
  BY DEF Rewritten
<1>2. Live' = Live
  BY DEF Live
<1>3. \A b, id, n : Ahead(b, id, n) => Ahead(b, id, n)'
  BY <1>2 DEF Ahead
<1>4. \A b, id : Ahead(b, id, 0)'
  BY <1>2 DEF Ahead, QueuesOK
<1>5. GivenOK'
  <2> SUFFICES ASSUME NEW s \in Slots, slot'[s].active
               PROVE  Ahead(slot[s].boot, slot[s].id, given[s])'
    BY DEF GivenOK
  <2>1. PICK b \in {slot'[s].boot}, id \in {slot'[s].id}, n \in {given'[s]} : TRUE
    OBVIOUS
  <2>2. CASE s \in S
    <3>1. n = 0
      BY <2>1, <2>2, <1>1
    <3>2. Ahead(b, id, n)'
      BY <3>1, <1>4
    <3>3. QED
      BY <3>2, <2>1 DEF Ahead
  <2>3. CASE s \notin S
    <3>1. slot[s].active /\ Ahead(slot[s].boot, slot[s].id, given[s])
      BY <2>3 DEF GivenOK
    <3>2. b = slot[s].boot /\ id = slot[s].id /\ n = given[s]
      BY <2>1, <2>3, <1>1
    <3>3. Ahead(b, id, n)'
      BY <3>1, <3>2, <1>3
    <3>4. QED
      BY <3>3, <2>1 DEF Ahead
  <2>4. QED
    BY <2>2, <2>3
<1>6. PendingOK'
  <2> SUFFICES ASSUME upcall' # NoCall, Own(upcall)'
               PROVE  /\ slot'[upcall'.slot].active
                      /\ upcall'.topic = slot'[upcall'.slot].topic
                      /\ upcall'.seq > given'[upcall'.slot]
                      /\ Ahead(slot[upcall.slot].boot, slot[upcall.slot].id, upcall.seq)'
    BY DEF PendingOK
  <2>1. upcall # NoCall
    <3>1. NoCall.slot \notin S
      BY SlotBounds DEF NoCall
    <3>2. QED
      BY <3>1, <1>1
  <2>2. upcall \in Upcall /\ upcall.slot \in Slots
    BY <2>1 DEF SubInv, SubTypes, EventsTyped, Upcall
  <2>3. upcall.slot \notin S
    <3>1. upcall.slot \in S => upcall'.fresh = FALSE
      BY <2>2, <1>1 DEF Upcall
    <3>2. upcall'.fresh
      BY DEF Own
    <3>3. QED
      BY <3>1, <3>2
  <2>4. upcall' = upcall
    BY <2>3, <1>1
  <2>5. PICK s \in Slots : s = upcall.slot /\ s \notin S /\ slot'[s] = slot[s] /\ given'[s] = given[s]
    BY <2>2, <2>3, <1>1
  <2>6. Own(upcall)
    BY <2>4, <2>5 DEF Own
  <2>7. /\ slot[s].active /\ upcall.topic = slot[s].topic /\ upcall.seq > given[s]
        /\ Ahead(slot[s].boot, slot[s].id, upcall.seq)
    BY <2>1, <2>5, <2>6 DEF PendingOK
  <2>8. PICK b \in {slot[s].boot}, id \in {slot[s].id}, n \in {upcall.seq} : TRUE
    OBVIOUS
  <2>9. Ahead(b, id, n)'
    BY <2>7, <2>8, <1>3
  <2>10. b = slot'[s].boot /\ id = slot'[s].id /\ n = upcall'.seq /\ s = upcall'.slot
    BY <2>4, <2>5, <2>8
  <2>11. Ahead(slot[upcall.slot].boot, slot[upcall.slot].id, upcall.seq)'
    BY <2>9, <2>10 DEF Ahead
  <2>12. QED
    BY <2>4, <2>5, <2>7, <2>11
<1>7. QED
  BY <1>5, <1>6

-----------------------------------------------------------------------------
(* Messages: the controller's calls                                         *)

LEMMA AwaitedLess ==
  /\ awaiting' = 0 => Awaited' = {}
  /\ awaiting' = awaiting /\ Answers' \subseteq Answers => Awaited' \subseteq Awaited
BY DEF Awaited

(* Neither the subscriptions nor what is queued for them change.            *)
LEMMA MessagesQuiet ==
  ASSUME SubInv, MessageInv, UNCHANGED <<inbox, events, table, boot, nextId, upcall, given>>,
         \A s \in Slots : /\ slot'[s].topic = slot[s].topic /\ slot'[s].id = slot[s].id
                          /\ slot'[s].active = slot[s].active /\ slot'[s].boot = slot[s].boot,
         \/ Awaited' = {}
         \/ task'.at \notin {"subscribe", "reconcile"}
         \/ Awaited' \subseteq Awaited /\ task' = task
  PROVE  MessageInv'
<1> ClaimsOK /\ QueuesOK /\ GivenOK /\ PendingOK
  BY DEF MessageInv
<1>1. Live' = Live
  BY DEF Live
<1>2. Claims' \subseteq Claims
  <2>1. /\ \A t \in Live' : Claim(boot', table'[t].id, t) \in Claims
        /\ \A s \in Slots : slot'[s].active =>
             Claim(slot'[s].boot, slot'[s].id, slot'[s].topic) \in Claims
    BY <1>1, ClaimsView
  <2>2. /\ \A p \in DOMAIN events' : Claim(boot', events'[p].id, events'[p].topic) \in Claims
        /\ \A p \in DOMAIN inbox' : Claim(inbox'[p].boot, inbox'[p].id, inbox'[p].topic) \in Claims
    BY ClaimsView
  <2>3. task'.at \in {"subscribe", "reconcile"} =>
          \A r \in Awaited' : Claim(r.boot, r.id, task'.topic) \in Claims
    BY ClaimsView
  <2>4. QED
    BY <2>1, <2>2, <2>3, ClaimsFrom
<1>3. nextId' >= nextId /\ nextId' \in Nat
  <2>1. nextId \in Nat /\ nextId >= nextId
    BY MessageTypes
  <2>2. QED
    BY <2>1
<1>4. ClaimsOK'
  BY <1>2, <1>3, ClaimsShrink
<1>5. QueuesOK'
  BY <1>1 DEF QueuesOK, Last
<1>6. \A b, id, n : Ahead(b, id, n) => Ahead(b, id, n)'
  BY <1>1 DEF Ahead
<1>7. GivenOK' /\ PendingOK'
  BY <1>6, SlotsKeep
<1>8. QED
  BY <1>4, <1>5, <1>7 DEF MessageInv

(* Some subscriptions become others, as the delegate has answered.          *)
LEMMA MessagesRewrite ==
  ASSUME SubInv, MessageInv, NEW S, S \subseteq Slots, Rewritten(S),
         UNCHANGED <<inbox, events, table, boot, nextId>>,
         \A s \in Slots \ S : slot'[s] = slot[s],
         \A s \in S : slot'[s].active =>
           Claim(slot'[s].boot, slot'[s].id, slot'[s].topic) \in Claims,
         Awaited' = {}
  PROVE  MessageInv'
<1> ClaimsOK /\ QueuesOK /\ GivenOK /\ PendingOK
  BY DEF MessageInv
<1>1. Live' = Live
  BY DEF Live
<1>2. Claims' \subseteq Claims
  <2>1. \A t \in Live' : Claim(boot', table'[t].id, t) \in Claims
    BY <1>1, ClaimsView
  <2>2. \A s \in Slots : slot'[s].active =>
          Claim(slot'[s].boot, slot'[s].id, slot'[s].topic) \in Claims
    BY ClaimsView
  <2>3. /\ \A p \in DOMAIN events' : Claim(boot', events'[p].id, events'[p].topic) \in Claims
        /\ \A p \in DOMAIN inbox' : Claim(inbox'[p].boot, inbox'[p].id, inbox'[p].topic) \in Claims
    BY ClaimsView
  <2>4. \A r \in Awaited' : Claim(r.boot, r.id, task'.topic) \in Claims
    OBVIOUS
  <2>5. QED
    BY <2>1, <2>2, <2>3, <2>4, ClaimsFrom
<1>3. nextId' >= nextId /\ nextId' \in Nat
  <2>1. nextId \in Nat /\ nextId >= nextId
    BY MessageTypes
  <2>2. QED
    BY <2>1
<1>4. ClaimsOK'
  BY <1>2, <1>3, ClaimsShrink
<1>5. QueuesOK'
  BY <1>1 DEF QueuesOK, Last
<1>6. GivenOK' /\ PendingOK'
  BY SlotsRewrite
<1>7. QED
  BY <1>4, <1>5, <1>6 DEF MessageInv

LEMMA MessagesCall ==
  ASSUME SubInv, MessageInv,
         \/ SubConnect
         \/ \E t \in Topics : Subscribe(t)
         \/ \E s \in Slots : Unsubscribe(s)
         \/ SendSubRequest
         \/ DropStaleResponse /\ UNCHANGED <<subscriber, arrivals, registry, outbox, history>>
         \/ TakeFrame /\ UNCHANGED <<subscriber, arrivals, registry, outbox, history>>
         \/ UNCHANGED subVars
  PROVE  MessageInv'
<1>1. UNCHANGED <<inbox, events, table, boot, nextId, upcall, given, slot>>
  BY DEF SubConnect, Subscribe, Unsubscribe, SendSubRequest, subVars, subscriber, arrivals,
         registry, outbox, history
<1>2. CASE SubConnect \/ (\E t \in Topics : Subscribe(t)) \/ \E s \in Slots : Unsubscribe(s)
  <2>1. awaiting' = awaiting /\ At("idle")
    BY <1>2 DEF SubConnect, Subscribe, Unsubscribe, link
  <2>2. awaiting' = 0
    BY <2>1 DEF SubInv, RequestsOK, Exchanging
  <2>3. QED
    BY <1>1, <2>2, AwaitedLess, MessagesQuiet
<1>3. CASE SendSubRequest
  <2>1. PICK new \in SubFrame :
           /\ new.id = awaiting' /\ new.request = SubRequest /\ awaiting = 0 /\ Exchanging
           /\ awaiting' \in Nat /\ awaiting' > 0 /\ awaiting' = correlation' - 1
           /\ correlation' \in Nat /\ correlation' >= correlation
           /\ Again => correlation' = correlation
           /\ ~ Again => correlation' = correlation + 1
           /\ \A f \in Under' : f \in Under \/ f = new
           /\ Answers' = Answers
           /\ frames' \in Seq(SubFrame) /\ Len(frames') <= FrameQueue
    BY <1>3, SubSentView
  <2>2. CASE Again
    <3>1. task'.at = "hello"
      BY <1>3, <2>2 DEF SendSubRequest, subscriber, SubInv, RequestsOK, Again, At
    <3>2. QED
      BY <3>1, <1>1, MessagesQuiet
  <2>3. CASE ~ Again
    <3>1. PICK c \in Nat : c = correlation
      BY DEF SubInv, SubTypes, LinkTyped
    <3>2. awaiting' = c
      <4>1. correlation' = c + 1
        BY <3>1, <2>1, <2>3
      <4>2. awaiting' = correlation' - 1
        BY <2>1
      <4>3. QED
        BY <4>1, <4>2
    <3>3. \A rep \in Answers : rep.id \in 1..(c - 1)
      BY <3>1 DEF SubInv, RequestsOK
    <3>4. \A rep \in Answers' : rep.id # awaiting'
      BY <3>1, <3>2, <3>3, <2>1
    <3>5. Awaited' = {}
      BY <3>4 DEF Awaited
    <3>6. QED
      BY <3>5, <1>1, MessagesQuiet
  <2>4. QED
    BY <2>2, <2>3
<1>4. CASE \/ DropStaleResponse /\ UNCHANGED <<subscriber, arrivals, registry, outbox, history>>
           \/ TakeFrame /\ UNCHANGED <<subscriber, arrivals, registry, outbox, history>>
           \/ UNCHANGED subVars
  <2>1. awaiting' = awaiting /\ task' = task
    BY <1>4 DEF DropStaleResponse, TakeFrame, subVars, link, subscriber
  <2>2. Answers' \subseteq Answers
    <3>1. CASE DropStaleResponse
      <4>1. replies # <<>> /\ replies' = Tail(replies) /\ replies \in Seq(SubReply)
        BY <3>1 DEF DropStaleResponse, SubInv, SubTypes, LinkTyped
      <4>2. \A p \in DOMAIN replies' : p + 1 \in DOMAIN replies /\ replies'[p] = replies[p + 1]
        BY <4>1, HeadTailProperties
      <4>3. QED
        BY <4>2 DEF Answers
    <3>2. CASE TakeFrame \/ UNCHANGED subVars
      BY <3>2 DEF TakeFrame, subVars, link, Answers
    <3>3. QED
      BY <3>1, <3>2, <1>4
  <2>3. QED
    BY <2>1, <2>2, <1>1, AwaitedLess, MessagesQuiet
<1>5. QED
  BY <1>2, <1>3, <1>4

LEMMA MessagesEnd ==
  ASSUME SubInv, MessageInv, SubRequestRefused \/ SubRequestAnswered \/ SubRequestTimesOut
  PROVE  MessageInv'
<1>1. PICK r : EndWith(r)
  BY SubEndView
<1>2. UNCHANGED <<inbox, events, table, boot, nextId>> /\ awaiting' = 0
  BY <1>1 DEF EndWith
<1>3. Awaited' = {}
  BY <1>2, AwaitedLess
<1>4. SlotsOK /\ CallTyped
  BY DEF SubInv, SubTypes
<1>5. CASE UNCHANGED <<slot, upcall, given>>
  BY <1>2, <1>3, <1>5, MessagesQuiet
<1>6. CASE /\ task.at \in {"subscribe", "reconcile"} /\ r.status = "ok" /\ Rewritten({task.slot})
           /\ \A s \in Slots : s # task.slot => slot'[s] = slot[s]
           /\ slot'[task.slot].boot = r.boot /\ slot'[task.slot].id = r.id
           /\ slot'[task.slot].topic = task.topic
  <2>1. task.slot \in Slots
    BY <1>4, <1>6, SubCallFacts DEF SubInv
  <2>2. r \in Awaited
    BY <1>1, <1>6 DEF EndWith
  <2>3. Claim(r.boot, r.id, task.topic) \in Claims
    BY <2>2, <1>6, ClaimsView
  <2>4. QED
    BY <1>2, <1>3, <1>6, <2>1, <2>3, MessagesRewrite
<1>7. CASE AfterSubHello(r)
  BY <1>5, <1>7 DEF AfterSubHello
<1>8. CASE AfterReconcile(r)
  <2>1. CASE r.status # "ok"
    BY <2>1, <1>5, <1>8 DEF AfterReconcile
  <2>2. CASE r.status = "ok"
    <3>1. /\ slot' = [slot EXCEPT ![task.slot].id = r.id, ![task.slot].next = 1,
                                  ![task.slot].active = TRUE,
                                  ![task.slot].boot = r.boot]
          /\ Rewritten({task.slot}) /\ At("reconcile")
      BY <2>2, <1>8 DEF AfterReconcile
    <3>2. task.slot \in Slots /\ task.topic = slot[task.slot].topic
      BY <3>1, <1>4 DEF SlotsOK, Allocated
    <3>3. slot \in [Slots -> SubSlot]
      BY <1>4 DEF CallTyped
    <3>4. slot' = [slot EXCEPT ![task.slot] = [slot[task.slot] EXCEPT !.id = r.id, !.next = 1,
                                                 !.active = TRUE, !.boot = r.boot]]
      BY <3>1, <3>2, <3>3 DEF SubSlot
    <3>5. slot'[task.slot] = [slot[task.slot] EXCEPT !.id = r.id, !.next = 1,
                                                     !.active = TRUE, !.boot = r.boot]
      BY <3>2, <3>3, <3>4
    <3>6. slot[task.slot] \in SubSlot
      BY <3>2, <3>3
    <3>7. /\ slot'[task.slot].boot = r.boot /\ slot'[task.slot].id = r.id
          /\ slot'[task.slot].topic = task.topic
      BY <3>2, <3>5, <3>6 DEF SubSlot
    <3>8. \A s \in Slots : s # task.slot => slot'[s] = slot[s]
      BY <3>2, <3>3, <3>4
    <3>9. QED
      BY <2>2, <3>1, <3>7, <3>8, <1>6 DEF At
  <2>3. QED
    BY <2>1, <2>2
<1>9. CASE AfterSubscribe(r)
  <2>1. CASE r.status # "ok"
    BY <2>1, <1>5, <1>9 DEF AfterSubscribe
  <2>2. CASE r.status = "ok"
    <3>1. /\ slot' = [slot EXCEPT ![task.slot] =
                         [topic |-> task.topic, id |-> r.id, next |-> 1,
                          active |-> TRUE, boot |-> r.boot]]
          /\ Rewritten({task.slot}) /\ At("subscribe")
      BY <2>2, <1>9 DEF AfterSubscribe
    <3>2. task.slot \in Slots /\ slot \in [Slots -> SubSlot]
      BY <3>1, <1>4 DEF SlotsOK, CallTyped
    <3>3. slot'[task.slot] = [topic |-> task.topic, id |-> r.id, next |-> 1,
                              active |-> TRUE, boot |-> r.boot]
      BY <3>1, <3>2
    <3>4. \A s \in Slots : s # task.slot => slot'[s] = slot[s]
      BY <3>1, <3>2
    <3>5. QED
      BY <2>2, <3>1, <3>3, <3>4, <1>6 DEF At
  <2>3. QED
    BY <2>1, <2>2
<1>10. CASE AfterUnsubscribe(r)
  <2>1. CASE r.status # "ok"
    BY <2>1, <1>5, <1>10 DEF AfterUnsubscribe
  <2>2. CASE r.status = "ok"
    <3>1. /\ slot' = [slot EXCEPT ![task.slot] = Unused]
          /\ Rewritten({task.slot}) /\ At("unsubscribe")
      BY <2>2, <1>10 DEF AfterUnsubscribe
    <3>2. task.slot \in Slots /\ slot \in [Slots -> SubSlot]
      BY <3>1, <1>4 DEF SlotsOK, CallTyped, Allocated
    <3>3. slot'[task.slot].active = FALSE
      BY <3>1, <3>2 DEF Unused
    <3>4. \A s \in Slots \ {task.slot} : slot'[s] = slot[s]
      BY <3>1, <3>2
    <3>5. QED
      BY <3>1, <3>2, <3>3, <3>4, <1>2, <1>3, MessagesRewrite
  <2>3. QED
    BY <2>1, <2>2
<1>11. QED
  BY <1>1, <1>7, <1>8, <1>9, <1>10 DEF EndWith, SubResult

LEMMA MessagesReset ==
  ASSUME SubInv, MessageInv, SessionReset
  PROVE  MessageInv'
<1>1. /\ UNCHANGED <<inbox, events, table, boot, nextId, awaiting>> /\ At("reset")
      /\ Rewritten(Allocated)
      /\ slot' = [s \in Slots |->
                    IF s \in Allocated
                    THEN [slot[s] EXCEPT !.active = FALSE, !.id = 0, !.next = 1]
                    ELSE slot[s]]
  BY DEF SessionReset, link, registry, outbox
<1>2. Allocated \subseteq Slots
  BY DEF Allocated
<1>3. awaiting' = 0
  BY <1>1 DEF SubInv, RequestsOK, Exchanging
<1>4. Awaited' = {}
  BY <1>3, AwaitedLess
<1>5. \A s \in Allocated : slot'[s].active = FALSE
  BY <1>1, <1>2 DEF SubInv, SubTypes, CallTyped, SubSlot
<1>6. \A s \in Slots \ Allocated : slot'[s] = slot[s]
  BY <1>1
<1>7. QED
  BY <1>1, <1>2, <1>4, <1>5, <1>6, MessagesRewrite

-----------------------------------------------------------------------------
(* Messages: the delegate's requests                                        *)

(* The answer to a SUBSCRIBE is about the topic that was asked for.         *)
LEMMA AwaitedFrom ==
  ASSUME SubInv, NEW r \in Results, bridge # NoFrame, Respond(r), task' = task,
         task.at \in {"subscribe", "reconcile"}
  PROVE  \A x \in Awaited' :
           \/ x \in Awaited
           \/ /\ x = r /\ r.status = "ok" /\ bridge.request.kind = "subscribe"
              /\ bridge.request.topic = task.topic
<1> SUFFICES ASSUME NEW x \in Awaited', x \notin Awaited
             PROVE  /\ x = r /\ r.status = "ok" /\ bridge.request.kind = "subscribe"
                    /\ bridge.request.topic = task.topic
  OBVIOUS
<1>1. /\ bridge \in Under /\ UNCHANGED <<correlation, awaiting>>
      /\ \A rep \in Answers' : rep \in Answers \/ rep = [id |-> bridge.id, result |-> r]
  BY SubRespondedView DEF SubInv
<1>2. PICK rep \in Answers' : /\ awaiting # 0 /\ rep.id = awaiting /\ rep.result.status = "ok"
                              /\ x = rep.result
  BY <1>1 DEF Awaited
<1>3. rep \notin Answers
  BY <1>2 DEF Awaited
<1>4. x = r /\ r.status = "ok" /\ bridge.id = awaiting
  BY <1>1, <1>2, <1>3
<1>5. awaiting = correlation - 1 /\ Latest
  BY <1>2 DEF SubInv, SubTypes, LinkTyped, Latest
<1>6. bridge.request = SubRequest
  BY <1>1, <1>4, <1>5 DEF SubInv, RequestsOK
<1>7. QED
  BY <1>4, <1>6 DEF SubRequest, At

(* The delegate answers and forgets at most what it had.                    *)
LEMMA MessagesForgotten ==
  ASSUME SubInv, MessageInv, NEW r \in Results, bridge # NoFrame, Respond(r),
         UNCHANGED <<boot, task, slot, inbox, upcall, given>>,
         nextId' \in Nat, nextId' >= nextId,
         events' = events \/ events' = <<>>,
         \A t \in Topics : table'[t] = table[t] \/ table'[t] = NoSub,
         bridge.request.kind = "subscribe" /\ r.status = "ok" =>
           Claim(r.boot, r.id, bridge.request.topic) \in Claims
  PROVE  MessageInv'
<1> ClaimsOK /\ QueuesOK /\ GivenOK /\ PendingOK
  BY DEF MessageInv
<1>1. /\ \A t \in Live' : t \in Live /\ table'[t] = table[t]
      /\ \A p \in DOMAIN events' : p \in DOMAIN events /\ events'[p] = events[p]
  BY DEF Live
<1>2. Claims' \subseteq Claims
  <2>1. \A t \in Live' : Claim(boot', table'[t].id, t) \in Claims
    BY <1>1, ClaimsView
  <2>2. \A s \in Slots : slot'[s].active =>
          Claim(slot'[s].boot, slot'[s].id, slot'[s].topic) \in Claims
    BY ClaimsView
  <2>3. /\ \A p \in DOMAIN events' : Claim(boot', events'[p].id, events'[p].topic) \in Claims
        /\ \A p \in DOMAIN inbox' : Claim(inbox'[p].boot, inbox'[p].id, inbox'[p].topic) \in Claims
    BY <1>1, ClaimsView
  <2>4. ASSUME task.at \in {"subscribe", "reconcile"}, NEW x \in Awaited'
        PROVE  Claim(x.boot, x.id, task.topic) \in Claims
    <3>1. CASE x \in Awaited
      BY <2>4, <3>1, ClaimsView
    <3>2. CASE /\ x = r /\ r.status = "ok" /\ bridge.request.kind = "subscribe"
               /\ bridge.request.topic = task.topic
      BY <3>2
    <3>3. QED
      BY <2>4, <3>1, <3>2, AwaitedFrom
  <2>5. QED
    BY <2>1, <2>2, <2>3, <2>4, ClaimsFrom
<1>3. ClaimsOK'
  BY <1>2, ClaimsShrink
<1>4. \A p \in DOMAIN inbox' : p \in Nat /\ p + 0 \in DOMAIN inbox /\ inbox'[p] = inbox[p + 0]
  <2>1. \A p \in DOMAIN inbox : p \in Nat /\ p + 0 = p
    BY MessageTypes
  <2>2. QED
    BY <2>1
<1>5. /\ QueuesOK'
      /\ \A b, id : \A n \in Nat : Ahead(b, id, n) => Ahead(b, id, n)'
  BY <1>4, QueuesShrink
<1>6. GivenOK' /\ PendingOK'
  BY <1>5, SlotsKeep
<1>7. QED
  BY <1>3, <1>5, <1>6 DEF MessageInv

(* The delegate registers a topic.                                          *)
LEMMA MessagesRegistered ==
  ASSUME SubInv, MessageInv, NEW r \in Results, bridge # NoFrame, Respond(r),
         UNCHANGED <<boot, task, slot, inbox, events, upcall, given>>,
         NEW t \in Topics, table'[t] = [id |-> nextId, next |-> 1],
         \A x \in Topics : x # t => table'[x] = table[x], nextId' = nextId + 1,
         r.boot = boot, r.id = nextId, bridge.request.topic = t
  PROVE  MessageInv'
<1> ClaimsOK /\ QueuesOK /\ GivenOK /\ PendingOK
  BY DEF MessageInv
<1> DEFINE new == Claim(boot, nextId, t)
<1>1. \A x \in Live' : x = t \/ (x \in Live /\ table'[x] = table[x])
  BY DEF Live
<1>2. Claims' \subseteq Claims \cup {new}
  <2>1. \A x \in Live' : Claim(boot', table'[x].id, x) \in Claims \cup {new}
    BY <1>1, ClaimsView
  <2>2. \A s \in Slots : slot'[s].active =>
          Claim(slot'[s].boot, slot'[s].id, slot'[s].topic) \in Claims \cup {new}
    BY ClaimsView
  <2>3. /\ \A p \in DOMAIN events' : Claim(boot', events'[p].id, events'[p].topic) \in Claims \cup {new}
        /\ \A p \in DOMAIN inbox' :
             Claim(inbox'[p].boot, inbox'[p].id, inbox'[p].topic) \in Claims \cup {new}
    BY ClaimsView
  <2>4. ASSUME task.at \in {"subscribe", "reconcile"}, NEW x \in Awaited'
        PROVE  Claim(x.boot, x.id, task.topic) \in Claims \cup {new}
    <3>1. CASE x \in Awaited
      BY <2>4, <3>1, ClaimsView
    <3>2. CASE x = r /\ bridge.request.topic = task.topic
      BY <3>2
    <3>3. QED
      BY <2>4, <3>1, <3>2, AwaitedFrom
  <2> HIDE DEF new
  <2>5. task'.at \in {"subscribe", "reconcile"} =>
          \A x \in Awaited' : Claim(x.boot, x.id, task'.topic) \in Claims \cup {new}
    BY <2>4
  <2>6. PICK C \in {Claims \cup {new}} : TRUE
    OBVIOUS
  <2>7. Claims' \subseteq C
    BY <2>1, <2>2, <2>3, <2>5, <2>6, ClaimsFrom
  <2>8. QED
    BY <2>6, <2>7
<1>3. boot \in Nat /\ boot > 0 /\ nextId \in Nat /\ nextId > 0
  BY DEF SubInv, SubTypes, DelegateTyped
<1>4. PICK m \in Nat : m = nextId' /\ m = nextId + 1
  BY <1>3
<1>5. new.boot = boot /\ new.id = nextId /\ new.topic = t
  BY DEF Claim
<1>6. \A c \in Claims : /\ c.boot \in 1..boot /\ c.id \in Nat /\ c.id > 0
                        /\ c.boot = boot => c.id < nextId
  BY ClaimsTyped DEF ClaimsOK
<1>7. ClaimsOK'
  <2> HIDE DEF new
  <2>1. \A c \in Claims \cup {new} : /\ c.boot \in 1..boot /\ c.id > 0
                                     /\ c.boot = boot => c.id < m
    BY <1>3, <1>4, <1>5, <1>6
  <2>2. \A c \in Claims : ~ (c.boot = new.boot /\ c.id = new.id)
    BY <1>3, <1>5, <1>6
  <2>3. \A c, d \in Claims \cup {new} : c.boot = d.boot /\ c.id = d.id => c.topic = d.topic
    BY <2>2 DEF ClaimsOK
  <2>4. QED
    BY <1>2, <1>4, <2>1, <2>3 DEF ClaimsOK
<1>8. /\ QueuesOK'
      /\ \A b, id : \A n \in Nat : Ahead(b, id, n) /\ (b = boot => id # nextId) => Ahead(b, id, n)'
  BY QueuesRegister
<1>9. ASSUME NEW s \in Slots, slot[s].active, slot[s].boot = boot PROVE slot[s].id # nextId
  <2>1. PICK c \in Claims : c = Claim(slot[s].boot, slot[s].id, slot[s].topic)
    BY <1>9, ClaimsView
  <2>2. c.boot = boot /\ c.id = slot[s].id
    BY <2>1, <1>9 DEF Claim
  <2>3. QED
    BY <2>2, <1>3, <1>6
<1>10. GivenOK' /\ PendingOK'
  <2>1. \A b, id : \A n \in Nat :
           /\ Ahead(b, id, n)
           /\ \E s \in Slots : slot[s].active /\ slot[s].boot = b /\ slot[s].id = id
           => Ahead(b, id, n)'
    BY <1>8, <1>9
  <2>2. QED
    BY <2>1, SlotsKeep
<1>11. QED
  BY <1>7, <1>8, <1>10 DEF MessageInv

LEMMA MessagesRequest ==
  ASSUME SubInv, MessageInv, HandleRequest
  PROVE  MessageInv'
<1>1. UNCHANGED <<task, slot, inbox, upcall, given>>
  BY DEF HandleRequest, subscriber, arrivals, history
<1>2. boot \in Nat /\ nextId \in Nat /\ nextId > 0 /\ nextId >= nextId
  BY MessageTypes
<1>3. CASE SubHandshakeRequired
  <2>1. /\ bridge # NoFrame /\ Respond([status |-> "notready"])
        /\ UNCHANGED <<boot, greeted, table, nextId, events, stage>>
    BY <1>3 DEF SubHandshakeRequired, registry, outbox
  <2>2. [status |-> "notready"] \in Results /\ [status |-> "notready"].status # "ok"
    BY DEF Results
  <2>3. nextId' \in Nat /\ nextId' >= nextId
    BY <2>1, <1>2
  <2>4. QED
    BY <2>1, <2>2, <2>3, <1>1, MessagesForgotten
<1>4. CASE HandleSubHello
  <2>1. /\ bridge # NoFrame /\ bridge.request.kind # "subscribe"
        /\ Respond([status |-> "ok", boot |-> boot])
        /\ UNCHANGED <<boot, table, nextId>> /\ events' = <<>>
    BY <1>4 DEF HandleSubHello, Handling
  <2>2. [status |-> "ok", boot |-> boot] \in Results
    BY <1>2 DEF Results
  <2>3. nextId' \in Nat /\ nextId' >= nextId
    BY <2>1, <1>2
  <2>4. QED
    BY <2>1, <2>2, <2>3, <1>1, MessagesForgotten
<1>5. CASE HandleSubscribe
  <2> DEFINE t == bridge.request.topic
  <2>1. /\ bridge # NoFrame /\ bridge.request.kind = "subscribe"
        /\ UNCHANGED <<boot, greeted, events, stage>>
        /\ \/ table[t] # NoSub /\ Respond(Ok(table[t].id)) /\ UNCHANGED <<table, nextId>>
           \/ /\ table[t] = NoSub /\ Respond(Ok(nextId))
              /\ table' = [table EXCEPT ![t] = [id |-> nextId, next |-> 1]]
              /\ nextId' = nextId + 1
           \/ /\ table[t] = NoSub /\ Respond([status |-> "failed"])
              /\ nextId' = nextId + 1 /\ UNCHANGED table
    BY <1>5 DEF HandleSubscribe, Handling, outbox
  <2>2. t \in Topics
    <3>1. bridge \in Under
      BY <2>1 DEF Under
    <3>2. QED
      BY <2>1, <3>1 DEF SubInv, RequestsOK
  <2>3. table[t].id \in Nat
    BY <2>2, MessageTypes
  <2> HIDE DEF t
  <2>4. \A i \in Nat : Ok(i) \in Results /\ Ok(i).status = "ok" /\ Ok(i).id = i /\ Ok(i).boot = boot
    BY <1>2 DEF Ok, Results
  <2>5. CASE table[t] # NoSub /\ Respond(Ok(table[t].id)) /\ UNCHANGED <<table, nextId>>
    <3>1. PICK r \in Results : /\ r = Ok(table[t].id) /\ Respond(r)
                               /\ r.id = table[t].id /\ r.boot = boot
      BY <2>3, <2>4, <2>5
    <3>2. t \in Live
      BY <2>2, <2>5 DEF Live
    <3>3. Claim(r.boot, r.id, bridge.request.topic) \in Claims
      BY <3>1, <3>2, ClaimsView DEF t
    <3>4. nextId' \in Nat /\ nextId' >= nextId
      BY <2>5, <1>2
    <3>5. QED
      BY <2>1, <2>5, <3>1, <3>3, <3>4, <1>1, MessagesForgotten
  <2>6. CASE /\ table[t] = NoSub /\ Respond(Ok(nextId))
             /\ table' = [table EXCEPT ![t] = [id |-> nextId, next |-> 1]]
             /\ nextId' = nextId + 1
    <3>1. PICK r \in Results : r = Ok(nextId) /\ Respond(r) /\ r.id = nextId /\ r.boot = boot
      BY <1>2, <2>4, <2>6
    <3>2. table \in [Topics -> [id : Nat, next : Nat]]
      BY DEF SubInv, SubTypes, DelegateTyped
    <3>3. /\ table'[t] = [id |-> nextId, next |-> 1]
          /\ \A x \in Topics : x # t => table'[x] = table[x]
      BY <2>2, <2>6, <3>2
    <3>4. bridge.request.topic = t
      BY DEF t
    <3>5. QED
      BY <2>1, <2>2, <2>6, <3>1, <3>3, <3>4, <1>1, MessagesRegistered
  <2>7. CASE /\ table[t] = NoSub /\ Respond([status |-> "failed"])
             /\ nextId' = nextId + 1 /\ UNCHANGED table
    <3>1. [status |-> "failed"] \in Results /\ [status |-> "failed"].status # "ok"
      BY DEF Results
    <3>2. nextId' \in Nat /\ nextId' >= nextId
      <4>1. nextId + 1 \in Nat /\ nextId + 1 >= nextId
        BY <1>2
      <4>2. QED
        BY <4>1, <2>7
    <3>3. QED
      BY <2>1, <2>7, <3>1, <3>2, <1>1, MessagesForgotten
  <2>8. QED
    BY <2>1, <2>5, <2>6, <2>7
<1>6. CASE HandleUnsubscribe
  <2> DEFINE id == bridge.request.id
  <2>1. /\ bridge # NoFrame /\ bridge.request.kind # "subscribe"
        /\ UNCHANGED <<boot, greeted, nextId, events, stage>>
        /\ \/ /\ Respond([status |-> "ok"])
              /\ table' = [t \in Topics |-> IF table[t].id = id THEN NoSub ELSE table[t]]
           \/ Respond([status |-> "failed"]) /\ UNCHANGED table
    BY <1>6 DEF HandleUnsubscribe, Handling, outbox
  <2> HIDE DEF id
  <2>2. [status |-> "ok"] \in Results /\ [status |-> "failed"] \in Results
    BY DEF Results
  <2>3. nextId' \in Nat /\ nextId' >= nextId
    BY <2>1, <1>2
  <2>4. \A t \in Topics : table'[t] = table[t] \/ table'[t] = NoSub
    BY <2>1
  <2>5. PICK r \in Results : Respond(r)
    BY <2>1, <2>2
  <2>6. QED
    BY <2>1, <2>3, <2>4, <2>5, <1>1, MessagesForgotten
<1>7. QED
  BY <1>3, <1>4, <1>5, <1>6 DEF HandleRequest

-----------------------------------------------------------------------------
(* Messages: the messages themselves                                        *)

LEMMA MessagesPublish ==
  ASSUME SubInv, MessageInv, NEW t \in Topics, NEW large \in BOOLEAN, Publish(t, large)
  PROVE  MessageInv'
<1> ClaimsOK /\ QueuesOK /\ GivenOK /\ PendingOK
  BY DEF MessageInv
<1>1. /\ table[t] # NoSub /\ table'[t].id = table[t].id
      /\ \A x \in Topics : x # t => table'[x] = table[x]
      /\ \/ events' = events
         \/ events' = Append(events, [id |-> table[t].id, seq |-> table[t].next,
                                      large |-> large, topic |-> t])
      /\ UNCHANGED <<link, subscriber, arrivals, boot, greeted, nextId, stage, released, given>>
  BY PublishedView DEF SubInv
<1>2. UNCHANGED <<replies, awaiting, task, slot, inbox, upcall, boot, nextId, given>>
  BY <1>1 DEF link, subscriber, arrivals
<1>3. \A x \in Live' : x \in Live /\ table'[x].id = table[x].id
  BY <1>1 DEF Live
<1>4. t \in Live
  BY <1>1 DEF Live
<1>5. \A p \in DOMAIN events' :
        \/ p \in DOMAIN events /\ events'[p] = events[p]
        \/ events'[p].id = table[t].id /\ events'[p].topic = t
  <2>1. CASE events' = events
    BY <2>1
  <2>2. CASE events' = Append(events, [id |-> table[t].id, seq |-> table[t].next,
                                       large |-> large, topic |-> t])
    <3>1. [id |-> table[t].id, seq |-> table[t].next, large |-> large, topic |-> t] \in Event
      BY MessageTypes DEF Event
    <3>2. events \in Seq(Event)
      BY MessageTypes
    <3>3. QED
      BY <2>2, <3>1, <3>2, AppendProperties
  <2>3. QED
    BY <2>1, <2>2, <1>1
<1>6. Claims' \subseteq Claims
  <2>1. \A x \in Live' : Claim(boot', table'[x].id, x) \in Claims
    BY <1>2, <1>3, ClaimsView
  <2>2. \A s \in Slots : slot'[s].active =>
          Claim(slot'[s].boot, slot'[s].id, slot'[s].topic) \in Claims
    BY <1>2, ClaimsView
  <2>3. \A p \in DOMAIN events' : Claim(boot', events'[p].id, events'[p].topic) \in Claims
    BY <1>2, <1>4, <1>5, ClaimsView
  <2>4. \A p \in DOMAIN inbox' : Claim(inbox'[p].boot, inbox'[p].id, inbox'[p].topic) \in Claims
    BY <1>2, ClaimsView
  <2>5. Awaited' = Awaited /\ task' = task
    BY <1>2 DEF Awaited, Answers
  <2>6. task'.at \in {"subscribe", "reconcile"} =>
          \A r \in Awaited' : Claim(r.boot, r.id, task'.topic) \in Claims
    BY <2>5, ClaimsView
  <2>7. QED
    BY <2>1, <2>2, <2>3, <2>4, <2>6, ClaimsFrom
<1>7. nextId' >= nextId /\ nextId' \in Nat
  <2>1. nextId \in Nat /\ nextId >= nextId
    BY MessageTypes
  <2>2. QED
    BY <2>1, <1>2
<1>8. ClaimsOK'
  BY <1>2, <1>6, <1>7, ClaimsShrink
<1>9. /\ QueuesOK'
      /\ \A b, id : \A n \in Nat : Ahead(b, id, n) => Ahead(b, id, n)'
  BY QueuesPublish
<1>10. GivenOK' /\ PendingOK'
  BY <1>2, <1>9, SlotsKeep
<1>11. QED
  BY <1>8, <1>9, <1>10 DEF MessageInv

LEMMA MessagesSendPiece ==
  ASSUME SubInv, MessageInv, SendPiece
  PROVE  MessageInv'
<1> ClaimsOK /\ QueuesOK /\ GivenOK /\ PendingOK
  BY DEF MessageInv
<1>1. /\ QueuesOK'
      /\ \A b, id : \A n \in Nat : Ahead(b, id, n) => Ahead(b, id, n)'
      /\ \A q \in DOMAIN events' : \E p \in DOMAIN events : events'[q] = events[p]
      /\ \A q \in DOMAIN inbox' : \/ \E p \in DOMAIN inbox : inbox'[q] = inbox[p]
                                  \/ \E p \in DOMAIN events :
                                       /\ inbox'[q].boot = boot /\ inbox'[q].id = events[p].id
                                       /\ inbox'[q].topic = events[p].topic
      /\ UNCHANGED <<link, subscriber, held, upcall, registry, history>>
  BY QueuesSend
<1>2. UNCHANGED <<replies, awaiting, task, slot, upcall, boot, table, nextId, given>>
  BY <1>1 DEF link, subscriber, registry, history
<1>3. Claims' \subseteq Claims
  <2>1. \A x \in Live' : Claim(boot', table'[x].id, x) \in Claims
    BY <1>2, ClaimsView DEF Live
  <2>2. \A s \in Slots : slot'[s].active =>
          Claim(slot'[s].boot, slot'[s].id, slot'[s].topic) \in Claims
    BY <1>2, ClaimsView
  <2>3. \A p \in DOMAIN events' : Claim(boot', events'[p].id, events'[p].topic) \in Claims
    BY <1>1, <1>2, ClaimsView
  <2>4. \A p \in DOMAIN inbox' : Claim(inbox'[p].boot, inbox'[p].id, inbox'[p].topic) \in Claims
    BY <1>1, <1>2, ClaimsView
  <2>5. Awaited' = Awaited /\ task' = task
    BY <1>2 DEF Awaited, Answers
  <2>6. task'.at \in {"subscribe", "reconcile"} =>
          \A r \in Awaited' : Claim(r.boot, r.id, task'.topic) \in Claims
    BY <2>5, ClaimsView
  <2>7. QED
    BY <2>1, <2>2, <2>3, <2>4, <2>6, ClaimsFrom
<1>4. nextId' >= nextId /\ nextId' \in Nat
  <2>1. nextId \in Nat /\ nextId >= nextId
    BY MessageTypes
  <2>2. QED
    BY <2>1, <1>2
<1>5. ClaimsOK'
  BY <1>2, <1>3, <1>4, ClaimsShrink
<1>6. GivenOK' /\ PendingOK'
  BY <1>1, <1>2, SlotsKeep
<1>7. QED
  BY <1>1, <1>5, <1>6 DEF MessageInv

(* The callback is called: what comes after it comes after this message.    *)
LEMMA MessagesDispatch ==
  ASSUME SubInv, MessageInv, DispatchDelivery
  PROVE  MessageInv'
<1> ClaimsOK /\ QueuesOK /\ GivenOK /\ PendingOK
  BY DEF MessageInv
<1>1. /\ upcall # NoCall /\ upcall' = NoCall
      /\ UNCHANGED <<replies, awaiting, task, inbox, events, boot, table, nextId>>
  BY DEF DispatchDelivery, link, registry, outbox
<1>2. /\ upcall.slot \in Slots
      /\ \A s \in Slots : /\ slot'[s].topic = slot[s].topic /\ slot'[s].id = slot[s].id
                          /\ slot'[s].active = slot[s].active /\ slot'[s].boot = slot[s].boot
      /\ \A s \in Slots : given'[s] = IF s = upcall.slot /\ Own(upcall) THEN upcall.seq
                                      ELSE given[s]
  BY DispatchedTyped DEF SubInv
<1>3. Live' = Live
  BY <1>1 DEF Live
<1>4. Claims' \subseteq Claims
  <2>1. \A x \in Live' : Claim(boot', table'[x].id, x) \in Claims
    BY <1>1, <1>3, ClaimsView
  <2>2. \A s \in Slots : slot'[s].active =>
          Claim(slot'[s].boot, slot'[s].id, slot'[s].topic) \in Claims
    BY <1>2, ClaimsView
  <2>3. /\ \A p \in DOMAIN events' : Claim(boot', events'[p].id, events'[p].topic) \in Claims
        /\ \A p \in DOMAIN inbox' : Claim(inbox'[p].boot, inbox'[p].id, inbox'[p].topic) \in Claims
    BY <1>1, ClaimsView
  <2>4. Awaited' = Awaited /\ task' = task
    BY <1>1 DEF Awaited, Answers
  <2>5. task'.at \in {"subscribe", "reconcile"} =>
          \A r \in Awaited' : Claim(r.boot, r.id, task'.topic) \in Claims
    BY <2>4, ClaimsView
  <2>6. QED
    BY <2>1, <2>2, <2>3, <2>5, ClaimsFrom
<1>5. nextId' >= nextId /\ nextId' \in Nat
  <2>1. nextId \in Nat /\ nextId >= nextId
    BY MessageTypes
  <2>2. QED
    BY <2>1, <1>1
<1>6. ClaimsOK'
  BY <1>1, <1>4, <1>5, ClaimsShrink
<1>7. QueuesOK'
  BY <1>1, <1>3 DEF QueuesOK, Last
<1>8. \A b, id, n : Ahead(b, id, n) => Ahead(b, id, n)'
  BY <1>1, <1>3 DEF Ahead
<1>9. GivenOK'
  <2> SUFFICES ASSUME NEW s \in Slots, slot'[s].active
               PROVE  Ahead(slot[s].boot, slot[s].id, given[s])'
    BY DEF GivenOK
  <2>1. PICK b \in {slot'[s].boot}, id \in {slot'[s].id}, n \in {given'[s]} : TRUE
    OBVIOUS
  <2>2. slot[s].active /\ b = slot[s].boot /\ id = slot[s].id
    BY <2>1, <1>2
  <2>3. CASE s = upcall.slot /\ Own(upcall)
    <3>1. n = upcall.seq
      BY <2>1, <2>3, <1>2
    <3>2. Ahead(slot[s].boot, slot[s].id, upcall.seq)
      BY <2>3, <1>1 DEF PendingOK
    <3>3. Ahead(b, id, n)
      BY <2>2, <3>1, <3>2
    <3>4. Ahead(b, id, n)'
      BY <3>3, <1>8
    <3>5. QED
      BY <3>4, <2>1 DEF Ahead
  <2>4. CASE ~ (s = upcall.slot /\ Own(upcall))
    <3>1. n = given[s]
      BY <2>1, <2>4, <1>2
    <3>2. Ahead(slot[s].boot, slot[s].id, given[s])
      BY <2>2 DEF GivenOK
    <3>3. Ahead(b, id, n)
      BY <2>2, <3>1, <3>2
    <3>4. Ahead(b, id, n)'
      BY <3>3, <1>8
    <3>5. QED
      BY <3>4, <2>1 DEF Ahead
  <2>5. QED
    BY <2>3, <2>4
<1>10. PendingOK'
  BY <1>1 DEF PendingOK
<1>11. QED
  BY <1>6, <1>7, <1>9, <1>10 DEF MessageInv

(* The slot of a message is found: it is of the message's topic, and what   *)
(* still comes for it comes after this message.                             *)
LEMMA MessageFound ==
  ASSUME SubInv, MessageInv, 1 \in DOMAIN inbox,
         NEW e \in EventPiece, e = inbox[1], Last(e), NEW boots, e.boot \in boots,
         Matching(e.id) # {}, Found(e, boots),
         \A p \in DOMAIN inbox' : /\ p \in Nat /\ p > 0 /\ p + 1 \in DOMAIN inbox
                                    /\ inbox'[p] = inbox[p + 1],
         UNCHANGED <<slot, events, table, boot, given>>
  PROVE  PendingOK'
<1> ClaimsOK /\ QueuesOK /\ GivenOK
  BY DEF MessageInv
<1>1. PICK s \in Slots : s = Min(Matching(e.id)) /\ slot[s].active /\ slot[s].id = e.id
  BY MatchingLeast
<1>2. upcall' = [slot |-> s, seq |-> e.seq, topic |-> e.topic, boots |-> boots, fresh |-> TRUE]
  BY <1>1 DEF Found
<1>3. upcall'.slot = s /\ upcall'.seq = e.seq /\ upcall'.topic = e.topic /\ upcall'.boots = boots
  BY <1>2
<1> SUFFICES ASSUME Own(upcall)'
             PROVE  /\ slot'[s].active /\ e.topic = slot'[s].topic /\ e.seq > given'[s]
                    /\ Ahead(slot[upcall.slot].boot, slot[upcall.slot].id, upcall.seq)'
  BY <1>3 DEF PendingOK
<1>4. e.boot = slot[s].boot
  <2>1. boots = {slot[s].boot}
    BY <1>3 DEF Own
  <2>2. QED
    BY <2>1
<1>5. e.topic = slot[s].topic
  <2>1. PICK c \in Claims : c = Claim(inbox[1].boot, inbox[1].id, inbox[1].topic)
    BY ClaimsView
  <2>2. PICK d \in Claims : d = Claim(slot[s].boot, slot[s].id, slot[s].topic)
    BY <1>1, ClaimsView
  <2>3. c.boot = d.boot /\ c.id = d.id /\ c.topic = e.topic /\ d.topic = slot[s].topic
    BY <2>1, <2>2, <1>1, <1>4 DEF Claim
  <2>4. QED
    BY <2>3 DEF ClaimsOK
<1>6. e.seq > given[s]
  BY <1>1, <1>4 DEF GivenOK, Ahead
<1>7. PICK b \in {slot[s].boot}, id \in {slot[s].id}, n \in {e.seq} : TRUE
  OBVIOUS
<1>8. b = inbox[1].boot /\ id = inbox[1].id /\ n = inbox[1].seq /\ n \in Nat
  BY <1>1, <1>4, <1>7 DEF EventPiece
<1>9. Ahead(b, id, n)'
  <2>1. ASSUME NEW p \in DOMAIN inbox', inbox'[p].boot = b, inbox'[p].id = id
        PROVE  inbox'[p].seq > n
    <3>1. PICK q \in DOMAIN inbox : q = p + 1 /\ inbox'[p] = inbox[q] /\ p \in Nat
      OBVIOUS
    <3>2. inbox'[p].seq \in Nat /\ DOMAIN inbox = 1..Len(inbox)
      BY <3>1, MessageTypes
    <3>3. 1 < q
      BY <3>1
    <3>4. n < inbox[q].seq
      BY <2>1, <3>1, <3>3, <1>8 DEF QueuesOK
    <3>5. QED
      BY <3>1, <3>2, <3>4, <1>8
  <2>2. ASSUME b = boot', NEW p \in DOMAIN events', events'[p].id = id
        PROVE  events'[p].seq > n
    <3>1. n < events[p].seq /\ events[p].seq \in Nat
      BY <2>2, <1>8, MessageTypes DEF QueuesOK
    <3>2. QED
      BY <3>1, <1>8
  <2>3. ASSUME b = boot', NEW t \in Live', table'[t].id = id
        PROVE  table'[t].next > n
    <3>1. t \in Live /\ t \in Topics
      BY DEF Live
    <3>2. n < table[t].next /\ table[t].next \in Nat
      BY <2>3, <3>1, <1>8, MessageTypes DEF QueuesOK
    <3>3. QED
      BY <3>2, <1>8
  <2>4. QED
    BY <2>1, <2>2, <2>3 DEF Ahead
<1>10. b = slot'[upcall'.slot].boot /\ id = slot'[upcall'.slot].id /\ n = upcall'.seq
  BY <1>3, <1>7
<1>11. Ahead(slot[upcall.slot].boot, slot[upcall.slot].id, upcall.seq)'
  BY <1>9, <1>10 DEF Ahead
<1>12. QED
  BY <1>1, <1>5, <1>6, <1>11

LEMMA MessagesHeard ==
  ASSUME SubInv, MessageInv, HandleEvent
  PROVE  MessageInv'
<1> ClaimsOK /\ QueuesOK /\ GivenOK /\ PendingOK
  BY DEF MessageInv
<1>1. /\ inbox' \in Seq(EventPiece) /\ Head(inbox) \in EventPiece /\ Head(inbox) = inbox[1]
      /\ 1 \in DOMAIN inbox
      /\ \A p \in DOMAIN inbox' : p + 1 \in DOMAIN inbox /\ inbox'[p] = inbox[p + 1]
  BY HeardTyped DEF SubInv
<1>2. \A p \in DOMAIN inbox' :
        p \in Nat /\ p > 0 /\ p + 1 \in DOMAIN inbox /\ inbox'[p] = inbox[p + 1]
  BY <1>1
<1>3. /\ upcall = NoCall
      /\ UNCHANGED <<replies, awaiting, task, slot, events, boot, table, nextId, given>>
  BY DEF HandleEvent, link, subscriber, registry, outbox, history
<1>4. /\ QueuesOK'
      /\ \A b, id : \A n \in Nat : Ahead(b, id, n) => Ahead(b, id, n)'
  <2>1. events' = events /\ boot' = boot /\ \A t \in Topics : table'[t] = table[t]
    BY <1>3
  <2>2. QED
    BY <1>2, <2>1, QueuesShrink
<1>5. Claims' \subseteq Claims
  <2>1. \A x \in Live' : Claim(boot', table'[x].id, x) \in Claims
    BY <1>3, ClaimsView DEF Live
  <2>2. \A s \in Slots : slot'[s].active =>
          Claim(slot'[s].boot, slot'[s].id, slot'[s].topic) \in Claims
    BY <1>3, ClaimsView
  <2>3. /\ \A p \in DOMAIN events' : Claim(boot', events'[p].id, events'[p].topic) \in Claims
        /\ \A p \in DOMAIN inbox' : Claim(inbox'[p].boot, inbox'[p].id, inbox'[p].topic) \in Claims
    BY <1>1, <1>3, ClaimsView
  <2>4. Awaited' = Awaited /\ task' = task
    BY <1>3 DEF Awaited, Answers
  <2>5. task'.at \in {"subscribe", "reconcile"} =>
          \A r \in Awaited' : Claim(r.boot, r.id, task'.topic) \in Claims
    BY <2>4, ClaimsView
  <2>6. QED
    BY <2>1, <2>2, <2>3, <2>5, ClaimsFrom
<1>6. nextId' >= nextId /\ nextId' \in Nat
  <2>1. nextId \in Nat /\ nextId >= nextId
    BY MessageTypes
  <2>2. QED
    BY <2>1, <1>3
<1>7. ClaimsOK'
  BY <1>3, <1>5, <1>6, ClaimsShrink
<1>8. GivenOK'
  <2> SUFFICES ASSUME NEW s \in Slots, slot[s].active
               PROVE  Ahead(slot[s].boot, slot[s].id, given[s])'
    BY <1>3 DEF GivenOK
  <2>1. given[s] \in Nat
    BY MessageTypes
  <2>2. PICK b \in {slot[s].boot}, id \in {slot[s].id}, n \in {given[s]} : n \in Nat
    BY <2>1
  <2>3. Ahead(slot[s].boot, slot[s].id, given[s])
    BY DEF GivenOK
  <2>4. Ahead(b, id, n)
    BY <2>2, <2>3
  <2>5. Ahead(b, id, n)'
    BY <2>2, <2>4, <1>4
  <2>6. b = slot'[s].boot /\ id = slot'[s].id /\ n = given'[s]
    BY <2>2, <1>3
  <2>7. QED
    BY <2>5, <2>6 DEF Ahead
<1>9. PendingOK'
  <2>1. PICK e \in EventPiece : e = Head(inbox)
    BY <1>1
  <2>2. CASE upcall' = upcall
    BY <2>2, <1>3 DEF PendingOK
  <2>3. CASE \E boots : Last(e) /\ e.boot \in boots /\ Matching(e.id) # {} /\ Found(e, boots)
    <3>1. e = inbox[1]
      BY <2>1, <1>1
    <3>2. QED
      BY <2>3, <3>1, <1>1, <1>2, <1>3, MessageFound
  <2>4. CASE HandleDelivery(e)
    BY <2>2, <2>3, <2>4 DEF HandleDelivery, Last
  <2>5. CASE HandleEventCommit(e)
    <3>1. e.boot \in held.boots \cup {e.boot}
      OBVIOUS
    <3>2. QED
      BY <2>2, <2>3, <2>5, <3>1 DEF HandleEventCommit, Last
  <2>6. CASE HandleEventBegin(e) \/ HandleEventChunk(e) \/ UNCHANGED <<held, upcall>>
    BY <2>2, <2>6 DEF HandleEventBegin, HandleEventChunk
  <2>7. QED
    BY <2>1, <2>4, <2>5, <2>6 DEF HandleEvent
<1>10. QED
  BY <1>4, <1>7, <1>8, <1>9 DEF MessageInv

(* The delegate restarts: its ids begin again, under another boot id.       *)
LEMMA MessagesRestart ==
  ASSUME SubInv, MessageInv, SubRestart
  PROVE  MessageInv'
<1> ClaimsOK /\ QueuesOK /\ GivenOK /\ PendingOK
  BY DEF MessageInv
<1>1. /\ UNCHANGED <<replies, awaiting, task, slot, upcall, inbox, given>>
      /\ boot' = boot + 1 /\ nextId' = 1 /\ events' = <<>>
      /\ table' = [t \in Topics |-> NoSub]
  BY DEF SubRestart, LoseFrames, subscriber, arrivals
<1>2. /\ QueuesOK'
      /\ \A b, id : \A n \in Nat : Ahead(b, id, n) => Ahead(b, id, n)'
  BY <1>1, QueuesRestart
<1>3. Live' = {} /\ DOMAIN events' = {}
  BY <1>1 DEF Live
<1>4. Claims' \subseteq Claims
  <2>1. \A s \in Slots : slot'[s].active =>
          Claim(slot'[s].boot, slot'[s].id, slot'[s].topic) \in Claims
    BY <1>1, ClaimsView
  <2>2. \A p \in DOMAIN inbox' : Claim(inbox'[p].boot, inbox'[p].id, inbox'[p].topic) \in Claims
    BY <1>1, ClaimsView
  <2>3. Awaited' = Awaited /\ task' = task
    BY <1>1 DEF Awaited, Answers
  <2>4. task'.at \in {"subscribe", "reconcile"} =>
          \A r \in Awaited' : Claim(r.boot, r.id, task'.topic) \in Claims
    BY <2>3, ClaimsView
  <2>5. QED
    BY <1>3, <2>1, <2>2, <2>4, ClaimsFrom
<1>5. ClaimsOK'
  <2>1. boot \in Nat
    BY MessageTypes
  <2>2. PICK m \in Nat : m = boot + 1
    BY <2>1
  <2>3. \A c \in Claims : c.boot \in 1..m /\ c.id > 0 /\ c.boot # m
    BY <2>1, <2>2 DEF ClaimsOK
  <2>4. boot' = m
    BY <2>2, <1>1
  <2>5. QED
    BY <2>3, <2>4, <1>4 DEF ClaimsOK
<1>6. GivenOK' /\ PendingOK'
  BY <1>1, <1>2, SlotsKeep
<1>7. QED
  BY <1>2, <1>5, <1>6 DEF MessageInv

LEMMA MessagesInit == SubInit => MessageInv
<1> SUFFICES ASSUME SubInit PROVE MessageInv
  OBVIOUS
<1>1. /\ awaiting = 0 /\ slot = [s \in Slots |-> Unused] /\ upcall = NoCall /\ inbox = <<>>
      /\ table = [t \in Topics |-> NoSub] /\ events = <<>>
  BY DEF SubInit, LinkInit
<1>2. /\ Live = {} /\ DOMAIN inbox = {} /\ DOMAIN events = {} /\ Awaited = {}
      /\ \A s \in Slots : slot[s].active = FALSE
  BY <1>1 DEF Live, Awaited, Unused
<1>3. Claims = {}
  BY <1>2 DEF Claims, TableClaims, SlotClaims, EventClaims, PieceClaims, AnswerClaims
<1>4. ClaimsOK /\ QueuesOK /\ GivenOK /\ PendingOK
  BY <1>1, <1>2, <1>3 DEF ClaimsOK, QueuesOK, GivenOK, PendingOK
<1>5. QED
  BY <1>4 DEF MessageInv

LEMMA MessageStep == SubInv /\ MessageInv /\ [SubNext]_subVars => MessageInv'
<1> SUFFICES ASSUME SubInv, MessageInv, [SubNext]_subVars PROVE MessageInv'
  OBVIOUS
<1>1. CASE \/ SubConnect
           \/ \E t \in Topics : Subscribe(t)
           \/ \E s \in Slots : Unsubscribe(s)
           \/ SendSubRequest
           \/ DropStaleResponse /\ UNCHANGED <<subscriber, arrivals, registry, outbox, history>>
           \/ TakeFrame /\ UNCHANGED <<subscriber, arrivals, registry, outbox, history>>
           \/ UNCHANGED subVars
  BY <1>1, MessagesCall
<1>2. CASE \E t \in Topics : Publish(t, TRUE) \/ Publish(t, FALSE)
  BY <1>2, MessagesPublish
<1>3. CASE Application
  BY <1>3, <1>1, MessagesEnd, MessagesReset DEF Application
<1>4. CASE HandleEvent \/ DispatchDelivery
  BY <1>4, MessagesHeard, MessagesDispatch
<1>5. CASE HandleRequest \/ SendPiece \/ SubRestart
  BY <1>5, MessagesRequest, MessagesSendPiece, MessagesRestart
<1>6. QED
  BY <1>1, <1>2, <1>3, <1>4, <1>5 DEF SubNext

(* The callback that is about to be called is that of the subscription the  *)
(* message was published to, and the message comes after all that it was    *)
(* given before (OwnMessagesInOrder).                                       *)
THEOREM OwnMessagesCome == SubSpec => []OwnMessagesInOrder
<1>1. MessageInv => OwnMessagesInOrder
  BY DEF MessageInv, PendingOK, OwnMessagesInOrder
<1>2. QED
  BY <1>1, SubInvHolds, MessagesInit, MessageStep, PTL DEF SubSpec
=============================================================================
