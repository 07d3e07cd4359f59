----------------------------- MODULE PubsubClient -----------------------------
(***************************************************************************)
(* A topic of the pubsub client (misc/src/pubsub/robusto_pubsub_client.c): *)
(* an application that gets it from a server and publishes on it, the      *)
(* monitor and the recovery tasks that bring it back, and the worker that  *)
(* takes what the server sends.  The server may restart, and then it knows *)
(* nothing; messages are lost and overtake each other.  The topics of a    *)
(* client meet only where its list is searched, so that one is modelled.   *)
(* Its states have the names of topic_state_t.                             *)
(***************************************************************************)
EXTENDS Naturals, FiniteSets

CONSTANTS
  Kinds,         \* of topics: with a callback, published on, or both
  Tasks,         \* bound: so many recovery tasks at once
  MaxPresentations,      \* bound: so often the server presents itself
  Application            \* the task of the application

Callers == Tasks \cup {Application}

ASSUME TopicAssumption ==
  /\ Kinds \subseteq {"callback", "published", "both"} /\ Application \notin Tasks
  /\ MaxPresentations \in Nat

VARIABLES
  kind,        \* of the topic, it does not change
  state, hash, \* of the topic: topic_hash is that of its name, or 0
  at, sent,    \* where the application and each recovery task are
  air,         \* messages under way
  known,       \* the server knows the topic
  subscribed,  \* and sends what is published to this client
  presentations,
  peerKnown,   \* the client knows the server: PEER_KNOWN_INSECURE at least
  greeting,    \* its worker is handling a presentation of the server
  cause        \* why the server neither sends data nor is going to be asked

HasCallback == kind # "published"
IsPublished == kind # "callback"

topic == <<kind, state, hash>>
callers == <<at, sent>>
serverSide == <<known, subscribed, presentations>>
serverPeer == <<peerKnown, greeting>>
clientVars == <<topic, callers, air, serverSide, serverPeer, cause>>

\* A message has the conversation id of the topic as long as it is the latest.
Request(latest) == [type |-> "request", latest |-> latest]
Answer(h, latest) == [type |-> "answer", hash |-> h, latest |-> latest]
Publication(h) == [type |-> "publish", hash |-> h]
Unknown(h) == [type |-> "unknown", hash |-> h]
Data == [type |-> "data"]
Hello == [type |-> "hello"]

Hashes == {"own", "zero"}
Messages == {Data, Hello} \cup {Request(b) : b \in BOOLEAN} \cup
            {Answer(h, b) : h \in Hashes, b \in BOOLEAN} \cup
            {Publication(h) : h \in Hashes} \cup {Unknown(h) : h \in Hashes}

States == {"UNSET", "INACTIVE", "ACTIVE", "PROBLEM", "RECOVERING", "UNKNOWN",
           "PUBLISHED"}

Places == {"idle", "number", "send", "settle", "wait", "judge", "await",
           "published"}

\* What can happen to a subscription that nobody repeats or notices.
Causes == {"lost", "refused", "no task", "recovering", "unknown peer",
           "overwritten"}

ClientTypeOK ==
  /\ kind \in Kinds
  /\ state \in States
  /\ hash \in Hashes
  /\ at \in [Callers -> Places]
  /\ sent \in [Callers -> BOOLEAN]
  /\ air \subseteq Messages
  /\ known \in BOOLEAN /\ subscribed \in BOOLEAN
  /\ presentations \in 0 .. MaxPresentations
  /\ peerKnown \in BOOLEAN /\ greeting \in BOOLEAN
  /\ cause \in Causes \cup {"none"}

ClientInit ==
  /\ kind \in Kinds
  /\ state = "UNSET" /\ hash = "own"
  /\ at = [c \in Callers |-> IF c = Application THEN "number" ELSE "idle"]
  /\ sent = [c \in Callers |-> FALSE]
  /\ air = {} /\ known = FALSE /\ subscribed = FALSE
  /\ presentations = 0
  /\ peerKnown = TRUE /\ greeting = FALSE /\ cause = "none"

-----------------------------------------------------------------------------
(* robusto_pubsub_client_get_topic, by the application or a recovery task. *)

Goes(c, from, to) == at[c] = from /\ at' = [at EXCEPT ![c] = to]
Leaves(c, from) == Goes(c, from, IF c = Application THEN "idle" ELSE "judge")
\* Mutant: the monitor does not look for unknown topics.
AilsKnown == state = "PROBLEM"

Ails == state \in {"PROBLEM", "UNKNOWN"}

\* A request is on its way, or one will be made.
Asks(c) == \/ at[c] \in {"number", "send"}
           \/ at[c] = "settle" /\ ~sent[c]
Asked == (\E c \in Callers : Asks(c)) \/ \E m \in air : m.type = "request"

\* The server sends what is published, or it will be asked to: there is a
\* request, the topic ails, or the server presents itself.
Provided ==
  \/ ~HasCallback \/ subscribed
  \/ Asked \/ Ails
  \/ Hello \in air \/ greeting

\* The step after which that is so no more is the cause.
Blames(why) ==
  cause' = CASE Provided' -> "none"
             [] ~Provided' /\ cause = "none" -> why
             [] OTHER -> cause

Innocent == Blames("none")

\* An ailing topic may be made to look well by what did not help it.
LooksWell == Blames("overwritten")

\* A new conversation id: what is under way has an older one.
Older(m) == CASE m.type = "request" -> Request(FALSE)
              [] m.type = "answer" -> Answer(m.hash, FALSE)
              [] OTHER -> m

Number(c) ==
  /\ Goes(c, "number", "send")
  /\ air' = {Older(m) : m \in air}
  /\ sent' = [sent EXCEPT ![c] = FALSE]
  /\ UNCHANGED <<topic, serverSide, serverPeer>> /\ Innocent

SendRequest(c) ==
  /\ Goes(c, "send", "settle")
  /\ air' = air \cup {Request(TRUE)}
  /\ sent' = [sent EXCEPT ![c] = TRUE]
  /\ UNCHANGED <<topic, serverSide, serverPeer>> /\ Innocent

RequestFails(c) ==
  /\ Goes(c, "send", "settle")
  /\ UNCHANGED <<topic, sent, air, serverSide, serverPeer>> /\ Innocent

RequestFailed(c) ==
  /\ Leaves(c, "settle") /\ ~sent[c]
  /\ state' = "PROBLEM"
  /\ UNCHANGED <<kind, hash, sent, air, serverSide, serverPeer>> /\ Innocent

\* The hash is known before, unless the server has answered with 0.
Settle(c) ==
  /\ Leaves(c, "settle") /\ sent[c] /\ hash # "zero"
  /\ state' = "INACTIVE"
  /\ UNCHANGED <<kind, hash, sent, air, serverSide, serverPeer>> /\ LooksWell

Wait(c) ==
  /\ Goes(c, "settle", "wait") /\ sent[c] /\ hash = "zero"
  /\ UNCHANGED <<topic, sent, air, serverSide, serverPeer>> /\ Innocent

HashComes(c) ==
  /\ Leaves(c, "wait") /\ hash # "zero"
  /\ state' = "INACTIVE"
  /\ UNCHANGED <<kind, hash, sent, air, serverSide, serverPeer>> /\ LooksWell

HashWaitEnds(c) ==
  /\ Leaves(c, "wait")
  /\ state' = "PROBLEM"
  /\ UNCHANGED <<kind, hash, sent, air, serverSide, serverPeer>> /\ Innocent

Gets(c) == \/ Number(c) \/ SendRequest(c) \/ RequestFails(c) \/ RequestFailed(c)
           \/ Settle(c) \/ Wait(c) \/ HashComes(c) \/ HashWaitEnds(c)

-----------------------------------------------------------------------------
(* recover_topic, and the two that create such tasks.                      *)

Recovered(c, from) ==
  /\ Goes(c, from, "idle") /\ state # "PROBLEM"
  /\ state' = "ACTIVE"
  /\ UNCHANGED <<kind, hash, sent, air, serverSide, serverPeer>> /\ LooksWell

Await(c) ==
  /\ Goes(c, "judge", "await") /\ state = "PROBLEM"
  /\ UNCHANGED <<topic, sent, air, serverSide, serverPeer>> /\ Innocent

\* Mutant: the result of the wait is taken for its opposite.
AwaitEndsWell(c) ==
  /\ Goes(c, "await", "idle")
  /\ state' = "ACTIVE"
  /\ UNCHANGED <<kind, hash, sent, air, serverSide, serverPeer>> /\ Innocent

AwaitEnds(c) ==
  /\ Goes(c, "await", "idle")
  /\ state' = "PROBLEM"
  /\ UNCHANGED <<kind, hash, sent, air, serverSide, serverPeer>> /\ Innocent

Recovers(c) == Recovered(c, "judge") \/ Await(c) \/ Recovered(c, "await")
               \/ AwaitEnds(c)

\* create_topic_recovery_task.  The state is set before there is a task, and
\* nothing at all is done for a peer that is not known at the moment.
CreateTask ==
  /\ peerKnown
  /\ state' = "RECOVERING"
  /\ \E c \in Tasks : Goes(c, "idle", "number")
  /\ UNCHANGED <<kind, hash, sent>>

CreationFails ==
  /\ peerKnown
  /\ state' = "RECOVERING"
  /\ UNCHANGED <<kind, hash, callers>>

\* robusto_pubsub_check_topics.
CheckTopic ==
  /\ Ails /\ CreateTask
  /\ UNCHANGED <<air, serverSide, serverPeer>> /\ Innocent

CheckTopicFails ==
  /\ Ails /\ CreationFails
  /\ UNCHANGED <<air, serverSide, serverPeer>> /\ Blames("no task")

-----------------------------------------------------------------------------
(* robusto_pubsub_client_publish, again and again.  Bound: the publication *)
(* before, and the answer to it, are no longer under way.                  *)

Publish ==
  /\ IsPublished /\ Goes(Application, "idle", "published")
  /\ ~\E m \in air : m.type \in {"publish", "unknown"}
  /\ air' = air \cup {Publication(hash)} /\ sent' = [sent EXCEPT ![Application] = TRUE]
  /\ UNCHANGED <<topic, serverSide, serverPeer>> /\ Innocent

PublishFails ==
  /\ IsPublished /\ Goes(Application, "idle", "published")
  /\ sent' = [sent EXCEPT ![Application] = FALSE]
  /\ UNCHANGED <<topic, air, serverSide, serverPeer>> /\ Innocent

PublishReturns ==
  /\ Goes(Application, "published", "idle")
  /\ state' = IF sent[Application] THEN "PUBLISHED" ELSE "PROBLEM"
  /\ UNCHANGED <<kind, hash, sent, air, serverSide, serverPeer>> /\ LooksWell

-----------------------------------------------------------------------------
(* The server, as incoming_callback of robusto_pubsub_server.c answers.    *)

Replaces(m, messages) == m \in air /\ air' = (air \ {m}) \cup messages

ServerRegisters(latest) ==
  /\ Replaces(Request(latest), {Answer("own", latest)})
  /\ known' = TRUE /\ subscribed' = HasCallback
  /\ UNCHANGED <<topic, callers, presentations, serverPeer>> /\ Innocent

\* Its mutex is taken, or there is no memory for the topic or the subscriber:
\* the answer to a subscription is 0.
ServerRefuses(latest) ==
  /\ HasCallback
  /\ Replaces(Request(latest), {Answer("zero", latest)})
  /\ known' \in {known, TRUE}
  /\ UNCHANGED <<topic, callers, subscribed, presentations, serverPeer>> /\ Blames("refused")

ServerTakesPublication(h) ==
  /\ Replaces(Publication(h), IF h = "zero" \/ ~known THEN {Unknown(h)}
                              ELSE IF subscribed THEN {Data} ELSE {})
  /\ UNCHANGED <<topic, callers, serverSide, serverPeer>> /\ Innocent

OthersPublish ==
  /\ subscribed
  /\ air' = air \cup {Data}
  /\ UNCHANGED <<topic, callers, serverSide, serverPeer>> /\ Innocent

\* The server presents itself...
Presents ==
  /\ presentations < MaxPresentations
  /\ presentations' = presentations + 1
  /\ air' = air \cup {Hello}
  /\ UNCHANGED <<topic, callers, serverPeer>>

ServerPresents == Presents /\ UNCHANGED <<known, subscribed>> /\ Innocent

\* ...and does so when it has restarted and knows nothing.
ServerRestarts == Presents /\ known' = FALSE /\ subscribed' = FALSE /\ Innocent

Lose(m) ==
  /\ Replaces(m, {})
  /\ UNCHANGED <<topic, callers, serverSide, serverPeer>>
  /\ Blames(IF m.type \in {"request", "hello"} THEN "lost" ELSE "none")

-----------------------------------------------------------------------------
(* incoming_callback of the client, and incoming presentations: one worker *)
(* handles them one after the other.                                       *)

Reads(m) == ~greeting /\ Replaces(m, {})

TakesUnknown(h) ==
  /\ Reads(Unknown(h))
  /\ state' = IF hash = h THEN "UNKNOWN" ELSE state
  /\ UNCHANGED <<kind, hash, callers, serverSide, serverPeer>> /\ Innocent

TakesData ==
  /\ Reads(Data)
  /\ state' = IF hash = "own" THEN "ACTIVE" ELSE state
  /\ UNCHANGED <<kind, hash, callers, serverSide, serverPeer>> /\ LooksWell

\* The answer finds the topic by its conversation id, or else by its hash.
TakesAnswer(h, latest) ==
  /\ Reads(Answer(h, latest))
  /\ IF latest \/ hash = h THEN hash' = h /\ state' = "INACTIVE"
                           ELSE UNCHANGED <<hash, state>>
  /\ UNCHANGED <<kind, callers, serverSide, serverPeer>> /\ LooksWell

\* robusto_handle_presentation: the peer is known from now on...
TakesHello ==
  /\ Reads(Hello)
  /\ peerKnown' = TRUE /\ greeting' = TRUE
  /\ UNCHANGED <<topic, callers, serverSide>> /\ Innocent

\* ...unless another task, which presents this node or replies to the peer at
\* the time, writes its state.
OthersWritePeer(b) ==
  /\ peerKnown' = b
  /\ UNCHANGED <<topic, callers, air, serverSide, greeting>> /\ Innocent

\* robusto_pubsub_client_recover_peer_subscriptions
Revives == HasCallback /\ state # "RECOVERING"

RecoversSubscription ==
  /\ greeting /\ greeting' = FALSE
  /\ UNCHANGED <<air, serverSide, peerKnown>>
  /\ \/ Revives /\ CreateTask /\ Innocent
     \/ Revives /\ CreationFails /\ Blames("no task")
     \/ Revives /\ ~peerKnown /\ UNCHANGED <<topic, callers>>
        /\ Blames("unknown peer")
     \/ ~Revives /\ UNCHANGED <<topic, callers>> /\ Blames("recovering")

Arrives ==
  \/ \E latest \in BOOLEAN : ServerRegisters(latest) \/ ServerRefuses(latest)
  \/ \E h \in Hashes : ServerTakesPublication(h) \/ TakesUnknown(h)
  \/ \E h \in Hashes, latest \in BOOLEAN : TakesAnswer(h, latest)
  \/ TakesData \/ TakesHello \/ RecoversSubscription

ServerTakesPublications == \E h \in Hashes : ServerTakesPublication(h)

ClientNext ==
  \/ \E c \in Callers : Gets(c)
  \/ \E c \in Tasks : Recovers(c)
  \/ CheckTopic \/ CheckTopicFails
  \/ Publish \/ PublishFails \/ PublishReturns
  \/ Arrives \/ OthersPublish \/ ServerPresents \/ ServerRestarts
  \/ \E b \in BOOLEAN : OthersWritePeer(b)
  \/ \E m \in air : Lose(m)

ClientSpec == ClientInit /\ [][ClientNext]_clientVars

-----------------------------------------------------------------------------
\* The application publishes again and again.  What is tried again and again
\* succeeds at times, at times a publication returns before its answer, and the
\* tasks that present this node leave the peer known, now and then.
Quiet == at[Application] # "published"
Publishing == \E h \in Hashes : Publication(h) \in air

ClientFairSpec ==
  /\ ClientSpec
  /\ WF_clientVars(\E c \in Callers : Gets(c)) /\ WF_clientVars(\E c \in Tasks : Recovers(c))
  /\ WF_clientVars(PublishReturns) /\ SF_clientVars(\E c \in Callers : SendRequest(c))
  /\ SF_clientVars(CheckTopic) /\ SF_clientVars(Ails /\ OthersWritePeer(TRUE))
  /\ WF_clientVars(RecoversSubscription)
  /\ SF_clientVars(Publish) /\ SF_clientVars(Publishing /\ PublishReturns)
  /\ SF_clientVars(Quiet /\ ServerTakesPublications)
  /\ SF_clientVars(Quiet /\ \E h \in Hashes : TakesUnknown(h))
  /\ SF_clientVars(\E latest \in BOOLEAN : ServerRegisters(latest))

-----------------------------------------------------------------------------
(* A topic with a callback gets the data of the server, or asks for it, or  *)
(* will, unless a step without a repetition has just undone that and cause  *)
(* names it.  These are all the causes: a SUBSCRIBE or the presentation of  *)
(* the server is lost ("lost"), a SUBSCRIBE is refused ("refused"), a       *)
(* recovery task cannot be created ("no task"), a presentation comes while  *)
(* the topic is recovering ("recovering"), or while another task writes the *)
(* state of the peer ("unknown peer"), or the state of an ailing topic is   *)
(* overwritten by the end of a call, by late data or by a late answer       *)
(* ("overwritten").                                                         *)
NobodyIsForgotten == Provided \/ cause # "none"

(* A topic that "is recovering" (robusto_pubsub_client.c, for the state     *)
(* RECOVERING) has a task that recovers it.                                 *)
RecoveringIsInProgress ==
  state = "RECOVERING" => \E c \in Tasks : at[c] # "idle"

(* However often the server restarts, and whatever is lost or fails: it     *)
(* knows a topic again on which the application goes on publishing.  Only a *)
(* publication tells this client that the server has forgotten a topic.     *)
PublishersHeal == IsPublished => <>[]known
=============================================================================
