----------------------------- MODULE PubsubProofs -----------------------------
(***************************************************************************)
(* The pubsub server and its adapter for any number of topics, slots,      *)
(* peers and messages: the two mutexes are given back, the lists of the    *)
(* server agree with the slots of the adapter and have no deleted peers,   *)
(* and a publish is what PubsubBoard says it is.                           *)
(*                                                                         *)
(* At the end the pubsub client, whose state is its own: a subscription is *)
(* lost only by a named cause, for any number of recovery tasks, restarts  *)
(* and kinds of topics.                                                    *)
(***************************************************************************)
EXTENDS PubsubServer, PubsubClient, SequenceTheorems, WellFoundedInduction, TLAPS

\* What the proof needs to know of the types: a call has a place in the code.
LocksOK ==
  /\ server \in Task \cup {Nobody}
  /\ DOMAIN call = Task
  /\ call = [k \in Task |-> call[k]]
  /\ \A k \in Task : "at" \in DOMAIN call[k]

IInv == LocksOK /\ MutexesGivenBack

Holds == {"walk", "nested"}
InAdapter == {"subscribe", "unsubscribe"}

\* A task that enters a call leaves the calls of the other tasks alone.
LEMMA EntersFacts ==
    ASSUME NEW k \in Task, NEW c, "at" \in DOMAIN c, LocksOK, Enters(k, c)
    PROVE  /\ DOMAIN call' = Task
           /\ call' = [j \in Task |-> call'[j]]
           /\ \A j \in Task : "at" \in DOMAIN call'[j]
           /\ call'[k] = c
           /\ \A j \in Task \ {k} : call'[j] = call[j]
  BY DEF Enters, LocksOK

\* The same when the call ends.
LEMMA ReturnsFacts ==
    ASSUME NEW k \in Task, LocksOK, Returns(k)
    PROVE  /\ DOMAIN call' = Task
           /\ call' = [j \in Task |-> call'[j]]
           /\ \A j \in Task : "at" \in DOMAIN call'[j]
           /\ call'[k].at = "idle"
           /\ \A j \in Task \ {k} : call'[j] = call[j]
  BY DEF Returns, Idle, LocksOK

LEMMA InitOK == Init => IInv
  BY DEF Init, IInv, LocksOK, MutexesGivenBack, Idle, Task, Nobody

\* Steps of the bridge in the adapter.
LEMMA AdapterOK ==
    ASSUME IInv,
           \/ \E s \in Slot, t \in Topic : AdapterSubscribe(s, t)
           \/ \E s \in Slot : AdapterUnsubscribe(s)
           \/ AdapterSubscribed
           \/ AdapterUnsubscribed
    PROVE  IInv'
  <1>0. "bridge" \in Task /\ "bridge" # Nobody /\ LocksOK
    BY DEF Task, Nobody, IInv
  <1>1. ASSUME NEW c, "at" \in DOMAIN c, c.at \in InAdapter,
               Enters("bridge", c), adapter' = "bridge",
               call["bridge"] = Idle, UNCHANGED server
        PROVE  IInv'
    <2>1. /\ LocksOK'
          /\ call'["bridge"] = c
          /\ \A j \in Task \ {"bridge"} : call'[j] = call[j]
      BY <1>0, <1>1, EntersFacts DEF LocksOK
    <2>2. call["bridge"].at = "idle"
      BY <1>1 DEF Idle
    <2> QED BY <1>0, <1>1, <2>1, <2>2 DEF IInv, MutexesGivenBack, InAdapter
  <1>2. ASSUME Returns("bridge"), adapter' = Nobody, UNCHANGED server,
               call["bridge"].at \in InAdapter
        PROVE  IInv'
    <2>1. /\ LocksOK'
          /\ call'["bridge"].at = "idle"
          /\ \A j \in Task \ {"bridge"} : call'[j] = call[j]
      BY <1>0, <1>2, ReturnsFacts DEF LocksOK
    <2> QED BY <1>0, <1>2, <2>1 DEF IInv, MutexesGivenBack, InAdapter
  <1>3. ASSUME NEW s \in Slot, NEW t \in Topic, AdapterSubscribe(s, t)
        PROVE  IInv'
    BY <1>1, <1>3 DEF AdapterSubscribe, CallOf, Idle, InAdapter, Free
  <1>4. ASSUME NEW s \in Slot, AdapterUnsubscribe(s)
        PROVE  IInv'
    BY <1>1, <1>4 DEF AdapterUnsubscribe, CallOf, Idle, InAdapter, Free
  <1>5. AdapterSubscribed => IInv'
    BY <1>2 DEF AdapterSubscribed, SubscribeFails, AdapterReturns, Bridge,
                InAdapter
  <1>6. AdapterUnsubscribed => IInv'
    BY <1>2 DEF AdapterUnsubscribed, AdapterReturns, Bridge, InAdapter
  <1> QED BY <1>3, <1>4, <1>5, <1>6

\* A task goes from one place outside both mutexes to another.
LEMMA OutsideOK ==
    ASSUME IInv, NEW k \in Task, NEW c, "at" \in DOMAIN c,
           c.at \notin Holds \cup InAdapter,
           call[k].at \notin Holds \cup InAdapter,
           Enters(k, c), UNCHANGED <<server, adapter>>
    PROVE  IInv'
  <1>1. /\ LocksOK'
        /\ call'[k] = c
        /\ \A j \in Task \ {k} : call'[j] = call[j]
    BY EntersFacts DEF LocksOK, IInv
  <1> QED BY <1>1 DEF IInv, MutexesGivenBack, Holds, InAdapter, Task

\* A task that holds the mutex of the server goes on holding it.
LEMMA WalkOK ==
    ASSUME IInv, NEW k \in Task, NEW c, "at" \in DOMAIN c,
           c.at \in Holds, call[k].at \in Holds,
           Enters(k, c), UNCHANGED <<server, adapter>>
    PROVE  IInv'
  <1>1. /\ LocksOK'
        /\ call'[k] = c
        /\ \A j \in Task \ {k} : call'[j] = call[j]
    BY EntersFacts DEF LocksOK, IInv
  <1> QED BY <1>1 DEF IInv, MutexesGivenBack, Holds, InAdapter, Task

\* Steps of a publish.
LEMMA PublishOK ==
    ASSUME IInv, NEW k \in Task, PublishSteps(k) \/ HandToSlot(k)
    PROVE  IInv'
  <1>1. LocksOK /\ "at" \in DOMAIN call[k]
    BY DEF IInv, LocksOK
  <1>2. ASSUME NEW got, NEW fails, Handed(k, got, fails), call[k].at \in Holds
        PROVE  IInv'
    <2> DEFINE c == [call[k] EXCEPT !.at = "walk", !.next = @ + 1,
                                    !.failed = @ \/ fails]
    <2>1. "at" \in DOMAIN c /\ c.at \in Holds
      BY <1>1 DEF Holds
    <2>2. Enters(k, c) /\ UNCHANGED <<server, adapter>>
      BY <1>2 DEF Handed
    <2> HIDE DEF c
    <2> QED BY <1>2, <2>1, <2>2, WalkOK
  <1>3. CASE BeginPublish(k)
    <2> DEFINE c == [call[k] EXCEPT !.at = "walk", !.next = 1]
    <2>1. "at" \in DOMAIN c /\ c.at = "walk"
      BY <1>1
    <2>2. /\ Enters(k, c) /\ server' = k /\ UNCHANGED adapter
          /\ server = Nobody /\ call[k].at = "publish"
      BY <1>3 DEF BeginPublish, Locks
    <2> HIDE DEF c
    <2>3. /\ DOMAIN call' = Task
          /\ call' = [j \in Task |-> call'[j]]
          /\ \A j \in Task : "at" \in DOMAIN call'[j]
          /\ call'[k] = c
          /\ \A j \in Task \ {k} : call'[j] = call[j]
      BY <1>1, <2>1, <2>2, EntersFacts
    <2>4. Nobody \notin Task
      BY DEF Task, Nobody
    <2> QED BY <2>1, <2>2, <2>3, <2>4 DEF IInv, LocksOK, MutexesGivenBack, Task
  <1>4. CASE PublishRefused(k)
    <2>1. /\ Returns(k) /\ UNCHANGED <<server, adapter>>
          /\ call[k].at = "publish"
      BY <1>4 DEF PublishRefused, Refused
    <2>2. /\ LocksOK'
          /\ call'[k].at = "idle"
          /\ \A j \in Task \ {k} : call'[j] = call[j]
      BY <1>1, <2>1, ReturnsFacts DEF LocksOK
    <2> QED BY <2>1, <2>2 DEF IInv, MutexesGivenBack, Task
  <1>5. CASE EndPublish(k)
    <2>1. /\ Returns(k) /\ server' = Nobody /\ UNCHANGED adapter
          /\ call[k].at = "walk"
      BY <1>5 DEF EndPublish, Walks
    <2>2. /\ LocksOK'
          /\ call'[k].at = "idle"
          /\ \A j \in Task \ {k} : call'[j] = call[j]
      BY <1>1, <2>1, ReturnsFacts DEF LocksOK
    <2>3. server = k /\ Nobody \notin Task
      BY <2>1 DEF IInv, MutexesGivenBack, Task, Nobody
    <2> QED BY <2>1, <2>2, <2>3 DEF IInv, MutexesGivenBack, Task
  <1>6. CASE HandToEcho(k)
    <2> DEFINE c == [call[k] EXCEPT !.at = "nested"]
    <2>1. "at" \in DOMAIN c /\ c.at \in Holds
      BY <1>1 DEF Holds
    <2>2. /\ Enters(k, c) /\ UNCHANGED <<server, adapter>>
          /\ call[k].at \in Holds
      BY <1>6 DEF HandToEcho, Walks, Holds
    <2> HIDE DEF c
    <2> QED BY <2>1, <2>2, WalkOK
  <1>7. CASE HandToPeer(k)
    BY <1>2, <1>7 DEF HandToPeer, Walks, Holds
  <1>8. CASE HandToSlot(k)
    BY <1>2, <1>8 DEF HandToSlot, Walks, Holds
  <1>9. CASE HandToApp(k)
    BY <1>2, <1>9 DEF HandToApp, Walks, Holds
  <1>10. CASE NestedTimesOut(k)
    BY <1>2, <1>10 DEF NestedTimesOut, Holds
  <1> QED BY <1>3, <1>4, <1>5, <1>6, <1>7, <1>8, <1>9, <1>10 DEF PublishSteps

\* A task calls the server to publish, or the bridge finds the topic first.
LEMMA CallsOK ==
    ASSUME IInv,
           \/ CreateTopic
           \/ \E t \in Topic : \/ BridgePublishes(t) \/ PeerPublishes(t)
                               \/ ApplicationPublishes(t)
    PROVE  IInv'
  <1>1. LocksOK /\ {"bridge", "incoming", "application"} \subseteq Task
    BY DEF IInv, Task
  <1>2. ASSUME NEW k \in Task, NEW place \in {"create", "publish"},
               NEW t \in Topic, Publishes(k, place, t),
               UNCHANGED <<server, adapter>>
        PROVE  IInv'
    <2> DEFINE c == [CallOf(place, t, Nobody) EXCEPT !.message = NextMessage]
    <2>1. "at" \in DOMAIN c /\ c.at = place
      BY DEF CallOf, Idle
    <2>2. c.at \notin Holds \cup InAdapter
      BY <1>2, <2>1 DEF Holds, InAdapter
    <2>3. Enters(k, c) /\ call[k].at = "idle"
      BY <1>2 DEF Publishes, Free, Idle
    <2>4. call[k].at \notin Holds \cup InAdapter
      BY <2>3 DEF Holds, InAdapter
    <2> HIDE DEF c
    <2> QED BY <1>2, <2>1, <2>2, <2>3, <2>4, OutsideOK
  <1>3. CASE CreateTopic
    <2>1. CASE Refused("bridge")
      <3>1. /\ Returns("bridge") /\ UNCHANGED <<server, adapter>>
            /\ call["bridge"].at = "create"
        BY <1>3, <2>1 DEF CreateTopic, Refused
      <3>2. /\ LocksOK'
            /\ call'["bridge"].at = "idle"
            /\ \A j \in Task \ {"bridge"} : call'[j] = call[j]
        BY <1>1, <3>1, ReturnsFacts DEF LocksOK
      <3> QED BY <3>1, <3>2 DEF IInv, MutexesGivenBack, Task
    <2>2. CASE ~Refused("bridge")
      <3> DEFINE c == [call["bridge"] EXCEPT !.at = "publish"]
      <3>1. /\ Enters("bridge", c) /\ UNCHANGED <<server, adapter>>
            /\ call["bridge"].at = "create"
        BY <1>3, <2>2 DEF CreateTopic
      <3>2. "at" \in DOMAIN c /\ c.at = "publish"
        BY <1>1 DEF LocksOK
      <3> HIDE DEF c
      <3>3. /\ c.at \notin Holds \cup InAdapter
            /\ call["bridge"].at \notin Holds \cup InAdapter
        BY <3>1, <3>2 DEF Holds, InAdapter
      <3> QED BY <1>1, <3>1, <3>2, <3>3, OutsideOK
    <2> QED BY <2>1, <2>2
  <1>4. ASSUME NEW t \in Topic, BridgePublishes(t)
        PROVE  IInv'
    BY <1>1, <1>2, <1>4 DEF BridgePublishes
  <1>5. ASSUME NEW t \in Topic, PeerPublishes(t)
        PROVE  IInv'
    BY <1>1, <1>2, <1>5 DEF PeerPublishes
  <1>6. ASSUME NEW t \in Topic, ApplicationPublishes(t)
        PROVE  IInv'
    BY <1>1, <1>2, <1>6 DEF ApplicationPublishes
  <1> QED BY <1>3, <1>4, <1>5, <1>6

\* The other steps take the mutex of the server and give it back at once.
LEMMA UntouchedOK == IInv /\ UNCHANGED <<server, adapter, call>> => IInv'
  BY DEF IInv, LocksOK, MutexesGivenBack

LEMMA StepOK == IInv /\ [Next]_vars => IInv'
  <1> SUFFICES ASSUME IInv, [Next]_vars PROVE IInv'
    OBVIOUS
  <1>1. ASSUME NEW s \in Slot, AdapterUnsubscribe(s) PROVE IInv'
    BY <1>1, AdapterOK
  <1>2. ASSUME NEW s \in Slot, NEW t \in Topic, AdapterSubscribe(s, t)
        PROVE  IInv'
    BY <1>2, AdapterOK
  <1>3. CASE BridgeSteps
    BY <1>3, AdapterOK, CallsOK DEF BridgeSteps
  <1>4. ASSUME NEW t \in Topic,
               \/ BridgePublishes(t) \/ ApplicationPublishes(t)
               \/ ApplicationSubscribes(t) \/ PeerPublishes(t)
               \/ PeerGetsTopic(t)
        PROVE  IInv'
    <2>1. ApplicationSubscribes(t) \/ PeerGetsTopic(t) => IInv'
      BY UntouchedOK DEF ApplicationSubscribes, PeerGetsTopic
    <2> QED BY <1>4, <2>1, CallsOK
  <1>5. ASSUME NEW k \in Task, PublishSteps(k) \/ HandToSlot(k) PROVE IInv'
    BY <1>5, PublishOK
  <1>6. ASSUME NEW p \in Peer, WorkerSteps(p) PROVE IInv'
    BY <1>6, UntouchedOK DEF WorkerSteps, PeerPresents, DuplicateDeleted,
                             PeerSubscribes, PeerUnsubscribes
  <1>7. CASE UNCHANGED vars
    BY <1>7, UntouchedOK DEF vars
  <1> QED BY <1>1, <1>2, <1>3, <1>4, <1>5, <1>6, <1>7 DEF Next

\* Whoever holds a mutex is in a call that gives it back, so that at most one
\* task walks along the lists and nobody else changes them meanwhile.
THEOREM Mutexes == Spec => []MutexesGivenBack
  <1>1. IInv => MutexesGivenBack
    BY DEF IInv
  <1> QED BY <1>1, InitOK, StepOK, PTL DEF Spec

-----------------------------------------------------------------------------
(* Facts about lists and about the least of a set of positions.            *)

Distinct(s) == \A i, j \in 1..Len(s) : s[i] = s[j] => i = j

(* A set of natural numbers that has a member has a least one: what a       *)
(* recursive function does is proved with the least counterexample.         *)
LEMMA LeastOf ==
    ASSUME NEW T \in SUBSET Nat, T # {}
    PROVE  \E n \in T : \A m \in T : n <= m
  <1> DEFINE R == OpToRel(<, Nat)
  <1>1. PICK n \in T : \A m \in T : ~ (<<m, n>> \in R)
    <2> HIDE DEF R
    <2> QED BY NatLessThanWellFounded, WFMin, Zenon DEF R
  <1>2. \A m \in T : ~ (m < n)
    BY <1>1 DEF OpToRel
  <1> QED BY <1>2

(* The range of a sequence, by its positions.                               *)
LEMMA RangeFacts ==
    ASSUME NEW S, NEW s \in Seq(S)
    PROVE  Range(s) = {s[j] : j \in 1..Len(s)}
  BY DEF Range

(* Appending an element that is not there adds it and keeps all distinct.   *)
LEMMA AppendFacts ==
    ASSUME NEW S, NEW s \in Seq(S), NEW e \in S
    PROVE  /\ Append(s, e) \in Seq(S)
           /\ Len(Append(s, e)) = Len(s) + 1
           /\ Range(Append(s, e)) = Range(s) \cup {e}
           /\ Distinct(s) /\ e \notin Range(s) => Distinct(Append(s, e))
  <1> DEFINE t == Append(s, e)
  <1>1. /\ t \in Seq(S)
        /\ Len(t) = Len(s) + 1
        /\ \A j \in 1..Len(s) : t[j] = s[j]
        /\ t[Len(s) + 1] = e
    OBVIOUS
  <1>2. Range(t) = Range(s) \cup {e}
    <2>1. Range(t) \subseteq Range(s) \cup {e}
      BY <1>1 DEF Range
    <2>2. Range(s) \subseteq Range(t)
      <3>1. \A j \in 1..Len(s) : j \in 1..Len(t)
        BY <1>1
      <3> QED BY <3>1, <1>1 DEF Range
    <2>3. e \in Range(t)
      BY <1>1, Len(s) + 1 \in 1..Len(t) DEF Range
    <2> QED BY <2>1, <2>2, <2>3
  <1>3. Distinct(s) /\ e \notin Range(s) => Distinct(t)
    BY <1>1 DEF Range, Distinct
  <1> QED BY <1>1, <1>2, <1>3

(* Where the elements are when the one at position i has been removed.      *)
LEMMA RemoveAtPositions ==
    ASSUME NEW S, NEW s \in Seq(S), NEW i \in 1..Len(s)
    PROVE  /\ RemoveAt(s, i) \in Seq(S)
           /\ Len(RemoveAt(s, i)) = Len(s) - 1
           /\ \A j \in 1..Len(RemoveAt(s, i)) :
                RemoveAt(s, i)[j] = IF j < i THEN s[j] ELSE s[j + 1]
  <1> DEFINE a == SubSeq(s, 1, i - 1)
             b == SubSeq(s, i + 1, Len(s))
             t == RemoveAt(s, i)
  <1>1. /\ a \in Seq(S) /\ Len(a) = i - 1
        /\ \A j \in 1..Len(a) : a[j] = s[j]
    OBVIOUS
  <1>2. /\ b \in Seq(S) /\ Len(b) = Len(s) - i
        /\ \A j \in 1..Len(b) : b[j] = s[j + i]
    OBVIOUS
  <1>3. t = a \o b
    BY DEF RemoveAt
  <1> HIDE DEF a, b, t
  <1>4. /\ t \in Seq(S) /\ Len(t) = Len(a) + Len(b)
        /\ \A j \in 1..Len(t) :
              t[j] = IF j <= Len(a) THEN a[j] ELSE b[j - Len(a)]
    <2>1. a \in Seq(S) /\ b \in Seq(S)
      BY <1>1, <1>2
    <2>2. /\ a \o b \in Seq(S) /\ Len(a \o b) = Len(a) + Len(b)
          /\ \A j \in 1..(Len(a) + Len(b)) :
                (a \o b)[j] = IF j <= Len(a) THEN a[j] ELSE b[j - Len(a)]
      BY <2>1, ConcatProperties, Zenon
    <2> QED BY <2>2, <1>3, Zenon
  <1>5. i \in Int /\ Len(s) \in Nat
    OBVIOUS
  <1>6. ASSUME NEW j \in 1..Len(t)
        PROVE  t[j] = IF j < i THEN s[j] ELSE s[j + 1]
    <2>1. CASE j < i
      BY <2>1, <1>1, <1>4, <1>5, j \in 1..Len(a)
    <2>2. CASE j >= i
      <3>1. j - Len(a) \in 1..Len(b) /\ j - Len(a) + i = j + 1
        BY <2>2, <1>1, <1>2, <1>4, <1>5
      <3>2. t[j] = b[j - Len(a)]
        <4>1. ~ (j <= Len(a))
          BY <2>2, <1>1, <1>5
        <4> QED BY <1>4, <1>6, <4>1, Zenon
      <3>3. b[j - Len(a)] = s[j + 1]
        BY <3>1, <1>2
      <3> QED BY <3>2, <3>3, <2>2, <1>4, <1>5
    <2> QED BY <2>1, <2>2, <1>5
  <1>7. Len(t) = Len(s) - 1
    BY <1>1, <1>2, <1>4, <1>5
  <1> QED BY <1>4, <1>6, <1>7, Zenon DEF t

(* Removing the element at one position removes that element only.          *)
LEMMA RemoveAtFacts ==
    ASSUME NEW S, NEW s \in Seq(S), Distinct(s), NEW i \in 1..Len(s)
    PROVE  /\ RemoveAt(s, i) \in Seq(S)
           /\ Len(RemoveAt(s, i)) = Len(s) - 1
           /\ s[i] \in S /\ s[i] \in Range(s)
           /\ Range(RemoveAt(s, i)) = Range(s) \ {s[i]}
           /\ Distinct(RemoveAt(s, i))
  <1> DEFINE t == RemoveAt(s, i)
  <1>1. /\ t \in Seq(S) 
        /\ Len(t) = Len(s) - 1
        /\ \A j \in 1..Len(t) : t[j] = IF j < i THEN s[j] ELSE s[j + 1]
    BY RemoveAtPositions
  <1>2. s[i] \in S /\ s[i] \in Range(s)
    BY DEF Range
  <1>3. Distinct(t)
    BY <1>1 DEF Distinct
  <1>4. Range(t) = Range(s) \ {s[i]}
    <2>1. Range(t) \subseteq Range(s) \ {s[i]}
      BY <1>1 DEF Range, Distinct
    <2>2. ASSUME NEW j \in 1..Len(s), j # i
          PROVE  s[j] \in Range(t)
      <3>1. Range(t) = {t[k] : k \in 1..Len(t)}
        BY <1>1, RangeFacts
      <3>2. CASE j < i
        <4>1. j \in 1..Len(t) /\ t[j] = s[j]
          BY <3>2, <1>1
        <4> HIDE DEF t
        <4> QED BY <3>1, <4>1
      <3>3. CASE j > i
        <4>1. j - 1 \in 1..Len(t) /\ t[j - 1] = s[j]
          BY <3>3, <1>1
        <4> HIDE DEF t
        <4> QED BY <3>1, <4>1
      <3> QED BY <2>2, <3>2, <3>3
    <2>3. Range(s) = {s[j] : j \in 1..Len(s)}
      BY RangeFacts
    <2> HIDE DEF t
    <2> QED BY <2>1, <2>2, <2>3
  <1> QED BY <1>1, <1>2, <1>3, <1>4

-----------------------------------------------------------------------------
(* The lists and the slots.  A slot of the adapter is in the list of its    *)
(* topic, and only there, except while its subscription is on its way to    *)
(* the server; it is in a list at most once, so that the one that is        *)
(* removed is the only one.                                                 *)

ListsOK ==
  /\ list \in [Topic -> Seq(Subscriber)]
  /\ slot \in [Slot -> Topic \cup {NoTopic}]
  /\ peer = [p \in Peer |-> peer[p]]

DistinctOK == \A t \in Topic : Distinct(list[t])

BridgeOK ==
  call["bridge"].at \in InAdapter =>
    /\ call["bridge"].who \in Slot
    /\ call["bridge"].topic \in Topic
    /\ slot[call["bridge"].who] = call["bridge"].topic

OnItsWay(s) == call["bridge"].at = "subscribe" /\ call["bridge"].who = s

SlotOK(s, t) ==
  IF OnItsWay(s) THEN s \notin Members(t) ELSE slot[s] = t <=> s \in Members(t)

SlotsOK == \A s \in Slot, t \in Topic : SlotOK(s, t)

LInv == ListsOK /\ DistinctOK /\ BridgeOK /\ SlotsOK /\ DeletedAreForgotten

\* robusto_pubsub_add_subscriber adds the subscriber if nobody in the list matches.
LEMMA AddedIs ==
    ASSUME NEW t \in Topic, list[t] \in Seq(Subscriber), Distinct(list[t]),
           NEW who \in Subscriber, NEW same, who \in same,
           NEW x, x = Added(t, who, same)
    PROVE  /\ x \in Seq(Subscriber) /\ Distinct(x)
           /\ Range(x) = IF Members(t) \cap same = {} THEN Members(t) \cup {who} ELSE Members(t)
  <1>1. CASE Members(t) \cap same # {}
    BY <1>1 DEF Added, Members
  <1>2. CASE Members(t) \cap same = {}
    <2>1. x = Append(list[t], who) /\ who \notin Members(t)
      BY <1>2 DEF Added
    <2> QED BY <1>2, <2>1, AppendFacts DEF Members
  <1> QED BY <1>1, <1>2

LosesOne(t, same, x) ==
  \E who \in same \cap Members(t) : Range(x) = Members(t) \ {who}

\* robusto_pubsub_server_unsubscribe removes one that matches.
LEMMA RemovedIs ==
    ASSUME NEW t \in Topic, list[t] \in Seq(Subscriber), Distinct(list[t]),
           NEW same, Matching(t, same) # {},
           NEW x, x = RemoveAt(list[t], FirstOf(Matching(t, same)))
    PROVE  /\ x \in Seq(Subscriber) /\ Distinct(x)
           /\ LosesOne(t, same, x)
  <1> DEFINE l == list[t]
             T == Matching(t, same)
             i == FirstOf(T)
  <1>1. T \in SUBSET Nat /\ \A j \in T : j \in 1 .. Len(l) /\ l[j] \in same
    BY DEF Matching
  <1>2. i \in T
    <2> HIDE DEF T
    <2>1. \E n \in T : \A m \in T : n <= m
      BY <1>1, LeastOf DEF T
    <2> QED BY <2>1 DEF FirstOf
  <1> HIDE DEF T, i
  <1>3. i \in 1 .. Len(l) /\ l[i] \in same
    BY <1>1, <1>2
  <1>4. /\ x \in Seq(Subscriber) /\ Distinct(x)
        /\ l[i] \in Members(t) /\ Range(x) = Members(t) \ {l[i]}
    BY <1>3, RemoveAtFacts DEF T, i, Members
  <1> QED BY <1>3, <1>4 DEF LosesOne

-----------------------------------------------------------------------------
(* The walk that unlinks is a recursive function: there is one, and what it *)
(* has kept up to a subscriber holds for the least one it does not hold of. *)

Walked(s, gone, kept, n) ==
  IF n = 0 THEN <<>>
  ELSE IF s[n] \in gone THEN kept[n - 1] ELSE Append(kept[n - 1], s[n])

CanWalk(s, gone, n) == \E kept : kept = [m \in 0 .. n |-> Walked(s, gone, kept, m)]

\* A list can be walked to any of its subscribers.
LEMMA WalkExists ==
    ASSUME NEW s, NEW gone, NEW n \in Nat
    PROVE  CanWalk(s, gone, n)
  <1> DEFINE T == {m \in Nat : ~CanWalk(s, gone, m)}
  <1> SUFFICES ASSUME T # {} PROVE FALSE
    OBVIOUS
  <1>1. PICK m \in T : \A k \in T : m <= k
    <2> HIDE DEF T
    <2>1. T \in SUBSET Nat
      BY DEF T
    <2> QED BY <2>1, LeastOf
  <1>2. m \in Nat /\ ~CanWalk(s, gone, m)
    BY <1>1
  <1>3. CASE m = 0
    <2> DEFINE kept == [k \in 0 .. 0 |-> <<>>]
    <2>1. kept = [k \in 0 .. m |-> Walked(s, gone, kept, k)]
      BY <1>3 DEF Walked
    <2> QED BY <1>2, <2>1 DEF CanWalk
  <1>4. CASE m # 0
    <2>1. m - 1 \in Nat /\ m - 1 \notin T
      BY <1>1, <1>2, <1>4
    <2>2. PICK g : g = [k \in 0 .. m - 1 |-> Walked(s, gone, g, k)]
      BY <2>1 DEF CanWalk
    <2> DEFINE kept == [k \in 0 .. m |-> IF k < m THEN g[k] ELSE Walked(s, gone, g, m)]
    <2>3. \A k \in 0 .. m : kept[k] = Walked(s, gone, kept, k)
      <3> TAKE k \in 0 .. m
      <3>1. CASE k < m
        <4>1. kept[k] = Walked(s, gone, g, k)
          BY <1>2, <2>2, <3>1
        <4>2. k # 0 => kept[k - 1] = g[k - 1]
          BY <1>2, <3>1
        <4> QED BY <4>1, <4>2 DEF Walked
      <3>2. CASE k = m
        BY <1>2, <1>4, <3>2 DEF Walked
      <3> QED BY <3>1, <3>2, <1>2
    <2>4. kept = [k \in 0 .. m |-> Walked(s, gone, kept, k)]
      <3>1. DOMAIN kept = 0 .. m /\ kept = [k \in 0 .. m |-> kept[k]]
        OBVIOUS
      <3> HIDE DEF kept
      <3> QED BY <2>3, <3>1
    <2> QED BY <1>2, <2>4 DEF CanWalk
  <1> QED BY <1>3, <1>4

\* robusto_pubsub_server_unsubscribe_peer_from_all keeps exactly those who are
\* not gone.
LEMMA UnlinkedIs ==
    ASSUME NEW s \in Seq(Subscriber), Distinct(s), NEW gone, NEW x, x = Unlinked(s, gone)
    PROVE  x \in Seq(Subscriber) /\ Distinct(x) /\ Range(x) = Range(s) \ gone
  <1> DEFINE kept == CHOOSE f : f = [m \in 0 .. Len(s) |-> Walked(s, gone, f, m)]
  <1>1. x = kept[Len(s)]
    BY DEF Unlinked, Walked
  <1>2. kept = [m \in 0 .. Len(s) |-> Walked(s, gone, kept, m)]
    BY WalkExists DEF CanWalk
  <1> HIDE DEF kept
  <1> DEFINE Before(n) == {s[j] : j \in 1 .. n}
             Right(n) == /\ kept[n] \in Seq(Subscriber) /\ Distinct(kept[n])
                         /\ Range(kept[n]) = Before(n) \ gone
             T == {n \in 0 .. Len(s) : ~Right(n)}
  <1>3. T = {}
    <2> SUFFICES ASSUME T # {} PROVE FALSE
      OBVIOUS
    <2>1. PICK n \in T : \A m \in T : n <= m
      <3>1. T \in SUBSET Nat
        OBVIOUS
      <3> HIDE DEF T
      <3> QED BY <3>1, LeastOf
    <2>2. n \in 0 .. Len(s) /\ ~Right(n) /\ kept[n] = Walked(s, gone, kept, n)
      BY <1>2, <2>1
    <2>3. CASE n = 0
      <3>1. kept[n] = <<>> /\ Len(kept[n]) = 0
        BY <2>2, <2>3 DEF Walked
      <3>2. kept[n] \in Seq(Subscriber) /\ Distinct(kept[n])
        BY <3>1 DEF Distinct
      <3>3. Range(kept[n]) = {}
        <4>1. Range(kept[n]) = {kept[n][j] : j \in 1 .. Len(kept[n])}
          BY <3>2, RangeFacts
        <4>2. 1 .. Len(kept[n]) = {}
          BY <3>1
        <4> QED BY <4>1, <4>2
      <3>4. Before(n) = {}
        BY <2>3
      <3> QED BY <2>2, <3>2, <3>3, <3>4
    <2>4. CASE n # 0
      <3>1. n - 1 \in 0 .. Len(s) /\ Right(n - 1) /\ n \in 1 .. Len(s) /\ s[n] \in Subscriber
        <4>1. n - 1 \in 0 .. Len(s) /\ ~(n <= n - 1) /\ n \in 1 .. Len(s)
          BY <2>2, <2>4
        <4>2. n - 1 \notin T
          <5> HIDE DEF T
          <5> QED BY <2>1, <4>1
        <4>3. Right(n - 1)
          <5> HIDE DEF Right
          <5> QED BY <4>1, <4>2
        <4> QED BY <4>1, <4>3
      <3>2. Before(n) = Before(n - 1) \cup {s[n]}
        BY <3>1
      <3>3. CASE s[n] \in gone
        BY <2>2, <2>4, <3>1, <3>2, <3>3 DEF Walked
      <3>4. CASE s[n] \notin gone
        <4> DEFINE k == kept[n - 1]
        <4>1. kept[n] = Append(k, s[n])
          BY <2>2, <2>4, <3>4 DEF Walked
        <4>2. k \in Seq(Subscriber) /\ Distinct(k) /\ Range(k) = Before(n - 1) \ gone
          BY <3>1
        <4> HIDE DEF k
        <4>3. kept[n] \in Seq(Subscriber) /\ Range(kept[n]) = Range(k) \cup {s[n]}
          BY <3>1, <4>1, <4>2, AppendFacts
        <4>4. Range(kept[n]) = Before(n) \ gone
          BY <3>2, <3>4, <4>2, <4>3
        <4>5. s[n] \notin Range(k)
          <5>1. s[n] \notin Before(n - 1)
            <6> SUFFICES ASSUME NEW j \in 1 .. n - 1, s[j] = s[n] PROVE FALSE
              OBVIOUS
            <6>1. j \in 1 .. Len(s) /\ j # n
              BY <3>1
            <6> QED BY <3>1, <6>1 DEF Distinct
          <5> QED BY <4>2, <5>1
        <4>6. Distinct(Append(k, s[n]))
          BY <3>1, <4>2, <4>5, AppendFacts
        <4> QED BY <2>2, <4>1, <4>3, <4>4, <4>6
      <3> QED BY <3>3, <3>4
    <2> QED BY <2>3, <2>4
  <1>4. Right(Len(s)) /\ Before(Len(s)) = Range(s)
    <2>1. Len(s) \in 0 .. Len(s)
      OBVIOUS
    <2>2. Range(s) = Before(Len(s))
      BY RangeFacts
    <2> QED BY <1>3, <2>1, <2>2
  <1> QED BY <1>1, <1>4

\* A sequence of which only the last elements are gone is walked along to the end
\* of the others.
LEMMA UnlinkedFront ==
    ASSUME NEW S, NEW s \in Seq(S), NEW gone, NEW last \in 0 .. Len(s),
           \A j \in 1 .. last : s[j] \notin gone,
           \A j \in last + 1 .. Len(s) : s[j] \in gone
    PROVE  Unlinked(s, gone) = SubSeq(s, 1, last)
  <1> DEFINE kept == CHOOSE f : f = [m \in 0 .. Len(s) |-> Walked(s, gone, f, m)]
  <1>1. Unlinked(s, gone) = kept[Len(s)]
    BY DEF Unlinked, Walked
  <1>2. kept = [m \in 0 .. Len(s) |-> Walked(s, gone, kept, m)]
    BY WalkExists DEF CanWalk
  <1> HIDE DEF kept
  <1> DEFINE Right(n) == kept[n] = SubSeq(s, 1, IF n <= last THEN n ELSE last)
             T == {n \in 0 .. Len(s) : ~Right(n)}
  <1>3. T = {}
    <2> SUFFICES ASSUME T # {} PROVE FALSE
      OBVIOUS
    <2>1. PICK n \in T : \A m \in T : n <= m
      <3>1. T \in SUBSET Nat
        OBVIOUS
      <3> HIDE DEF T
      <3> QED BY <3>1, LeastOf
    <2>2. n \in 0 .. Len(s) /\ ~Right(n) /\ kept[n] = Walked(s, gone, kept, n)
      BY <1>2, <2>1
    <2>3. CASE n = 0
      <3>1. kept[n] = <<>>
        BY <2>2, <2>3 DEF Walked
      <3>2. SubSeq(s, 1, 0) = <<>>
        BY SubSeqEmpty
      <3>3. 0 <= last
        OBVIOUS
      <3> QED BY <2>2, <2>3, <3>1, <3>2, <3>3
    <2>4. CASE n # 0
      <3>1. n - 1 \in 0 .. Len(s) /\ n \in 1 .. Len(s) /\ ~(n <= n - 1)
        BY <2>2, <2>4
      <3>2. Right(n - 1)
        <4> HIDE DEF Right
        <4> QED BY <2>1, <3>1
      <3>3. CASE n <= last
        <4>1. kept[n] = Append(kept[n - 1], s[n])
          BY <2>2, <2>4, <3>1, <3>3 DEF Walked
        <4>2. kept[n - 1] = SubSeq(s, 1, n - 1)
          BY <3>1, <3>2, <3>3
        <4>3. Append(SubSeq(s, 1, n - 1), s[n]) = SubSeq(s, 1, n)
          BY <3>1
        <4> QED BY <2>2, <3>3, <4>1, <4>2, <4>3
      <3>4. CASE ~(n <= last)
        <4>1. kept[n] = kept[n - 1]
          BY <2>2, <2>4, <3>1, <3>4 DEF Walked
        <4>2. kept[n - 1] = SubSeq(s, 1, last)
          <5>1. n - 1 <= last => n - 1 = last
            BY <3>1, <3>4
          <5> QED BY <3>2, <5>1
        <4> QED BY <2>2, <3>4, <4>1, <4>2
      <3> QED BY <3>3, <3>4
    <2> QED BY <2>3, <2>4
  <1>4. Right(Len(s))
    <2>1. Len(s) \in 0 .. Len(s)
      OBVIOUS
    <2> QED BY <1>3, <2>1
  <1>5. Len(s) <= last => Len(s) = last
    OBVIOUS
  <1> QED BY <1>1, <1>4, <1>5

-----------------------------------------------------------------------------
(* The steps.                                                               *)

\* Slots, peers and the application are told apart.
LEMMA SubscriberKinds ==
    /\ Peer \cap Slot = {} /\ App \notin Slot /\ App \notin Peer
    /\ Slot \subseteq Subscriber /\ Peer \subseteq Subscriber /\ App \in Subscriber
  BY KindAssumption DEF Subscriber

LEMMA ListsInit == Init => LInv
  <1> SUFFICES ASSUME Init PROVE LInv
    OBVIOUS
  <1>1. \A t \in Topic : list[t] = <<>> /\ Members(t) = {}
    <2> TAKE t \in Topic
    <2>1. list[t] = <<>> /\ list[t] \in Seq(Subscriber) /\ 1 .. Len(list[t]) = {}
      BY DEF Init
    <2>2. Members(t) = {list[t][j] : j \in 1 .. Len(list[t])}
      BY <2>1, RangeFacts DEF Members
    <2> QED BY <2>1, <2>2
  <1>2. call["bridge"].at = "idle"
    BY DEF Init, Idle, Task
  <1>3. ListsOK /\ DistinctOK
    BY <1>1 DEF Init, ListsOK, DistinctOK, Distinct
  <1>4. BridgeOK /\ SlotsOK /\ DeletedAreForgotten
    BY <1>1, <1>2, KindAssumption
       DEF Init, BridgeOK, InAdapter, SlotsOK, SlotOK, OnItsWay, DeletedAreForgotten
  <1> QED BY <1>3, <1>4 DEF LInv

\* The calls of the other tasks, and those of the bridge outside the adapter, say
\* nothing about the slots.
SameBridge ==
  \/ call'["bridge"] = call["bridge"]
  \/ {call["bridge"].at, call'["bridge"].at} \cap InAdapter = {}

\* Steps that leave the lists and the slots alone.
LEMMA CalmLists ==
    ASSUME LInv, UNCHANGED <<list, slot, missed>>, SameBridge,
           UNCHANGED peer \/ \E p \in Peer : PeerPresents(p)
    PROVE  LInv'
  <1>1. ListsOK' /\ DistinctOK'
    BY DEF LInv, ListsOK, DistinctOK, PeerPresents
  <1>2. BridgeOK'
    BY DEF LInv, BridgeOK, SameBridge
  <1>3. SlotsOK'
    BY DEF LInv, SlotsOK, SlotOK, OnItsWay, SameBridge, InAdapter, Members
  <1>4. DeletedAreForgotten'
    BY DEF LInv, ListsOK, DeletedAreForgotten, PeerPresents, Members
  <1> QED BY <1>1, <1>2, <1>3, <1>4 DEF LInv

\* Steps that change a list, but not which slots are in it.
LEMMA SlotsStay ==
    ASSUME LInv, UNCHANGED slot, call'["bridge"] = call["bridge"],
           list' \in [Topic -> Seq(Subscriber)],
           \A t \in Topic : Distinct(list'[t]),
           \A t \in Topic, s \in Slot : s \in Range(list'[t]) <=> s \in Members(t),
           peer' = [p \in Peer |-> peer'[p]],
           DeletedAreForgotten'
    PROVE  LInv'
  <1>1. ListsOK' /\ DistinctOK'
    BY DEF LInv, ListsOK, DistinctOK
  <1>2. BridgeOK'
    BY DEF LInv, BridgeOK
  <1>3. SlotsOK'
    BY DEF LInv, SlotsOK, SlotOK, OnItsWay, Members
  <1> QED BY <1>1, <1>2, <1>3 DEF LInv

\* What is known of one list.
LEMMA ListIs ==
    ASSUME LInv, NEW t \in Topic
    PROVE  list[t] \in Seq(Subscriber) /\ Distinct(list[t]) /\ Members(t) = Range(list[t])
  BY DEF LInv, ListsOK, DistinctOK, Members

\* The bridge takes the mutex of the adapter and gives it back.
LEMMA AdapterLists ==
    ASSUME IInv, LInv,
           \/ \E s \in Slot, t \in Topic : AdapterSubscribe(s, t)
           \/ \E s \in Slot : AdapterUnsubscribe(s)
           \/ AdapterSubscribed
           \/ AdapterUnsubscribed
    PROVE  LInv'
  <1> DEFINE c == call["bridge"]
  <1>0. "bridge" \in Task /\ LocksOK
    BY DEF IInv, Task
  <1>1. ASSUME NEW s \in Slot, NEW t \in Topic, AdapterSubscribe(s, t)
        PROVE  LInv'
    <2>1. /\ c.at = "idle" /\ slot[s] = NoTopic /\ slot' = [slot EXCEPT ![s] = t]
          /\ UNCHANGED <<list, peer, missed>>
      BY <1>1 DEF AdapterSubscribe, Free, Idle
    <2>2. call'["bridge"].at = "subscribe" /\ call'["bridge"].topic = t /\ call'["bridge"].who = s
      <3> DEFINE d == CallOf("subscribe", t, s)
      <3>1. "at" \in DOMAIN d /\ d.at = "subscribe" /\ d.topic = t /\ d.who = s
        BY DEF CallOf, Idle
      <3>2. Enters("bridge", d)
        BY <1>1 DEF AdapterSubscribe
      <3> HIDE DEF d
      <3> QED BY <1>0, <3>1, <3>2, EntersFacts
    <2>3. ListsOK' /\ DistinctOK' /\ BridgeOK' /\ DeletedAreForgotten'
      BY <2>1, <2>2
         DEF LInv, ListsOK, DistinctOK, BridgeOK, DeletedAreForgotten, Members
    <2>4. SlotsOK'
      BY <2>1, <2>2, KindAssumption DEF LInv, ListsOK, SlotsOK, SlotOK, OnItsWay, Members
    <2> QED BY <2>3, <2>4 DEF LInv
  <1>2. ASSUME NEW s \in Slot, AdapterUnsubscribe(s)
        PROVE  LInv'
    <2>1. c.at = "idle" /\ slot[s] # NoTopic /\ UNCHANGED <<list, slot, peer, missed>>
      BY <1>2 DEF AdapterUnsubscribe, Free, Idle
    <2>2. /\ call'["bridge"].at = "unsubscribe" /\ call'["bridge"].topic = slot[s]
          /\ call'["bridge"].who = s
      <3> DEFINE d == CallOf("unsubscribe", slot[s], s)
      <3>1. "at" \in DOMAIN d /\ d.at = "unsubscribe" /\ d.topic = slot[s] /\ d.who = s
        BY DEF CallOf, Idle
      <3>2. Enters("bridge", d)
        BY <1>2 DEF AdapterUnsubscribe
      <3> HIDE DEF d
      <3> QED BY <1>0, <3>1, <3>2, EntersFacts
    <2>3. ListsOK' /\ DistinctOK' /\ BridgeOK' /\ DeletedAreForgotten'
      BY <2>1, <2>2
         DEF LInv, ListsOK, DistinctOK, BridgeOK, DeletedAreForgotten, Members
    <2>4. SlotsOK'
      BY <2>1, <2>2 DEF LInv, SlotsOK, SlotOK, OnItsWay, Members
    <2> QED BY <2>3, <2>4 DEF LInv
  <1>3. CASE AdapterSubscribed
    <2>1. /\ c.at = "subscribe" /\ c.who \in Slot /\ c.topic \in Topic /\ slot[c.who] = c.topic
          /\ UNCHANGED <<peer, missed>>
      BY <1>3 DEF AdapterSubscribed, SubscribeFails, AdapterReturns, Bridge, LInv, BridgeOK, InAdapter
    <2>2. call'["bridge"].at = "idle"
      BY <1>0, <1>3, ReturnsFacts DEF AdapterSubscribed, SubscribeFails, AdapterReturns
    <2>3. \A t \in Topic : c.who \notin Members(t)
      BY <2>1 DEF LInv, SlotsOK, SlotOK, OnItsWay
    <2>4. CASE SubscribeFails
      <3>1. slot' = [slot EXCEPT ![c.who] = NoTopic] /\ UNCHANGED list
        BY <2>4 DEF SubscribeFails
      <3>2. ListsOK' /\ DistinctOK' /\ BridgeOK' /\ DeletedAreForgotten'
        BY <2>1, <2>2, <3>1
           DEF LInv, ListsOK, DistinctOK, BridgeOK, InAdapter, DeletedAreForgotten, Members
      <3>3. SlotsOK'
        BY <2>1, <2>2, <2>3, <3>1, KindAssumption
           DEF LInv, ListsOK, SlotsOK, SlotOK, OnItsWay, Members
      <3> QED BY <3>2, <3>3 DEF LInv
    <2>5. CASE Subscribe(c.topic, c.who, {c.who}) /\ UNCHANGED slot
      <3> DEFINE x == Added(c.topic, c.who, {c.who})
      <3>1. list' = [list EXCEPT ![c.topic] = x]
        BY <2>5 DEF Subscribe
      <3>2. /\ x \in Seq(Subscriber) /\ Distinct(x)
            /\ Range(x) = Members(c.topic) \cup {c.who}
        <4> DEFINE same == {c.who}
        <4>1. /\ list[c.topic] \in Seq(Subscriber) /\ Distinct(list[c.topic])
              /\ c.who \in Subscriber /\ c.who \in same /\ Members(c.topic) \cap same = {}
          BY <2>1, <2>3, ListIs, SubscriberKinds
        <4> HIDE DEF same
        <4>2. x = Added(c.topic, c.who, same)
          BY DEF same
        <4> HIDE DEF x
        <4> QED BY <2>1, <4>1, <4>2, AddedIs
      <3> HIDE DEF x
      <3>3. ListsOK' /\ DistinctOK' /\ BridgeOK'
        <4>1. ListsOK' /\ DistinctOK'
          BY <2>1, <2>5, <3>1, <3>2 DEF LInv, ListsOK, DistinctOK
        <4> QED BY <2>2, <4>1 DEF BridgeOK, InAdapter
      <3>4. \A t \in Topic : Members(t)' = IF t = c.topic THEN Members(t) \cup {c.who} ELSE Members(t)
        BY <2>1, <3>1, <3>2 DEF LInv, ListsOK, Members
      <3>5. SlotsOK'
        BY <2>1, <2>2, <2>3, <2>5, <3>4 DEF LInv, SlotsOK, SlotOK, OnItsWay
      <3>6. DeletedAreForgotten'
        BY <2>1, <3>4, SubscriberKinds DEF LInv, DeletedAreForgotten
      <3> QED BY <3>3, <3>5, <3>6 DEF LInv
    <2> QED BY <1>3, <2>4, <2>5 DEF AdapterSubscribed
  <1>4. CASE AdapterUnsubscribed
    <2>1. /\ c.at = "unsubscribe" /\ c.who \in Slot /\ c.topic \in Topic /\ slot[c.who] = c.topic
          /\ UNCHANGED <<peer, missed>>
      BY <1>4 DEF AdapterUnsubscribed, AdapterReturns, Bridge, LInv, BridgeOK, InAdapter
    <2>2. call'["bridge"].at = "idle"
      BY <1>0, <1>4, ReturnsFacts DEF AdapterUnsubscribed, AdapterReturns
    <2>3. \A t \in Topic : c.who \in Members(t) <=> t = c.topic
      BY <2>1 DEF LInv, SlotsOK, SlotOK, OnItsWay
    <2>4. CASE UNCHANGED <<list, slot>>
      <3>1. ListsOK' /\ DistinctOK' /\ BridgeOK' /\ DeletedAreForgotten'
        BY <2>1, <2>2, <2>4
           DEF LInv, ListsOK, DistinctOK, BridgeOK, InAdapter, DeletedAreForgotten, Members
      <3>2. SlotsOK'
        BY <2>1, <2>2, <2>4 DEF LInv, SlotsOK, SlotOK, OnItsWay, Members
      <3> QED BY <3>1, <3>2 DEF LInv
    <2>5. CASE /\ Unsubscribe(c.topic, {c.who})
               /\ slot' = IF c.who \in Members(c.topic)
                          THEN [slot EXCEPT ![c.who] = NoTopic] ELSE slot
      <3> DEFINE same == {c.who}
                 x == RemoveAt(list[c.topic], FirstOf(Matching(c.topic, same)))
      <3>1. Matching(c.topic, same) # {}
        <4>1. Members(c.topic) = {list[c.topic][j] : j \in 1 .. Len(list[c.topic])}
          BY <2>1, ListIs, RangeFacts
        <4>2. PICK j \in 1 .. Len(list[c.topic]) : list[c.topic][j] = c.who
          BY <2>1, <2>3, <4>1
        <4>3. DOMAIN list[c.topic] = 1 .. Len(list[c.topic])
          BY <2>1, ListIs
        <4> QED BY <4>2, <4>3 DEF Matching
      <3>2. list' = [list EXCEPT ![c.topic] = x] /\ slot' = [slot EXCEPT ![c.who] = NoTopic]
        BY <2>1, <2>3, <2>5, <3>1 DEF Unsubscribe
      <3>3. /\ x \in Seq(Subscriber) /\ Distinct(x)
            /\ Range(x) = Members(c.topic) \ {c.who}
        <4>1. list[c.topic] \in Seq(Subscriber) /\ Distinct(list[c.topic])
          BY <2>1, ListIs
        <4>2. /\ x \in Seq(Subscriber) /\ Distinct(x)
              /\ LosesOne(c.topic, same, x)
          BY <2>1, <3>1, <4>1, RemovedIs
        <4> QED BY <2>1, <2>3, <4>2 DEF LosesOne
      <3> HIDE DEF x
      <3>4. ListsOK' /\ DistinctOK' /\ BridgeOK'
        <4>1. ListsOK' /\ DistinctOK'
          BY <2>1, <3>2, <3>3 DEF LInv, ListsOK, DistinctOK
        <4> QED BY <2>2, <4>1 DEF BridgeOK, InAdapter
      <3>5. \A t \in Topic : Members(t)' = IF t = c.topic THEN Members(t) \ {c.who} ELSE Members(t)
        BY <2>1, <3>2, <3>3 DEF LInv, ListsOK, Members
      <3>6. SlotsOK'
        BY <2>1, <2>2, <2>3, <3>2, <3>5, KindAssumption
           DEF LInv, ListsOK, SlotsOK, SlotOK, OnItsWay
      <3>7. DeletedAreForgotten'
        BY <2>1, <3>5, SubscriberKinds DEF LInv, DeletedAreForgotten
      <3> QED BY <3>4, <3>6, <3>7 DEF LInv
    <2> QED BY <1>4, <2>4, <2>5 DEF AdapterUnsubscribed
  <1> QED BY <1>1, <1>2, <1>3, <1>4

\* Somebody who is not a slot subscribes to one topic.
LEMMA SubscribeLists ==
    ASSUME LInv, UNCHANGED <<slot, call, peer>>, NEW t \in Topic, NEW who \in Peer \cup {App},
           NEW same, who \in same, Subscribe(t, who, same),
           missed \subseteq missed',
           who \in Peer /\ peer[who] = "deleted" => who \in missed'
    PROVE  LInv'
  <1> DEFINE x == Added(t, who, same)
  <1>1. list' = [list EXCEPT ![t] = x]
    BY DEF Subscribe
  <1>2. who \in Subscriber /\ who \notin Slot
    BY SubscriberKinds
  <1>3. /\ x \in Seq(Subscriber) /\ Distinct(x)
        /\ Members(t) \subseteq Range(x) /\ Range(x) \subseteq Members(t) \cup {who}
    BY <1>2, ListIs, AddedIs
  <1> HIDE DEF x
  <1>4. list' \in [Topic -> Seq(Subscriber)] /\ \A u \in Topic : Distinct(list'[u])
    BY <1>1, <1>3 DEF LInv, ListsOK, DistinctOK
  <1>5. \A u \in Topic : list'[u] = IF u = t THEN x ELSE list[u]
    BY <1>1 DEF LInv, ListsOK
  <1>6. \A u \in Topic, s \in Slot : s \in Range(list'[u]) <=> s \in Members(u)
    BY <1>2, <1>3, <1>5 DEF Members
  <1>7. DeletedAreForgotten'
    BY <1>3, <1>5 DEF LInv, DeletedAreForgotten, Members
  <1> QED BY <1>4, <1>6, <1>7, SlotsStay DEF LInv, ListsOK

\* A peer is unsubscribed from one topic.
LEMMA UnsubscribeLists ==
    ASSUME LInv, UNCHANGED <<slot, call, peer, missed>>, NEW t \in Topic,
           NEW same \in SUBSET Peer, Unsubscribe(t, same)
    PROVE  LInv'
  <1>1. CASE Matching(t, same) = {}
    BY <1>1, CalmLists DEF Unsubscribe, SameBridge
  <1>2. CASE Matching(t, same) # {}
    <2> DEFINE x == RemoveAt(list[t], FirstOf(Matching(t, same)))
    <2>1. list' = [list EXCEPT ![t] = x]
      BY <1>2 DEF Unsubscribe
    <2>2. list[t] \in Seq(Subscriber) /\ Distinct(list[t])
      BY ListIs
    <2>3. /\ x \in Seq(Subscriber) /\ Distinct(x)
          /\ Range(x) \subseteq Members(t) /\ Members(t) \ same \subseteq Range(x)
      BY <1>2, <2>2, RemovedIs DEF LosesOne
    <2> HIDE DEF x
    <2>4. list' \in [Topic -> Seq(Subscriber)] /\ \A u \in Topic : Distinct(list'[u])
      BY <2>1, <2>3 DEF LInv, ListsOK, DistinctOK
    <2>5. \A u \in Topic : list'[u] = IF u = t THEN x ELSE list[u]
      BY <2>1 DEF LInv, ListsOK
    <2>6. \A u \in Topic, s \in Slot : s \in Range(list'[u]) <=> s \in Members(u)
      BY <2>3, <2>5, SubscriberKinds DEF Members
    <2>7. DeletedAreForgotten'
      BY <2>3, <2>5 DEF LInv, DeletedAreForgotten, Members
    <2> QED BY <2>4, <2>6, <2>7, SlotsStay DEF LInv, ListsOK
  <1> QED BY <1>1, <1>2

\* A peer structure is deleted: it leaves every list, or is missed.
LEMMA DeleteLists ==
    ASSUME LInv, NEW p \in Peer, DuplicateDeleted(p)
    PROVE  LInv'
  <1>1. /\ UNCHANGED <<slot, call>> /\ peer' = [peer EXCEPT ![p] = "deleted"]
        /\ peer' = [q \in Peer |-> peer'[q]]
    BY DEF DuplicateDeleted, LInv, ListsOK
  <1>2. CASE missed' = missed \cup {p} /\ UNCHANGED list
    <2>1. /\ list' \in [Topic -> Seq(Subscriber)] /\ \A t \in Topic : Distinct(list'[t])
          /\ \A t \in Topic, s \in Slot : s \in Range(list'[t]) <=> s \in Members(t)
      BY <1>2 DEF LInv, ListsOK, DistinctOK, Members
    <2>2. DeletedAreForgotten'
      BY <1>1, <1>2 DEF LInv, ListsOK, DeletedAreForgotten, Members
    <2> QED BY <1>1, <2>1, <2>2, SlotsStay
  <1>3. ASSUME NEW stale \in SUBSET Peer, Forget(Same(p, stale)), UNCHANGED missed
        PROVE  LInv'
    <2> DEFINE gone == Same(p, stale)
    <2>1. gone \subseteq Peer /\ p \in gone
      BY DEF Same
    <2>2. list' = [t \in Topic |-> Unlinked(list[t], gone)]
      BY <1>3 DEF Forget
    <2> HIDE DEF gone
    <2>3. \A t \in Topic : /\ list'[t] \in Seq(Subscriber) /\ Distinct(list'[t])
                            /\ Range(list'[t]) = Members(t) \ gone
      BY <2>2, ListIs, UnlinkedIs
    <2>4. list' \in [Topic -> Seq(Subscriber)]
      BY <2>2, <2>3
    <2>5. \A t \in Topic, s \in Slot : s \in Range(list'[t]) <=> s \in Members(t)
      BY <2>1, <2>3, SubscriberKinds
    <2>6. DeletedAreForgotten'
      BY <1>1, <1>3, <2>1, <2>3 DEF LInv, ListsOK, DeletedAreForgotten, Members
    <2> QED BY <1>1, <2>3, <2>4, <2>5, <2>6, SlotsStay
  <1> QED BY <1>2, <1>3 DEF DuplicateDeleted

CallsServer(k, t) ==
  \/ k = "bridge" /\ BridgePublishes(t)
  \/ k = "incoming" /\ PeerPublishes(t)
  \/ k = "application" /\ ApplicationPublishes(t)

\* The calls of the tasks say nothing about the slots, those of the bridge in the
\* adapter excepted.
LEMMA CallsStay ==
    ASSUME IInv, NEW k \in Task,
           \/ PublishSteps(k) \/ HandToSlot(k)
           \/ k = "bridge" /\ CreateTopic
           \/ \E t \in Topic : CallsServer(k, t)
    PROVE  SameBridge
  <1>0. LocksOK /\ "bridge" \in Task /\ "at" \in DOMAIN call[k]
    BY DEF IInv, LocksOK, Task
  <1> DEFINE Passes(c) == Enters(k, c) /\ "at" \in DOMAIN c /\ c.at \notin InAdapter
  <1>1. ASSUME NEW c, Passes(c), call[k].at \notin InAdapter
        PROVE  SameBridge
    BY <1>0, <1>1, EntersFacts DEF SameBridge
  <1>2. ASSUME Returns(k), call[k].at \notin InAdapter
        PROVE  SameBridge
    <2>1. Passes(Idle)
      BY <1>2 DEF Returns, Enters, Idle, InAdapter
    <2> QED BY <1>1, <1>2, <2>1
  <1>3. ASSUME NEW got, NEW fails, Handed(k, got, fails), call[k].at \in Holds
        PROVE  SameBridge
    <2> DEFINE c == [call[k] EXCEPT !.at = "walk", !.next = @ + 1, !.failed = @ \/ fails]
    <2>1. "at" \in DOMAIN c /\ c.at = "walk"
      BY <1>0
    <2>2. Enters(k, c)
      BY <1>3 DEF Handed
    <2> HIDE DEF c
    <2> QED BY <1>1, <1>3, <2>1, <2>2 DEF Holds, InAdapter
  <1>4. ASSUME NEW place \in {"create", "publish"}, NEW t \in Topic, Publishes(k, place, t)
        PROVE  SameBridge
    <2> DEFINE c == [CallOf(place, t, Nobody) EXCEPT !.message = NextMessage]
    <2>1. "at" \in DOMAIN c /\ c.at = place
      BY DEF CallOf, Idle
    <2>2. Enters(k, c) /\ call[k].at = "idle"
      BY <1>4 DEF Publishes, Free, Idle
    <2> HIDE DEF c
    <2> QED BY <1>1, <2>1, <2>2 DEF InAdapter
  <1>5. CASE BeginPublish(k)
    <2> DEFINE c == [call[k] EXCEPT !.at = "walk", !.next = 1]
    <2>1. "at" \in DOMAIN c /\ c.at = "walk"
      BY <1>0
    <2>2. Enters(k, c) /\ call[k].at = "publish"
      BY <1>5 DEF BeginPublish
    <2> HIDE DEF c
    <2> QED BY <1>1, <2>1, <2>2 DEF InAdapter
  <1>6. CASE HandToEcho(k)
    <2> DEFINE c == [call[k] EXCEPT !.at = "nested"]
    <2>1. "at" \in DOMAIN c /\ c.at = "nested"
      BY <1>0
    <2>2. Enters(k, c) /\ call[k].at = "walk"
      BY <1>6 DEF HandToEcho, Walks
    <2> HIDE DEF c
    <2> QED BY <1>1, <2>1, <2>2 DEF InAdapter
  <1>7. CASE PublishRefused(k) \/ EndPublish(k)
    BY <1>2, <1>7 DEF PublishRefused, Refused, EndPublish, Walks, InAdapter
  <1>8. CASE HandToPeer(k) \/ HandToSlot(k) \/ HandToApp(k) \/ NestedTimesOut(k)
    BY <1>3, <1>8 DEF HandToPeer, HandToSlot, HandToApp, NestedTimesOut, Walks, Holds
  <1>9. CASE k = "bridge" /\ CreateTopic
    <2> DEFINE c == [call["bridge"] EXCEPT !.at = "publish"]
    <2>1. "at" \in DOMAIN c /\ c.at = "publish"
      BY <1>0, <1>9
    <2>2. call["bridge"].at = "create" /\ (Enters("bridge", c) \/ Returns("bridge"))
      BY <1>9 DEF CreateTopic, Refused
    <2> HIDE DEF c
    <2> QED BY <1>1, <1>2, <1>9, <2>1, <2>2 DEF InAdapter
  <1>10. CASE \E t \in Topic : CallsServer(k, t)
    BY <1>4, <1>10 DEF CallsServer, BridgePublishes, PeerPublishes, ApplicationPublishes
  <1>11. CASE PublishSteps(k) \/ HandToSlot(k)
    BY <1>5, <1>6, <1>7, <1>8, <1>11 DEF PublishSteps
  <1> QED BY <1>9, <1>10, <1>11

LEMMA ListsNext == IInv /\ LInv /\ [Next]_vars => LInv'
  <1> SUFFICES ASSUME IInv, LInv, [Next]_vars PROVE LInv'
    OBVIOUS
  <1>0. Task = {"bridge", "incoming", "application"}
    BY DEF Task
  <1>1. CASE \/ \E s \in Slot, t \in Topic : AdapterSubscribe(s, t)
             \/ \E s \in Slot : AdapterUnsubscribe(s)
             \/ AdapterSubscribed \/ AdapterUnsubscribed
    BY <1>1, AdapterLists
  <1>2. CASE CreateTopic
    <2>1. UNCHANGED <<list, slot, missed, peer>>
      BY <1>2 DEF CreateTopic, Refused
    <2> QED BY <1>0, <1>2, <2>1, CallsStay, CalmLists
  <1>3. ASSUME NEW t \in Topic, BridgePublishes(t) \/ ApplicationPublishes(t) \/ PeerPublishes(t)
        PROVE  LInv'
    <2>1. UNCHANGED <<list, slot, missed, peer>>
      BY <1>3 DEF BridgePublishes, ApplicationPublishes, PeerPublishes
    <2>2. SameBridge
      BY <1>0, <1>3, CallsStay DEF CallsServer
    <2> QED BY <2>1, <2>2, CalmLists
  <1>4. ASSUME NEW k \in Task, PublishSteps(k) \/ HandToSlot(k)
        PROVE  LInv'
    <2>1. UNCHANGED <<list, slot, missed, peer>>
      BY <1>4 DEF PublishSteps, BeginPublish, PublishRefused, Refused, HandToPeer, HandToApp,
                  HandToEcho, NestedTimesOut, EndPublish, HandToSlot, Handed
    <2> QED BY <1>4, <2>1, CallsStay, CalmLists
  <1>5. ASSUME NEW t \in Topic, PeerGetsTopic(t)
        PROVE  LInv'
    BY <1>5, CalmLists DEF PeerGetsTopic, SameBridge
  <1>6. ASSUME NEW t \in Topic, ApplicationSubscribes(t)
        PROVE  LInv'
    BY <1>6, SubscribeLists, SubscriberKinds, App \in {App} DEF ApplicationSubscribes
  <1>7. ASSUME NEW p \in Peer, PeerPresents(p)
        PROVE  LInv'
    <2>1. UNCHANGED <<list, slot, missed, call>>
      BY <1>7 DEF PeerPresents
    <2> QED BY <1>7, <2>1, CalmLists DEF SameBridge
  <1>8. ASSUME NEW p \in Peer, NEW t \in Topic, PeerSubscribes(p, t)
        PROVE  LInv'
    <2>1. UNCHANGED <<slot, call, peer>> /\ Late(p)
      BY <1>8 DEF PeerSubscribes
    <2>2. missed \subseteq missed' /\ (peer[p] = "deleted" => p \in missed')
      BY <2>1 DEF Late
    <2>3. CASE UNCHANGED list
      <3>1. DeletedAreForgotten'
        BY <2>1, <2>2, <2>3 DEF LInv, DeletedAreForgotten, Members
      <3> QED BY <2>1, <2>3, <3>1, SlotsStay DEF LInv, ListsOK, DistinctOK, Members
    <2>4. ASSUME NEW stale \in SUBSET Peer, Subscribe(t, p, Same(p, stale))
          PROVE  LInv'
      <3>1. p \in Same(p, stale)
        BY DEF Same
      <3> QED BY <2>1, <2>2, <2>4, <3>1, SubscribeLists
    <2> QED BY <1>8, <2>3, <2>4 DEF PeerSubscribes
  <1>9. ASSUME NEW p \in Peer, NEW t \in Topic, PeerUnsubscribes(p, t)
        PROVE  LInv'
    <2>1. UNCHANGED <<slot, call, peer, missed>>
      BY <1>9 DEF PeerUnsubscribes
    <2>2. CASE UNCHANGED list
      BY <2>1, <2>2, CalmLists DEF SameBridge
    <2>3. ASSUME NEW stale \in SUBSET Peer, Unsubscribe(t, Same(p, stale))
          PROVE  LInv'
      <3>1. Same(p, stale) \in SUBSET Peer
        BY DEF Same
      <3> QED BY <2>1, <2>3, <3>1, UnsubscribeLists
    <2> QED BY <1>9, <2>2, <2>3 DEF PeerUnsubscribes
  <1>10. ASSUME NEW p \in Peer, DuplicateDeleted(p)
         PROVE  LInv'
    BY <1>10, DeleteLists
  <1>11. CASE UNCHANGED vars
    BY <1>11, CalmLists DEF vars, SameBridge
  <1> QED BY <1>1, <1>2, <1>3, <1>4, <1>5, <1>6, <1>7, <1>8, <1>9, <1>10, <1>11
          DEF Next, BridgeSteps, WorkerSteps

\* The slots of the adapter and the lists of the server agree whenever nobody is
\* in the adapter, for any number of topics, slots, peers and messages.
THEOREM SlotsAgreeWithLists == Spec => []SlotsAgree
  <1>1. IInv /\ LInv => SlotsAgree
    BY DEF IInv, MutexesGivenBack, LInv, SlotsOK, SlotOK, OnItsWay, SlotsAgree
  <1> QED BY <1>1, InitOK, StepOK, ListsInit, ListsNext, PTL DEF Spec

\* A deleted peer stays in a list only if its deletion could not remove it or it
\* was heard again after that, for any number of topics, slots and peers.
THEOREM DeletedPeersForgotten == Spec => []DeletedAreForgotten
  <1>1. LInv => DeletedAreForgotten
    BY DEF LInv
  <1> QED BY <1>1, InitOK, StepOK, ListsInit, ListsNext, PTL DEF Spec

-----------------------------------------------------------------------------
(* The refinement.  What a publish has done so far is seen in what the       *)
(* subscribers have received: its message is the last one of some of those   *)
(* that the walk has passed, and of no other subscriber.                     *)

PublishPlaces == {"create", "publish", "walk", "nested"}

CallsTyped ==
  /\ call \in [Task -> Call]
  /\ received \in [Subscriber -> Seq(Message)]
  /\ result \in [Message -> {"none", "ok", "some_fail", "refused"}]

\* The message of a call is its own and has no result yet.
MessageOK(k) ==
  IF call[k].at \in PublishPlaces
  THEN /\ call[k].topic \in Topic
       /\ call[k].message \in Message
       /\ result[call[k].message] = "none"
  ELSE call[k].message = 0

MessagesOK ==
  /\ \A k \in Task : MessageOK(k)
  /\ \A j, k \in Task : call[j].message = call[k].message => j = k \/ call[k].message = 0

HasNot(s, m) == m \notin Range(received[s])

GotLast(s, m) ==
  /\ Len(received[s]) > 0
  /\ received[s][Len(received[s])] = m
  /\ \A j \in 1 .. Len(received[s]) - 1 : received[s][j] # m

\* A message that is not handed out yet is with nobody.
NotOutYet ==
  \A m \in Message : result[m] = "none" /\ m \notin Walking =>
    \A s \in Subscriber : HasNot(s, m)

Passed(k) == {list[call[k].topic][i] : i \in 1 .. call[k].next - 1}

\* How far the walk of a publish has come.
WalkIs(k) ==
  call[k].at \in Holds =>
    /\ call[k].next \in 1 .. Len(list[call[k].topic]) + 1
    /\ \A s \in Subscriber : \/ HasNot(s, call[k].message)
                             \/ s \in Passed(k) /\ GotLast(s, call[k].message)
    /\ ~call[k].failed =>
         \A s \in Passed(k) : s \in Slot \/ GotLast(s, call[k].message)
    /\ call[k].at = "nested" => Left(k) /\ Current(k) = App

WalksOK == \A k \in Task : WalkIs(k)

BInv == CallsTyped /\ MessagesOK /\ NotOutYet /\ WalksOK

(* Calls as records.                                                        *)

\* A task that is in no call.
LEMMA IdleCall == Idle \in Call /\ Idle.at = "idle" /\ Idle.message = 0
  BY BoundAssumption DEF Idle, Call

\* A call that begins.
LEMMA BegunCall ==
    ASSUME NEW place \in {"subscribe", "unsubscribe", "create", "publish"}, NEW t \in Topic,
           NEW who \in Subscriber \cup {Nobody}, NEW c, c = CallOf(place, t, who)
    PROVE  c \in Call /\ c.at = place /\ c.topic = t /\ c.message = 0
  <1>1. PICK idle \in Call : idle = Idle /\ idle.message = 0
    BY IdleCall
  <1>2. c = [idle EXCEPT !.at = place, !.topic = t, !.who = who]
    BY <1>1 DEF CallOf
  <1> QED BY <1>1, <1>2 DEF Call

\* A call of the adapter.
LEMMA AdapterCall ==
    ASSUME NEW place \in InAdapter, NEW t \in Topic, NEW s \in Slot,
           NEW c, c = CallOf(place, t, s)
    PROVE  c \in Call /\ c.at = place /\ c.message = 0
  BY BegunCall DEF Subscriber, InAdapter

\* A call that publishes, at its beginning.
LEMMA PublishCall ==
    ASSUME NEW place \in {"create", "publish"}, NEW t \in Topic, NEW m \in Message
    PROVE  \E c \in Call : /\ c = [CallOf(place, t, Nobody) EXCEPT !.message = m]
                           /\ c.at = place /\ c.topic = t /\ c.message = m
  <1>1. PICK d \in Call : d = CallOf(place, t, Nobody) /\ d.at = place /\ d.topic = t
    BY BegunCall
  <1> DEFINE c == [d EXCEPT !.message = m]
  <1>2. m \in 0 .. MaxMessages
    BY BoundAssumption DEF Message
  <1>3. c \in Call /\ c.at = place /\ c.topic = t /\ c.message = m
    BY <1>1, <1>2 DEF Call
  <1>4. c = [CallOf(place, t, Nobody) EXCEPT !.message = m]
    BY <1>1
  <1> HIDE DEF c
  <1> QED BY <1>3, <1>4

\* The same call at another place of the code.
LEMMA MovedCall ==
    ASSUME NEW c \in Call, NEW place \in PublishPlaces
    PROVE  \E d \in Call : /\ d = [c EXCEPT !.at = place]
                           /\ d.at = place /\ d.topic = c.topic /\ d.message = c.message
                           /\ d.next = c.next /\ d.failed = c.failed
  <1> DEFINE d == [c EXCEPT !.at = place]
  <1>1. /\ d \in Call /\ d.at = place /\ d.topic = c.topic /\ d.message = c.message
        /\ d.next = c.next /\ d.failed = c.failed
    BY DEF Call, PublishPlaces
  <1>2. d = [c EXCEPT !.at = place]
    OBVIOUS
  <1> HIDE DEF d
  <1> QED BY <1>1, <1>2

\* The same call where the walk begins.
LEMMA WalkCall ==
    ASSUME NEW c \in Call
    PROVE  \E d \in Call : /\ d = [c EXCEPT !.at = "walk", !.next = 1]
                           /\ d.at = "walk" /\ d.topic = c.topic /\ d.message = c.message
                           /\ d.next = 1
  <1> DEFINE d == [c EXCEPT !.at = "walk", !.next = 1]
  <1>1. /\ d \in Call /\ d.at = "walk" /\ d.topic = c.topic /\ d.message = c.message
        /\ d.next = 1
    BY DEF Call
  <1>2. d = [c EXCEPT !.at = "walk", !.next = 1]
    OBVIOUS
  <1> HIDE DEF d
  <1> QED BY <1>1, <1>2

\* The same call one subscriber further, whatever the types of its other fields.
LEMMA HandedRecord ==
    ASSUME NEW A, NEW T, NEW W, NEW M, NEW F, NEW failed \in F, "walk" \in A, NEW n \in Nat,
           NEW c \in [at : A, topic : T, who : W, message : M, next : Nat, failed : F],
           NEW d, d = [c EXCEPT !.at = "walk", !.next = n, !.failed = failed]
    PROVE  /\ d \in [at : A, topic : T, who : W, message : M, next : Nat, failed : F]
           /\ d.at = "walk" /\ d.topic = c.topic /\ d.message = c.message
           /\ d.next = n /\ d.failed = failed
  OBVIOUS

\* The same call one subscriber further.
LEMMA HandedCall ==
    ASSUME NEW c \in Call, NEW failed \in BOOLEAN
    PROVE  \E d \in Call :
              /\ d = [c EXCEPT !.at = "walk", !.next = @ + 1, !.failed = failed]
              /\ d.at = "walk" /\ d.topic = c.topic /\ d.message = c.message
              /\ d.next = c.next + 1 /\ d.failed = failed
  <1> DEFINE A == {"idle", "subscribe", "unsubscribe", "create", "publish", "walk", "nested"}
             T == Topic \cup {NoTopic}
             W == Subscriber \cup {Nobody}
             M == 0 .. MaxMessages
             F == BOOLEAN
             d == [c EXCEPT !.at = "walk", !.next = @ + 1, !.failed = failed]
  <1>1. Call = [at : A, topic : T, who : W, message : M, next : Nat, failed : F]
    BY DEF Call
  <1>2. failed \in F /\ "walk" \in A
    OBVIOUS
  <1>3. PICK n \in Nat : n = c.next + 1
    BY DEF Call
  <1>4. d = [c EXCEPT !.at = "walk", !.next = n, !.failed = failed]
    BY <1>3
  <1>5. d = [c EXCEPT !.at = "walk", !.next = @ + 1, !.failed = failed]
    OBVIOUS
  <1> HIDE DEF A, T, W, M, F, d
  <1>6. /\ d \in Call /\ d.at = "walk" /\ d.topic = c.topic /\ d.message = c.message
        /\ d.next = n /\ d.failed = failed
    BY <1>1, <1>2, <1>3, <1>4, HandedRecord, Zenon
  <1> QED BY <1>3, <1>5, <1>6, Zenon

\* A task that enters a call or returns from it leaves the other calls alone.
LEMMA CallsChange ==
    ASSUME CallsTyped, NEW k \in Task, NEW c \in Call, Enters(k, c)
    PROVE  /\ call' \in [Task -> Call] /\ call'[k] = c
           /\ \A j \in Task \ {k} : call'[j] = call[j]
  BY DEF CallsTyped, Enters

-----------------------------------------------------------------------------
\* The message under way is that of the task that has the mutex.
LEMMA WalkingIs ==
    ASSUME IInv
    PROVE  /\ server = Nobody => Walking = {}
           /\ \A k \in Task : server = k => Walking = {call[k].message}
  <1>1. \A k \in Task : server = k <=> call[k].at \in Holds
    BY DEF IInv, MutexesGivenBack, Holds
  <1>2. Walking = {call[k].message : k \in {j \in Task : call[j].at \in Holds}}
    BY DEF Walking, Holds
  <1>3. Nobody \notin Task
    BY DEF Nobody, Task
  <1> QED BY <1>1, <1>2, <1>3

\* The messages that are under way depend only on the tasks that hold the mutex.
LEMMA WalkingStays ==
    ASSUME IInv, IInv', NEW k \in Task, \A j \in Task \ {k} : call'[j] = call[j],
           call[k].at \notin Holds, call'[k].at \notin Holds
    PROVE  Walking' = Walking
  <1>1. Walking = {call[j].message : j \in {i \in Task : call[i].at \in Holds}}
    BY DEF Walking, Holds
  <1>2. Walking' = {call'[j].message : j \in {i \in Task : call'[i].at \in Holds}}
    BY DEF Walking, Holds
  <1> QED BY <1>1, <1>2

LEMMA BoardInit == Init => BInv
  <1> SUFFICES ASSUME Init PROVE BInv
    OBVIOUS
  <1>1. \A k \in Task : call[k] = Idle
    BY DEF Init
  <1>2. CallsTyped
    BY IdleCall DEF Init, CallsTyped
  <1>3. MessagesOK /\ WalksOK
    BY <1>1, IdleCall DEF MessagesOK, MessageOK, PublishPlaces, WalksOK, WalkIs, Holds
  <1>4. \A s \in Subscriber : Range(received[s]) = {}
    <2> TAKE s \in Subscriber
    <2>1. received[s] = <<>> /\ received[s] \in Seq(Message) /\ 1 .. Len(received[s]) = {}
      BY DEF Init
    <2>2. Range(received[s]) = {received[s][j] : j \in 1 .. Len(received[s])}
      BY <2>1, RangeFacts
    <2> QED BY <2>1, <2>2
  <1>5. NotOutYet
    BY <1>4 DEF NotOutYet, HasNot
  <1> QED BY <1>2, <1>3, <1>5 DEF BInv

\* What a step keeps in which one task moves outside of the walk, and in which the
\* lists change only if nobody walks.
LEMMA OutsideBoard ==
    ASSUME IInv, IInv', BInv, NEW k \in Task, CallsTyped', UNCHANGED <<received, result>>,
           \A j \in Task \ {k} : call'[j] = call[j],
           call[k].at \notin Holds, call'[k].at \notin Holds, MessageOK(k)',
           \A j \in Task \ {k} :
             call[j].message = call'[k].message => call'[k].message = 0,
           UNCHANGED list \/ server = Nobody
    PROVE  BInv' /\ Walking' = Walking
  <1>1. Walking' = Walking
    BY WalkingStays
  <1>2. MessagesOK'
    <2>1. \A j \in Task : MessageOK(j)'
      BY DEF BInv, MessagesOK, MessageOK
    <2>2. ASSUME NEW i \in Task, NEW j \in Task, call'[i].message = call'[j].message
          PROVE  i = j \/ call'[j].message = 0
      <3>1. CASE i = k
        BY <2>2, <3>1
      <3>2. CASE j = k
        BY <2>2, <3>2
      <3>3. CASE i # k /\ j # k
        BY <2>2, <3>3 DEF BInv, MessagesOK
      <3> QED BY <3>1, <3>2, <3>3
    <2> QED BY <2>1, <2>2 DEF MessagesOK
  <1>3. NotOutYet'
    BY <1>1 DEF BInv, NotOutYet, HasNot
  <1>4. ASSUME NEW j \in Task PROVE WalkIs(j)'
    <2>1. CASE j = k
      BY <2>1 DEF WalkIs
    <2>2. CASE j # k
      <3>1. call'[j] = call[j] /\ WalkIs(j)
        BY <2>2 DEF BInv, WalksOK
      <3>2. CASE call[j].at \notin Holds
        BY <3>1, <3>2 DEF WalkIs
      <3>3. CASE call[j].at \in Holds
        <4>1. server = j /\ j # Nobody
          BY <3>3 DEF IInv, MutexesGivenBack, Holds, Task, Nobody
        <4>2. UNCHANGED list
          BY <4>1
        <4> QED BY <3>1, <4>2 DEF WalkIs, Passed, HasNot, GotLast, Left, Current
      <3> QED BY <3>2, <3>3
    <2> QED BY <2>1, <2>2
  <1> QED BY <1>1, <1>2, <1>3, <1>4 DEF BInv, WalksOK

-----------------------------------------------------------------------------
(* What the lists do is a step of the board.                                *)

Joins(t, s) == MemberSets' = [MemberSets EXCEPT ![t] = MemberSets[t] \cup {s}]
Parts(t, s) == MemberSets' = [MemberSets EXCEPT ![t] = MemberSets[t] \ {s}]
Clears(gone) == MemberSets' = [t \in Topic |-> MemberSets[t] \ gone]

ListsMove ==
  \/ UNCHANGED MemberSets
  \/ \E t \in Topic, s \in Subscriber : Joins(t, s) \/ Parts(t, s)
  \/ \E gone \in SUBSET Subscriber : Clears(gone)

\* The lists change only while nobody walks along one.
ListStep == UNCHANGED list \/ (server = Nobody /\ ListsMove)

BoardStep == [Board!Next]_(Board!bvars)

LEMMA JoinMoves ==
    ASSUME LInv, NEW t \in Topic, NEW who \in Subscriber, NEW same, who \in same,
           Subscribe(t, who, same)
    PROVE  ListStep
  <1> DEFINE x == Added(t, who, same)
  <1>1. list' = [list EXCEPT ![t] = x] /\ server = Nobody
    BY DEF Subscribe, Locks
  <1>2. Range(x) = IF Members(t) \cap same = {} THEN Members(t) \cup {who} ELSE Members(t)
    BY ListIs, AddedIs
  <1> HIDE DEF x
  <1>3. \A u \in Topic : Members(u)' = IF u = t THEN Range(x) ELSE Members(u)
    BY <1>1 DEF LInv, ListsOK, Members
  <1>4. CASE Members(t) \cap same = {}
    <2>1. Joins(t, who)
      BY <1>2, <1>3, <1>4 DEF Joins, MemberSets
    <2> QED BY <1>1, <2>1 DEF ListStep, ListsMove
  <1>5. CASE Members(t) \cap same # {}
    <2>1. UNCHANGED MemberSets
      BY <1>2, <1>3, <1>5 DEF MemberSets
    <2> QED BY <1>1, <2>1 DEF ListStep, ListsMove
  <1> QED BY <1>4, <1>5

LEMMA LeaveMoves ==
    ASSUME LInv, NEW t \in Topic, NEW same \in SUBSET Subscriber, Unsubscribe(t, same)
    PROVE  ListStep
  <1>1. CASE Matching(t, same) = {}
    BY <1>1 DEF Unsubscribe, ListStep
  <1>2. CASE Matching(t, same) # {}
    <2> DEFINE x == RemoveAt(list[t], FirstOf(Matching(t, same)))
    <2>1. list' = [list EXCEPT ![t] = x] /\ server = Nobody
      BY <1>2 DEF Unsubscribe, Locks
    <2>2. LosesOne(t, same, x)
      <3>1. list[t] \in Seq(Subscriber) /\ Distinct(list[t])
        BY ListIs
      <3> QED BY <1>2, <3>1, RemovedIs
    <2> HIDE DEF x
    <2>3. PICK who \in Subscriber : Range(x) = Members(t) \ {who}
      BY <2>2 DEF LosesOne
    <2>4. \A u \in Topic : Members(u)' = IF u = t THEN Range(x) ELSE Members(u)
      BY <2>1 DEF LInv, ListsOK, Members
    <2>5. Parts(t, who)
      BY <2>3, <2>4 DEF Parts, MemberSets
    <2> QED BY <2>1, <2>5 DEF ListStep, ListsMove
  <1> QED BY <1>1, <1>2

LEMMA ForgetMoves ==
    ASSUME LInv, NEW gone \in SUBSET Subscriber, server = Nobody, Forget(gone)
    PROVE  ListStep
  <1>1. list' = [t \in Topic |-> Unlinked(list[t], gone)]
    BY DEF Forget
  <1>2. \A t \in Topic : Members(t)' = Members(t) \ gone
    BY <1>1, ListIs, UnlinkedIs DEF Members
  <1>3. Clears(gone)
    BY <1>2 DEF Clears, MemberSets
  <1> QED BY <1>3 DEF ListStep, ListsMove

\* A step that hands out nothing and ends no publish.
LEMMA QuietBoard ==
    ASSUME UNCHANGED <<received, result, Walking>>, ListStep
    PROVE  BoardStep
  <1>1. UNCHANGED Delivered
    BY DEF Delivered
  <1>2. ListsMove
    BY DEF ListStep, ListsMove, MemberSets, Members
  <1>3. CASE UNCHANGED MemberSets
    BY <1>1, <1>3 DEF BoardStep, Board!bvars
  <1>4. ASSUME NEW t \in Topic, NEW s \in Subscriber, Joins(t, s) \/ Parts(t, s)
        PROVE  BoardStep
    <2>1. Board!Change(t, MemberSets[t] \cup {s}) \/ Board!Change(t, MemberSets[t] \ {s})
      BY <1>1, <1>4 DEF Board!Change, Joins, Parts
    <2> QED BY <2>1 DEF BoardStep, Board!Next
  <1>5. ASSUME NEW gone \in SUBSET Subscriber, Clears(gone)
        PROVE  BoardStep
    <2>1. Board!Leave(gone)
      BY <1>1, <1>5 DEF Board!Leave, Clears
    <2> QED BY <2>1 DEF BoardStep, Board!Next
  <1> QED BY <1>2, <1>3, <1>4, <1>5 DEF ListsMove

\* The task k goes to call c, outside of the walk.
LEMMA OutsideStep ==
    ASSUME IInv, IInv', BInv, NEW k \in Task, NEW c \in Call, Enters(k, c),
           UNCHANGED <<received, result>>, ListStep,
           call[k].at \notin Holds, c.at \notin Holds,
           IF c.at \in PublishPlaces
           THEN c.topic \in Topic /\ c.message \in Message /\ result[c.message] = "none"
           ELSE c.message = 0,
           \A j \in Task \ {k} : call[j].message = c.message => c.message = 0
    PROVE  BInv' /\ BoardStep
  <1>1. /\ call' \in [Task -> Call] /\ call'[k] = c
        /\ \A j \in Task \ {k} : call'[j] = call[j]
    BY CallsChange DEF BInv
  <1>2. CallsTyped'
    BY <1>1 DEF BInv, CallsTyped
  <1>3. MessageOK(k)'
    BY <1>1 DEF MessageOK
  <1>4. UNCHANGED list \/ server = Nobody
    BY DEF ListStep
  <1>5. BInv' /\ Walking' = Walking
    BY <1>1, <1>2, <1>3, <1>4, OutsideBoard
  <1> QED BY <1>5, QuietBoard

\* No task goes anywhere.
LEMMA StillStep ==
    ASSUME IInv, BInv, UNCHANGED <<call, received, result>>, ListStep
    PROVE  BInv' /\ BoardStep
  <1>1. Walking' = Walking
    BY DEF Walking
  <1>2. CallsTyped' /\ MessagesOK' /\ NotOutYet'
    BY <1>1 DEF BInv, CallsTyped, MessagesOK, MessageOK, NotOutYet, HasNot
  <1>3. ASSUME NEW j \in Task PROVE WalkIs(j)'
    <2>1. CASE call[j].at \notin Holds
      BY <2>1 DEF WalkIs
    <2>2. CASE call[j].at \in Holds
      <3>1. server = j /\ j # Nobody /\ WalkIs(j)
        BY <2>2 DEF IInv, MutexesGivenBack, Holds, Task, Nobody, BInv, WalksOK
      <3>2. UNCHANGED list
        BY <3>1 DEF ListStep
      <3> QED BY <3>1, <3>2 DEF WalkIs, Passed, HasNot, GotLast, Left, Current
    <2> QED BY <2>1, <2>2
  <1> QED BY <1>1, <1>2, <1>3, QuietBoard DEF BInv, WalksOK

-----------------------------------------------------------------------------
(* The steps outside of a walk.                                             *)

\* The adapter calls the server and gets an answer.
LEMMA AdapterBoard ==
    ASSUME IInv, IInv', LInv, BInv,
           \/ \E s \in Slot, t \in Topic : AdapterSubscribe(s, t)
           \/ \E s \in Slot : AdapterUnsubscribe(s)
           \/ AdapterSubscribed
           \/ AdapterUnsubscribed
    PROVE  BInv' /\ BoardStep
  <1> DEFINE c == call["bridge"]
  <1>0. "bridge" \in Task
    BY DEF Task
  <1>1. ASSUME NEW s \in Slot, NEW t \in Topic, AdapterSubscribe(s, t)
        PROVE  BInv' /\ BoardStep
    <2>1. PICK d \in Call : /\ d = CallOf("subscribe", t, s)
                            /\ d.at = "subscribe" /\ d.message = 0
      BY AdapterCall DEF InAdapter
    <2>2. Enters("bridge", d) /\ c = Idle /\ UNCHANGED <<received, result, list>>
      BY <1>1, <2>1 DEF AdapterSubscribe, Free
    <2> QED BY <1>0, <2>1, <2>2, IdleCall, OutsideStep DEF ListStep, Holds, PublishPlaces
  <1>2. ASSUME NEW s \in Slot, AdapterUnsubscribe(s)
        PROVE  BInv' /\ BoardStep
    <2>1. slot[s] \in Topic
      BY <1>2 DEF AdapterUnsubscribe, LInv, ListsOK
    <2>2. PICK d \in Call : /\ d = CallOf("unsubscribe", slot[s], s)
                            /\ d.at = "unsubscribe" /\ d.message = 0
      <3>1. PICK t \in Topic : t = slot[s]
        BY <2>1
      <3> QED BY <3>1, AdapterCall DEF InAdapter
    <2>3. Enters("bridge", d) /\ c = Idle /\ UNCHANGED <<received, result, list>>
      BY <1>2, <2>2 DEF AdapterUnsubscribe, Free
    <2> QED BY <1>0, <2>2, <2>3, IdleCall, OutsideStep DEF ListStep, Holds, PublishPlaces
  <1>3. CASE AdapterSubscribed \/ AdapterUnsubscribed
    <2>1. /\ c.at \in InAdapter /\ c.who \in Slot /\ c.topic \in Topic
          /\ Enters("bridge", Idle) /\ UNCHANGED <<received, result>>
      BY <1>3 DEF AdapterSubscribed, SubscribeFails, AdapterUnsubscribed, AdapterReturns, Bridge,
                  Returns, Enters, LInv, BridgeOK, InAdapter
    <2>2. ListStep
      <3>1. PICK who \in Slot : who = c.who
        BY <2>1
      <3>2. PICK t \in Topic : t = c.topic
        BY <2>1
      <3>3. PICK same \in SUBSET Subscriber : same = {who}
        BY SubscriberKinds
      <3>4. \/ Subscribe(t, who, same)
            \/ Unsubscribe(t, same)
            \/ UNCHANGED list
        BY <1>3, <3>1, <3>2, <3>3 DEF AdapterSubscribed, SubscribeFails, AdapterUnsubscribed
      <3> QED BY <3>3, <3>4, SubscriberKinds, JoinMoves, LeaveMoves DEF ListStep
    <2> QED BY <1>0, <2>1, <2>2, IdleCall, OutsideStep DEF Holds, InAdapter, PublishPlaces
  <1> QED BY <1>1, <1>2, <1>3

\* Who calls the server to publish gets a message that nobody has used.
LEMMA UnusedIs ==
    ASSUME Unused # {}
    PROVE  /\ NextMessage \in Message /\ result[NextMessage] = "none"
           /\ \A k \in Task : call[k].message # NextMessage
  <1>1. Unused \in SUBSET Nat
    BY DEF Unused, Message
  <1>2. \E n \in Unused : \A m \in Unused : n <= m
    BY <1>1, LeastOf
  <1>3. NextMessage \in Unused
    BY <1>2 DEF NextMessage
  <1> QED BY <1>3 DEF Unused

\* A publish begins.
LEMMA CallBoard ==
    ASSUME IInv, IInv', BInv, NEW k \in Task, NEW t \in Topic, CallsServer(k, t)
    PROVE  BInv' /\ BoardStep
  <1>1. PICK place \in {"create", "publish"} : Publishes(k, place, t)
    BY DEF CallsServer, BridgePublishes, PeerPublishes, ApplicationPublishes
  <1>2. UNCHANGED <<received, result, list>> /\ call[k] = Idle
    BY <1>1 DEF CallsServer, BridgePublishes, PeerPublishes, ApplicationPublishes, Publishes, Free
  <1>3. PICK m \in Message : /\ m = NextMessage /\ result[m] = "none"
                             /\ \A j \in Task : call[j].message # m
    BY <1>1, UnusedIs DEF Publishes
  <1>4. PICK c \in Call : /\ c = [CallOf(place, t, Nobody) EXCEPT !.message = m]
                          /\ c.at = place /\ c.topic = t /\ c.message = m
    BY PublishCall
  <1>5. Enters(k, c)
    BY <1>1, <1>3, <1>4 DEF Publishes
  <1> QED BY <1>2, <1>3, <1>4, <1>5, IdleCall, OutsideStep DEF ListStep, Holds, PublishPlaces

\* The publisher is told that nothing was published.
LEMMA RefuseBoard ==
    ASSUME IInv, IInv', BInv, NEW k \in Task, call[k].at \in {"create", "publish"}, Refused(k)
    PROVE  BInv' /\ BoardStep
  <1>1. PICK m \in Message : m = call[k].message /\ result[m] = "none"
    BY DEF BInv, MessagesOK, MessageOK, PublishPlaces
  <1>2. /\ result' = [result EXCEPT ![m] = "refused"]
        /\ Enters(k, Idle) /\ UNCHANGED <<list, received>>
    BY <1>1 DEF Refused, Returns, Enters
  <1>3. /\ call' \in [Task -> Call] /\ call'[k] = Idle
        /\ \A j \in Task \ {k} : call'[j] = call[j]
    BY <1>2, IdleCall, CallsChange DEF BInv
  <1>4. Walking' = Walking
    BY <1>3, IdleCall, WalkingStays DEF Holds
  <1>5. CallsTyped'
    BY <1>2, <1>3 DEF BInv, CallsTyped
  <1>6. \A n \in Message : result'[n] = IF n = m THEN "refused" ELSE result[n]
    BY <1>2 DEF BInv, CallsTyped
  <1>7. MessagesOK'
    <2>1. ASSUME NEW j \in Task PROVE MessageOK(j)'
      <3>1. CASE j = k
        BY <1>3, <3>1, IdleCall DEF MessageOK, PublishPlaces
      <3>2. CASE j # k
        <4>1. MessageOK(j) /\ call'[j] = call[j] /\ call[j].message # m
          BY <1>1, <1>3, <3>2, BoundAssumption DEF BInv, MessagesOK, Message
        <4> QED BY <1>6, <4>1 DEF MessageOK
      <3> QED BY <3>1, <3>2
    <2>2. ASSUME NEW i \in Task, NEW j \in Task, call'[i].message = call'[j].message
          PROVE  i = j \/ call'[j].message = 0
      BY <1>3, <2>2, IdleCall DEF BInv, MessagesOK
    <2> QED BY <2>1, <2>2 DEF MessagesOK
  <1>8. NotOutYet'
    BY <1>2, <1>4, <1>6 DEF BInv, NotOutYet, HasNot
  <1>9. ASSUME NEW j \in Task PROVE WalkIs(j)'
    <2>1. CASE j = k
      BY <1>3, <2>1, IdleCall DEF WalkIs, Holds
    <2>2. CASE j # k
      <3>1. WalkIs(j) /\ call'[j] = call[j] /\ list' = list /\ received' = received
        BY <1>2, <1>3, <2>2 DEF BInv, WalksOK
      <3> QED BY <3>1 DEF WalkIs, Passed, HasNot, GotLast, Left, Current
    <2> QED BY <2>1, <2>2
  <1>10. Board!Refuse(m)
    <2>1. UNCHANGED MemberSets /\ UNCHANGED Delivered
      BY <1>2, <1>4 DEF MemberSets, Members, Delivered
    <2> QED BY <1>1, <1>2, <2>1 DEF Board!Refuse
  <1>11. BoardStep
    BY <1>1, <1>10 DEF BoardStep, Board!Next, Board!Message, Message
  <1> QED BY <1>5, <1>7, <1>8, <1>9, <1>11 DEF BInv, WalksOK

\* backend_publish goes on to publish, or gives up.
LEMMA CreateBoard ==
    ASSUME IInv, IInv', BInv, CreateTopic
    PROVE  BInv' /\ BoardStep
  <1>1. "bridge" \in Task /\ call["bridge"].at = "create" /\ call["bridge"] \in Call
    BY DEF CreateTopic, Task, BInv, CallsTyped
  <1>2. CASE Refused("bridge")
    BY <1>1, <1>2, RefuseBoard
  <1>3. CASE ~Refused("bridge")
    <2>1. PICK b \in Call : b = call["bridge"]
      BY <1>1
    <2>2. PICK c \in Call : /\ c = [b EXCEPT !.at = "publish"] /\ c.at = "publish"
                            /\ c.topic = b.topic /\ c.message = b.message
      <3>1. "publish" \in PublishPlaces
        BY DEF PublishPlaces
      <3> QED BY <3>1, MovedCall
    <2>3. Enters("bridge", c) /\ UNCHANGED <<list, received, result>>
      BY <1>3, <2>1, <2>2 DEF CreateTopic
    <2>4. /\ c.topic \in Topic /\ c.message \in Message /\ result[c.message] = "none"
          /\ \A j \in Task \ {"bridge"} : call[j].message = c.message => c.message = 0
      BY <1>1, <2>1, <2>2 DEF BInv, MessagesOK, MessageOK, PublishPlaces
    <2> QED BY <1>1, <2>2, <2>3, <2>4, OutsideStep DEF ListStep, Holds, PublishPlaces
  <1> QED BY <1>2, <1>3

-----------------------------------------------------------------------------
(* The walk.                                                                *)

\* What is shown of the messages of a subscriber that none of those that are
\* under way is among.
LEMMA AllShown ==
    ASSUME NEW r \in Seq(Message), NEW gone, Range(r) \cap gone = {}
    PROVE  Unlinked(r, gone) = r
  <1>1. Range(r) = {r[j] : j \in 1 .. Len(r)}
    BY RangeFacts
  <1>2. \A j \in 1 .. Len(r) : r[j] \notin gone
    BY <1>1
  <1>3. Len(r) \in 0 .. Len(r) /\ \A j \in Len(r) + 1 .. Len(r) : r[j] \in gone
    OBVIOUS
  <1>4. Unlinked(r, gone) = SubSeq(r, 1, Len(r))
    BY <1>2, <1>3, UnlinkedFront
  <1> QED BY <1>4, SubSeqFull

\* The same if the message under way is the last one.
LEMMA FrontShown ==
    ASSUME NEW r \in Seq(Message), NEW m, Len(r) > 0, r[Len(r)] = m,
           \A j \in 1 .. Len(r) - 1 : r[j] # m
    PROVE  Append(Unlinked(r, {m}), m) = r
  <1> DEFINE last == Len(r) - 1
             gone == {m}
  <1>1. last \in 0 .. Len(r) /\ Len(r) \in Nat /\ last + 1 = Len(r)
    OBVIOUS
  <1>2. (\A j \in 1 .. last : r[j] \notin gone) /\ (\A j \in last + 1 .. Len(r) : r[j] \in gone)
    BY <1>1
  <1> HIDE DEF last, gone
  <1>3. Unlinked(r, gone) = SubSeq(r, 1, last)
    BY <1>1, <1>2, UnlinkedFront
  <1>4. Append(SubSeq(r, 1, last), r[last + 1]) = r
    BY <1>1
  <1> QED BY <1>1, <1>3, <1>4 DEF gone

\* The same just after the message under way was appended.
LEMMA AppendShown ==
    ASSUME NEW r \in Seq(Message), NEW m \in Message, m \notin Range(r)
    PROVE  Unlinked(Append(r, m), {m}) = r
  <1> DEFINE x == Append(r, m)
             last == Len(r)
             gone == {m}
  <1>1. /\ x \in Seq(Message) /\ last \in 0 .. Len(x) /\ Len(x) = last + 1 /\ last \in Nat
        /\ x[last + 1] = m /\ \A j \in 1 .. last : x[j] = r[j]
    OBVIOUS
  <1>2. Range(r) = {r[j] : j \in 1 .. last}
    BY RangeFacts
  <1>3. \A j \in 1 .. last : x[j] \notin gone
    BY <1>1, <1>2
  <1>4. \A j \in last + 1 .. Len(x) : x[j] \in gone
    BY <1>1
  <1>5. SubSeq(x, 1, last) = r
    OBVIOUS
  <1> HIDE DEF x, last, gone
  <1>6. Unlinked(x, gone) = SubSeq(x, 1, last)
    BY <1>1, <1>3, <1>4, UnlinkedFront
  <1> QED BY <1>5, <1>6 DEF x, gone

\* The message under way after a step.
LEMMA WalkingNext ==
    ASSUME IInv'
    PROVE  /\ server' = Nobody => Walking' = {}
           /\ \A k \in Task : server' = k => Walking' = {call'[k].message}
  <1>1. \A k \in Task : server' = k <=> call'[k].at \in Holds
    BY DEF IInv, MutexesGivenBack, Holds
  <1>2. Walking' = {call'[k].message : k \in {j \in Task : call'[j].at \in Holds}}
    BY DEF Walking, Holds
  <1>3. Nobody \notin Task
    BY DEF Nobody, Task
  <1> QED BY <1>1, <1>2, <1>3

\* The invariant of the calls when only the place of one call has changed.
LEMMA SameMessages ==
    ASSUME BInv, NEW k \in Task, UNCHANGED result,
           \A j \in Task \ {k} : call'[j] = call[j],
           call[k].at \in PublishPlaces, call'[k].at \in PublishPlaces,
           call'[k].topic = call[k].topic, call'[k].message = call[k].message
    PROVE  MessagesOK'
  <1>1. \A j \in Task : MessageOK(j)'
    BY DEF BInv, MessagesOK, MessageOK
  <1>2. ASSUME NEW i \in Task, NEW j \in Task, call'[i].message = call'[j].message
        PROVE  i = j \/ call'[j].message = 0
    <2>1. call[i].message = call[j].message /\ call'[j].message = call[j].message
      BY <1>2
    <2> QED BY <2>1 DEF BInv, MessagesOK
  <1> QED BY <1>1, <1>2 DEF MessagesOK

\* Nobody else walks while task k does.
LEMMA OthersWait ==
    ASSUME IInv', NEW k \in Task, server' = k \/ server' = Nobody,
           WalkIs(k)'
    PROVE  WalksOK'
  <1> SUFFICES ASSUME NEW j \in Task, j # k PROVE WalkIs(j)'
    BY DEF WalksOK
  <1>1. call'[j].at \notin Holds
    BY DEF IInv, MutexesGivenBack, Holds, Task, Nobody
  <1> QED BY <1>1 DEF WalkIs

\* robusto_pubsub_server_publish takes the mutex.
LEMMA BeginBoard ==
    ASSUME IInv, IInv', LInv, BInv, NEW k \in Task, BeginPublish(k)
    PROVE  BInv' /\ BoardStep
  <1>1. PICK b \in Call : b = call[k] /\ b.at = "publish"
    BY DEF BeginPublish, BInv, CallsTyped
  <1>2. PICK c \in Call : /\ c = [b EXCEPT !.at = "walk", !.next = 1]
                          /\ c.at = "walk" /\ c.topic = b.topic /\ c.message = b.message
                          /\ c.next = 1
    BY WalkCall
  <1>3. Enters(k, c) /\ server = Nobody /\ server' = k /\ UNCHANGED <<list, received, result>>
    BY <1>1, <1>2 DEF BeginPublish, Locks
  <1>4. /\ call' \in [Task -> Call] /\ call'[k] = c
        /\ \A j \in Task \ {k} : call'[j] = call[j]
    BY <1>3, CallsChange DEF BInv
  <1>5. PICK m \in Message : m = b.message /\ result[m] = "none" /\ b.topic \in Topic
    BY <1>1 DEF BInv, MessagesOK, MessageOK, PublishPlaces
  <1>6. Walking = {} /\ Walking' = {m}
    BY <1>2, <1>3, <1>4, <1>5, WalkingIs, WalkingNext
  <1>7. \A s \in Subscriber : HasNot(s, m)
    BY <1>5, <1>6 DEF BInv, NotOutYet
  <1>8. CallsTyped' /\ NotOutYet'
    BY <1>3, <1>4, <1>6 DEF BInv, CallsTyped, NotOutYet, HasNot
  <1>9. MessagesOK'
    <2>1. call[k].at \in PublishPlaces /\ call'[k].at \in PublishPlaces
      BY <1>1, <1>2, <1>4 DEF PublishPlaces
    <2>2. call'[k].topic = call[k].topic /\ call'[k].message = call[k].message
      BY <1>1, <1>2, <1>4
    <2> QED BY <1>3, <1>4, <2>1, <2>2, SameMessages
  <1>10. WalkIs(k)'
    <2>1. list[c.topic] \in Seq(Subscriber)
      BY <1>2, <1>5, ListIs
    <2>2. c.next \in 1 .. Len(list[c.topic]) + 1 /\ 1 .. c.next - 1 = {}
      BY <1>2, <2>1
    <2>3. Passed(k)' = {}
      BY <1>4, <2>2 DEF Passed
    <2>4. \A s \in Subscriber : HasNot(s, m)'
      BY <1>3, <1>7 DEF HasNot
    <2> QED BY <1>2, <1>3, <1>4, <1>5, <2>2, <2>3, <2>4 DEF WalkIs
  <1>11. UNCHANGED Delivered
    <2>1. ASSUME NEW s \in Subscriber
          PROVE  Unlinked(received[s], {m}) = received[s] /\ Unlinked(received[s], {}) = received[s]
      <3>1. received[s] \in Seq(Message) /\ m \notin Range(received[s])
        BY <1>7 DEF BInv, CallsTyped, HasNot
      <3>2. Range(received[s]) \cap {m} = {} /\ Range(received[s]) \cap {} = {}
        BY <3>1
      <3> QED BY <3>1, <3>2, AllShown
    <2> QED BY <1>3, <1>6, <2>1 DEF Delivered
  <1>12. BoardStep
    BY <1>3, <1>11 DEF BoardStep, Board!bvars, MemberSets, Members
  <1> QED BY <1>3, <1>8, <1>9, <1>10, <1>12, OthersWait DEF BInv

\* The callback of the application publishes, too.
LEMMA EchoBoard ==
    ASSUME IInv, IInv', LInv, BInv, NEW k \in Task, HandToEcho(k)
    PROVE  BInv' /\ BoardStep
  <1>1. PICK b \in Call : b = call[k] /\ b.at = "walk"
    BY DEF HandToEcho, Walks, BInv, CallsTyped
  <1>2. PICK c \in Call : /\ c = [b EXCEPT !.at = "nested"] /\ c.at = "nested"
                          /\ c.topic = b.topic /\ c.message = b.message
                          /\ c.next = b.next /\ c.failed = b.failed
    <2>1. "nested" \in PublishPlaces
      BY DEF PublishPlaces
    <2> QED BY <2>1, MovedCall
  <1>3. /\ Enters(k, c) /\ Left(k) /\ Current(k) = App
        /\ UNCHANGED <<list, received, result, server>>
    BY <1>1, <1>2 DEF HandToEcho
  <1>4. /\ call' \in [Task -> Call] /\ call'[k] = c
        /\ \A j \in Task \ {k} : call'[j] = call[j]
    BY <1>3, CallsChange DEF BInv
  <1>5. server = k
    BY <1>1 DEF IInv, MutexesGivenBack
  <1>6. Walking' = Walking
    <2>1. Walking = {b.message}
      BY <1>1, <1>5, WalkingIs
    <2>2. Walking' = {c.message}
      BY <1>3, <1>4, <1>5, WalkingNext
    <2> QED BY <1>2, <2>1, <2>2
  <1>7. CallsTyped' /\ NotOutYet'
    BY <1>3, <1>4, <1>6 DEF BInv, CallsTyped, NotOutYet, HasNot
  <1>8. MessagesOK'
    <2>1. call[k].at \in PublishPlaces /\ call'[k].at \in PublishPlaces
      BY <1>1, <1>2, <1>4 DEF PublishPlaces
    <2>2. call'[k].topic = call[k].topic /\ call'[k].message = call[k].message
      BY <1>1, <1>2, <1>4
    <2> QED BY <1>3, <1>4, <2>1, <2>2, SameMessages
  <1>9. WalkIs(k)'
    <2>1. WalkIs(k) /\ Passed(k)' = Passed(k)
      BY <1>1, <1>2, <1>3, <1>4 DEF BInv, WalksOK, Passed
    <2> QED BY <1>1, <1>2, <1>3, <1>4, <2>1
            DEF WalkIs, HasNot, GotLast, Left, Current, Holds
  <1>10. BoardStep
    BY <1>3, <1>6, QuietBoard DEF ListStep
  <1> QED BY <1>3, <1>5, <1>7, <1>8, <1>9, <1>10, OthersWait DEF BInv

\* publish_topic hands the message to the current subscriber, or fails to, which
\* it keeps to itself only with a slot of the adapter.
LEMMA HandBoard ==
    ASSUME IInv, IInv', LInv, BInv, NEW k \in Task, call[k].at \in Holds, Left(k),
           NEW got \in BOOLEAN, NEW fails \in BOOLEAN, Handed(k, got, fails),
           got \/ fails \/ Current(k) \in Slot
    PROVE  BInv' /\ BoardStep
  <1>1. PICK b \in Call : b = call[k]
    BY DEF BInv, CallsTyped
  <1>2. PICK failed \in BOOLEAN : failed = (b.failed \/ fails)
    OBVIOUS
  <1>3. PICK c \in Call :
           /\ c = [b EXCEPT !.at = "walk", !.next = @ + 1, !.failed = failed]
           /\ c.at = "walk" /\ c.topic = b.topic /\ c.message = b.message
           /\ c.next = b.next + 1 /\ c.failed = failed
    BY HandedCall
  <1>4. Enters(k, c) /\ UNCHANGED <<list, result, server>>
    BY <1>1, <1>2, <1>3 DEF Handed
  <1>5. /\ call' \in [Task -> Call] /\ call'[k] = c
        /\ \A j \in Task \ {k} : call'[j] = call[j]
    BY <1>4, CallsChange DEF BInv
  <1>6. server = k /\ WalkIs(k) /\ MessageOK(k)
    BY DEF IInv, MutexesGivenBack, Holds, BInv, WalksOK, MessagesOK
  <1>7. PICK m \in Message : m = b.message /\ result[m] = "none" /\ b.topic \in Topic
    BY <1>1, <1>6 DEF MessageOK, Holds, PublishPlaces
  <1> DEFINE l == list[b.topic]
             i == b.next
  <1>8. l \in Seq(Subscriber) /\ Distinct(l)
    BY <1>7, ListIs
  <1>9. i \in 1 .. Len(l) /\ i \in Nat /\ Len(l) \in Nat
    <2>1. i \in 1 .. Len(l) + 1 /\ i <= Len(l)
      BY <1>1, <1>6 DEF WalkIs, Left
    <2> QED BY <1>8, <2>1
  <1>10. PICK x \in Subscriber : x = l[i] /\ x = Current(k)
    BY <1>1, <1>8, <1>9 DEF Current
  <1>11. /\ Passed(k) = {l[j] : j \in 1 .. i - 1}
         /\ Passed(k)' = {l[j] : j \in 1 .. i}
    BY <1>1, <1>3, <1>4, <1>5, <1>9 DEF Passed
  <1> HIDE DEF l, i
  <1>12. x \notin Passed(k)
    <2> SUFFICES ASSUME NEW j \in 1 .. i - 1, l[j] = x PROVE FALSE
      BY <1>11
    <2>1. j \in 1 .. Len(l) /\ j # i
      BY <1>9
    <2> QED BY <1>8, <1>9, <1>10, <2>1 DEF Distinct
  <1>13. Passed(k)' = Passed(k) \cup {x}
    <2>1. 1 .. i = (1 .. i - 1) \cup {i}
      BY <1>9
    <2>2. x = l[i]
      BY <1>10
    <2>3. {l[j] : j \in 1 .. i} = {l[j] : j \in 1 .. i - 1} \cup {l[i]}
      BY <2>1
    <2> QED BY <1>11, <2>2, <2>3
  <1>14. HasNot(x, m) /\ received[x] \in Seq(Message)
    BY <1>1, <1>6, <1>7, <1>12 DEF WalkIs, BInv, CallsTyped
  <1>15. Walking = {m} /\ Walking' = {m}
    BY <1>1, <1>3, <1>4, <1>5, <1>6, <1>7, WalkingIs, WalkingNext
  <1>16. /\ received' \in [Subscriber -> Seq(Message)]
         /\ \A s \in Subscriber \ {x} : received'[s] = received[s]
         /\ received'[x] = IF got THEN Append(received[x], m) ELSE received[x]
    BY <1>1, <1>7, <1>10, <1>14 DEF Handed, BInv, CallsTyped
  <1>17. GotLast(x, m)' \/ (~got /\ HasNot(x, m)')
    <2>1. CASE got
      <3>1. received'[x] = Append(received[x], m)
        BY <1>16, <2>1
      <3>2. /\ Len(received'[x]) = Len(received[x]) + 1
            /\ received'[x][Len(received[x]) + 1] = m
            /\ \A j \in 1 .. Len(received[x]) : received'[x][j] = received[x][j]
        BY <1>14, <3>1
      <3>3. \A j \in 1 .. Len(received[x]) : received[x][j] # m
        BY <1>14, RangeFacts DEF HasNot
      <3>4. Len(received[x]) \in Nat
        BY <1>14
      <3> QED BY <3>2, <3>3, <3>4 DEF GotLast
    <2>2. CASE ~got
      BY <1>14, <1>16, <2>2 DEF HasNot
    <2> QED BY <2>1, <2>2
  <1>18. \A s \in Subscriber \ {x} : /\ HasNot(s, m)' <=> HasNot(s, m)
                                     /\ GotLast(s, m)' <=> GotLast(s, m)
    BY <1>16 DEF HasNot, GotLast
  <1>19. CallsTyped'
    BY <1>4, <1>5, <1>16 DEF BInv, CallsTyped
  <1>20. MessagesOK'
    <2>1. call[k].at \in PublishPlaces /\ call'[k].at \in PublishPlaces
      BY <1>3, <1>5 DEF PublishPlaces, Holds
    <2>2. call'[k].topic = call[k].topic /\ call'[k].message = call[k].message
      BY <1>1, <1>3, <1>5
    <2> QED BY <1>4, <1>5, <2>1, <2>2, SameMessages
  <1>21. NotOutYet'
    <2> SUFFICES ASSUME NEW n \in Message, result[n] = "none", n # m, NEW s \in Subscriber
                 PROVE  HasNot(s, n)'
      BY <1>4, <1>15 DEF NotOutYet
    <2>1. HasNot(s, n)
      BY <1>15 DEF BInv, NotOutYet
    <2>2. CASE s = x /\ got
      <3>1. Range(received'[x]) = Range(received[x]) \cup {m}
        BY <1>14, <1>16, <2>2, AppendFacts
      <3> QED BY <2>1, <2>2, <3>1 DEF HasNot
    <2>3. CASE ~(s = x /\ got)
      BY <1>16, <2>1, <2>3 DEF HasNot
    <2> QED BY <2>2, <2>3
  <1>22. WalkIs(k)'
    <2>1. c.next \in 1 .. Len(l) + 1
      BY <1>3, <1>9 DEF i
    <2>2. \A s \in Subscriber : HasNot(s, m)' \/ (s \in Passed(k)' /\ GotLast(s, m)')
      BY <1>1, <1>6, <1>7, <1>13, <1>17, <1>18 DEF WalkIs
    <2>3. ~failed => \A s \in Passed(k)' : s \in Slot \/ GotLast(s, m)'
      <3> SUFFICES ASSUME ~failed, NEW s \in Passed(k)', s \notin Slot PROVE GotLast(s, m)'
        OBVIOUS
      <3>1. ~b.failed /\ ~fails
        BY <1>2
      <3>2. CASE s = x
        BY <1>10, <1>17, <3>1, <3>2
      <3>3. CASE s # x
        <4>1. s \in Passed(k) /\ s \in Subscriber
          <5>1. s \in Passed(k)
            BY <1>13, <3>3
          <5>2. PICK j \in 1 .. i - 1 : s = l[j]
            BY <1>11, <5>1
          <5>3. j \in 1 .. Len(l)
            BY <1>9
          <5> QED BY <1>8, <5>1, <5>2, <5>3
        <4>2. GotLast(s, m)
          BY <1>1, <1>6, <1>7, <3>1, <4>1 DEF WalkIs
        <4> QED BY <1>18, <3>3, <4>1, <4>2
      <3> QED BY <3>2, <3>3
    <2>4. list'[call'[k].topic] = l /\ call'[k] = c /\ c.message = m
      BY <1>3, <1>4, <1>5, <1>7 DEF l
    <2> QED BY <1>3, <2>1, <2>2, <2>3, <2>4 DEF WalkIs
  <1>23. UNCHANGED Delivered
    <2> SUFFICES ASSUME NEW s \in Subscriber
                 PROVE  Unlinked(received'[s], {m}) = Unlinked(received[s], {m})
      BY <1>15 DEF Delivered
    <2>1. CASE s = x /\ got
      <3>1. Unlinked(Append(received[x], m), {m}) = received[x]
        BY <1>14, AppendShown DEF HasNot
      <3>2. Unlinked(received[x], {m}) = received[x]
        <4>1. Range(received[x]) \cap {m} = {}
          BY <1>14 DEF HasNot
        <4> QED BY <1>14, <4>1, AllShown
      <3> QED BY <1>16, <2>1, <3>1, <3>2
    <2>2. CASE ~(s = x /\ got)
      BY <1>16, <2>2
    <2> QED BY <2>1, <2>2
  <1>24. BoardStep
    BY <1>4, <1>23 DEF BoardStep, Board!bvars, MemberSets, Members
  <1> QED BY <1>4, <1>6, <1>19, <1>20, <1>21, <1>22, <1>24, OthersWait DEF BInv

\* robusto_pubsub_server_publish gives the mutex back and tells the publisher.
LEMMA EndBoard ==
    ASSUME IInv, IInv', LInv, BInv, NEW k \in Task, EndPublish(k)
    PROVE  BInv' /\ BoardStep
  <1>1. PICK b \in Call : b = call[k] /\ b.at = "walk" /\ ~Left(k)
    BY DEF EndPublish, Walks, BInv, CallsTyped
  <1>2. server = k /\ WalkIs(k) /\ MessageOK(k)
    BY <1>1 DEF IInv, MutexesGivenBack, Holds, BInv, WalksOK, MessagesOK
  <1>3. PICK m \in Message : m = b.message /\ result[m] = "none" /\ b.topic \in Topic
    BY <1>1, <1>2 DEF MessageOK, PublishPlaces
  <1>4. PICK told \in {"ok", "some_fail"} : told = IF b.failed THEN "some_fail" ELSE "ok"
    OBVIOUS
  <1>5. /\ Enters(k, Idle) /\ server' = Nobody /\ UNCHANGED <<list, received>>
        /\ result' = [result EXCEPT ![m] = told]
    BY <1>1, <1>3, <1>4 DEF EndPublish, Returns, Enters
  <1>6. /\ call' \in [Task -> Call] /\ call'[k] = Idle
        /\ \A j \in Task \ {k} : call'[j] = call[j]
    BY <1>5, IdleCall, CallsChange DEF BInv
  <1>7. Walking = {m} /\ Walking' = {}
    BY <1>1, <1>2, <1>3, <1>5, WalkingIs, WalkingNext
  <1>8. \A n \in Message : result'[n] = IF n = m THEN told ELSE result[n]
    BY <1>5 DEF BInv, CallsTyped
  <1>9. CallsTyped'
    BY <1>4, <1>5, <1>6 DEF BInv, CallsTyped
  <1>10. MessagesOK'
    <2>1. ASSUME NEW j \in Task PROVE MessageOK(j)'
      <3>1. CASE j = k
        BY <1>6, <3>1, IdleCall DEF MessageOK, PublishPlaces
      <3>2. CASE j # k
        <4>1. MessageOK(j) /\ call'[j] = call[j] /\ call[j].message # m
          BY <1>1, <1>3, <1>6, <3>2, BoundAssumption DEF BInv, MessagesOK, Message
        <4> QED BY <1>8, <4>1 DEF MessageOK
      <3> QED BY <3>1, <3>2
    <2>2. ASSUME NEW i \in Task, NEW j \in Task, call'[i].message = call'[j].message
          PROVE  i = j \/ call'[j].message = 0
      BY <1>6, <2>2, IdleCall DEF BInv, MessagesOK
    <2> QED BY <2>1, <2>2 DEF MessagesOK
  <1>11. NotOutYet'
    <2> SUFFICES ASSUME NEW n \in Message, result'[n] = "none", NEW s \in Subscriber
                 PROVE  HasNot(s, n)'
      BY DEF NotOutYet
    <2>1. n # m /\ result[n] = "none"
      BY <1>4, <1>8
    <2> QED BY <1>5, <1>7, <2>1 DEF BInv, NotOutYet, HasNot
  <1>12. WalkIs(k)'
    BY <1>6, IdleCall DEF WalkIs, Holds
  <1>13. Passed(k) = Members(b.topic)
    <2> DEFINE l == list[b.topic]
    <2>1. l \in Seq(Subscriber)
      BY <1>3, ListIs
    <2>2. b.next \in 1 .. Len(l) + 1 /\ ~(b.next <= Len(l)) /\ Len(l) \in Nat
      BY <1>1, <1>2, <2>1 DEF WalkIs, Holds, Left
    <2>3. b.next - 1 = Len(l)
      BY <2>2
    <2>4. Members(b.topic) = {l[j] : j \in 1 .. Len(l)}
      BY <2>1, RangeFacts DEF Members
    <2> QED BY <1>1, <2>3, <2>4 DEF Passed
  <1> DEFINE got == {s \in Subscriber : GotLast(s, m)}
  <1>14. got \subseteq Members(b.topic)
    <2>1. ASSUME NEW s \in Subscriber, GotLast(s, m), received[s] \in Seq(Message)
          PROVE  ~HasNot(s, m)
      <3>1. Len(received[s]) \in 1 .. Len(received[s]) /\ received[s][Len(received[s])] = m
        BY <2>1 DEF GotLast
      <3>2. Range(received[s]) = {received[s][j] : j \in 1 .. Len(received[s])}
        BY <2>1, RangeFacts
      <3> QED BY <3>1, <3>2 DEF HasNot
    <2> QED BY <1>1, <1>2, <1>3, <1>13, <2>1 DEF WalkIs, Holds, BInv, CallsTyped
  <1>15. told = "ok" => Members(b.topic) \subseteq got \cup Slot
    <2>1. told = "ok" => ~b.failed
      BY <1>4
    <2>2. Members(b.topic) \subseteq Subscriber
      BY <1>3, ListIs, RangeFacts
    <2> QED BY <1>1, <1>2, <1>3, <1>13, <2>1, <2>2 DEF WalkIs, Holds
  <1>16. \A s \in Subscriber : /\ Delivered[s] = Unlinked(received[s], {m})
                               /\ Delivered'[s] = received[s]
    <2> TAKE s \in Subscriber
    <2>1. received[s] \in Seq(Message) /\ Range(received[s]) \cap {} = {}
      BY DEF BInv, CallsTyped
    <2>2. Unlinked(received[s], {}) = received[s]
      BY <2>1, AllShown
    <2> QED BY <1>5, <1>7, <2>2 DEF Delivered
  <1>17. \A s \in Subscriber :
           Delivered'[s] = IF s \in got THEN Append(Delivered[s], m) ELSE Delivered[s]
    <2> TAKE s \in Subscriber
    <2>1. received[s] \in Seq(Message)
      BY DEF BInv, CallsTyped
    <2>2. CASE GotLast(s, m)
      BY <1>16, <2>1, <2>2, FrontShown DEF GotLast
    <2>3. CASE ~GotLast(s, m)
      <3>1. HasNot(s, m)
        BY <1>1, <1>2, <1>3, <2>3 DEF WalkIs, Holds
      <3>2. Range(received[s]) \cap {m} = {}
        BY <3>1 DEF HasNot
      <3> QED BY <1>16, <2>1, <2>3, <3>2, AllShown
    <2> QED BY <2>2, <2>3
  <1>18. Delivered' = [s \in Subscriber |-> IF s \in got THEN Append(Delivered[s], m)
                                            ELSE Delivered[s]]
    <2>1. Delivered' = [s \in Subscriber |-> Delivered'[s]]
      BY DEF Delivered
    <2> HIDE DEF got
    <2> QED BY <1>17, <2>1
  <1>19. UNCHANGED MemberSets /\ MemberSets[b.topic] = Members(b.topic)
    BY <1>3, <1>5 DEF MemberSets, Members
  <1> HIDE DEF got
  <1>20. Board!Publish(m, b.topic, got, told)
    BY <1>3, <1>5, <1>15, <1>18, <1>19 DEF Board!Publish
  <1>21. BoardStep
    BY <1>3, <1>4, <1>14, <1>19, <1>20 DEF BoardStep, Board!Next, Board!Message, Message
  <1> QED BY <1>5, <1>9, <1>10, <1>11, <1>12, <1>21, OthersWait DEF BInv

\* Every step keeps the invariant, and is one of the board or none.
LEMMA BoardNext == IInv /\ IInv' /\ LInv /\ BInv /\ [Next]_vars => BInv' /\ BoardStep
  <1> SUFFICES ASSUME IInv, IInv', LInv, BInv, [Next]_vars PROVE BInv' /\ BoardStep
    OBVIOUS
  <1>0. Task = {"bridge", "incoming", "application"}
    BY DEF Task
  <1>1. CASE \/ \E s \in Slot, t \in Topic : AdapterSubscribe(s, t)
             \/ \E s \in Slot : AdapterUnsubscribe(s)
             \/ AdapterSubscribed \/ AdapterUnsubscribed
    BY <1>1, AdapterBoard
  <1>2. CASE CreateTopic
    BY <1>2, CreateBoard
  <1>3. ASSUME NEW t \in Topic, BridgePublishes(t) \/ ApplicationPublishes(t) \/ PeerPublishes(t)
        PROVE  BInv' /\ BoardStep
    BY <1>0, <1>3, CallBoard DEF CallsServer
  <1>4. ASSUME NEW k \in Task, PublishSteps(k) \/ HandToSlot(k)
        PROVE  BInv' /\ BoardStep
    <2>1. CASE BeginPublish(k)
      BY <2>1, BeginBoard
    <2>2. CASE PublishRefused(k)
      BY <2>2, RefuseBoard DEF PublishRefused
    <2>3. CASE HandToPeer(k)
      <3>1. PICK got \in BOOLEAN : Handed(k, got, ~got)
        BY <2>3 DEF HandToPeer
      <3>2. PICK fails \in BOOLEAN : fails = ~got
        OBVIOUS
      <3>3. call[k].at \in Holds /\ Left(k)
        BY <2>3 DEF HandToPeer, Walks, Holds
      <3>4. Handed(k, got, fails)
        BY <3>1, <3>2
      <3> QED BY <3>2, <3>3, <3>4, HandBoard
    <2>4. CASE HandToSlot(k)
      <3>1. PICK got \in BOOLEAN : Handed(k, got, FALSE)
        <4>1. PICK g \in BOOLEAN : Handed(k, g /\ slot[Current(k)] # NoTopic, FALSE)
          BY <2>4 DEF HandToSlot
        <4>2. PICK got \in BOOLEAN : got = (g /\ slot[Current(k)] # NoTopic)
          OBVIOUS
        <4> QED BY <4>1, <4>2
      <3>2. call[k].at \in Holds /\ Left(k) /\ Current(k) \in Slot
        BY <2>4 DEF HandToSlot, Walks, Holds
      <3> QED BY <3>1, <3>2, HandBoard
    <2>5. CASE HandToApp(k)
      <3>1. Handed(k, TRUE, FALSE) /\ call[k].at \in Holds /\ Left(k)
        BY <2>5 DEF HandToApp, Walks, Holds
      <3> QED BY <3>1, HandBoard
    <2>6. CASE HandToEcho(k)
      BY <2>6, EchoBoard
    <2>7. CASE NestedTimesOut(k)
      <3>1. Handed(k, TRUE, TRUE) /\ call[k].at \in Holds
        BY <2>7 DEF NestedTimesOut, Holds
      <3>2. Left(k)
        BY <2>7 DEF NestedTimesOut, BInv, WalksOK, WalkIs, Holds
      <3> QED BY <3>1, <3>2, HandBoard
    <2>8. CASE EndPublish(k)
      BY <2>8, EndBoard
    <2> QED BY <1>4, <2>1, <2>2, <2>3, <2>4, <2>5, <2>6, <2>7, <2>8 DEF PublishSteps
  <1>5. ASSUME NEW t \in Topic, PeerGetsTopic(t)
        PROVE  BInv' /\ BoardStep
    BY <1>5, StillStep DEF PeerGetsTopic, ListStep
  <1>6. ASSUME NEW t \in Topic, ApplicationSubscribes(t)
        PROVE  BInv' /\ BoardStep
    <2>1. ListStep
      BY <1>6, JoinMoves, SubscriberKinds, App \in {App} DEF ApplicationSubscribes
    <2> QED BY <1>6, <2>1, StillStep DEF ApplicationSubscribes
  <1>7. ASSUME NEW p \in Peer, PeerPresents(p)
        PROVE  BInv' /\ BoardStep
    BY <1>7, StillStep DEF PeerPresents, ListStep
  <1>8. ASSUME NEW p \in Peer, NEW t \in Topic, PeerSubscribes(p, t) \/ PeerUnsubscribes(p, t)
        PROVE  BInv' /\ BoardStep
    <2>1. UNCHANGED <<call, received, result>>
      BY <1>8 DEF PeerSubscribes, PeerUnsubscribes
    <2>2. CASE UNCHANGED list
      BY <2>1, <2>2, StillStep DEF ListStep
    <2>3. CASE ~UNCHANGED list
      <3>1. PICK stale \in SUBSET Peer : \/ Subscribe(t, p, Same(p, stale))
                                         \/ Unsubscribe(t, Same(p, stale))
        BY <1>8, <2>3 DEF PeerSubscribes, PeerUnsubscribes
      <3>2. Same(p, stale) \in SUBSET Subscriber /\ p \in Same(p, stale) /\ p \in Subscriber
        BY SubscriberKinds DEF Same
      <3>3. ListStep
        BY <3>1, <3>2, JoinMoves, LeaveMoves
      <3> QED BY <2>1, <3>3, StillStep
    <2> QED BY <2>2, <2>3
  <1>9. ASSUME NEW p \in Peer, DuplicateDeleted(p)
        PROVE  BInv' /\ BoardStep
    <2>1. UNCHANGED <<call, received, result>>
      BY <1>9 DEF DuplicateDeleted
    <2>2. CASE UNCHANGED list
      BY <2>1, <2>2, StillStep DEF ListStep
    <2>3. CASE ~UNCHANGED list
      <3>1. PICK stale \in SUBSET Peer : Forget(Same(p, stale)) /\ server = Nobody
        BY <1>9, <2>3 DEF DuplicateDeleted, Locks
      <3>2. Same(p, stale) \in SUBSET Subscriber
        BY SubscriberKinds DEF Same
      <3> QED BY <2>1, <3>1, <3>2, ForgetMoves, StillStep
    <2> QED BY <2>2, <2>3
  <1>10. CASE UNCHANGED vars
    BY <1>10, StillStep DEF vars, ListStep
  <1> QED BY <1>1, <1>2, <1>3, <1>4, <1>5, <1>6, <1>7, <1>8, <1>9, <1>10
          DEF Next, BridgeSteps, WorkerSteps

\* A publish is atomic for all its subscribers and its publisher is told the truth:
\* the pubsub server does what PubsubBoard promises, for any number of topics,
\* slots, peers and messages.
THEOREM BoardIsImplemented == Spec => ImplementsBoard
  <1>1. Init => Board!Init
    <2> SUFFICES ASSUME Init PROVE Board!Init
      OBVIOUS
    <2>1. \A t \in Topic : Members(t) = {}
      <3> TAKE t \in Topic
      <3>1. list[t] = <<>> /\ list[t] \in Seq(Subscriber) /\ 1 .. Len(list[t]) = {}
        BY DEF Init
      <3>2. Members(t) = {list[t][j] : j \in 1 .. Len(list[t])}
        BY <3>1, RangeFacts DEF Members
      <3> QED BY <3>1, <3>2
    <2>2. \A s \in Subscriber : Unlinked(received[s], Walking) = <<>>
      <3> TAKE s \in Subscriber
      <3>1. received[s] = <<>> /\ received[s] \in Seq(Message) /\ 1 .. Len(received[s]) = {}
        BY DEF Init
      <3>2. Range(received[s]) = {received[s][j] : j \in 1 .. Len(received[s])}
        BY <3>1, RangeFacts
      <3>3. Range(received[s]) \cap Walking = {}
        BY <3>1, <3>2
      <3> QED BY <3>1, <3>3, AllShown
    <2> QED BY <2>1, <2>2 DEF Init, Board!Init, MemberSets, Delivered, Board!Message, Message
  <1>2. IInv /\ IInv' /\ LInv /\ BInv /\ [Next]_vars => BInv' /\ [Board!Next]_(Board!bvars)
    BY BoardNext DEF BoardStep
  <1> QED BY <1>1, <1>2, InitOK, StepOK, ListsInit, ListsNext, BoardInit, PTL
          DEF Spec, ImplementsBoard, Board!Spec

\* The variables keep their types.
THEOREM ServerTypeCorrect == Spec => []TypeOK
  <1> DEFINE Rest == /\ topics \subseteq Topic
                     /\ adapter \in Task \cup {Nobody}
                     /\ peer \in [Peer -> {"new", "related", "deleted"}]
                     /\ missed \subseteq Peer
  <1>1. Init => Rest
    BY DEF Init
  <1>2. LInv /\ BInv /\ Rest /\ [Next]_vars => Rest'
    <2> SUFFICES ASSUME LInv, BInv, Rest, [Next]_vars PROVE Rest'
      OBVIOUS
    <2>0. "bridge" \in Task
      BY DEF Task
    <2>1. ASSUME NEW s \in Slot, AdapterUnsubscribe(s) \/ \E t \in Topic : AdapterSubscribe(s, t)
          PROVE  Rest'
      BY <2>0, <2>1 DEF AdapterUnsubscribe, AdapterSubscribe
    <2>2. CASE AdapterSubscribed \/ AdapterUnsubscribed
      BY <2>2 DEF AdapterSubscribed, SubscribeFails, Subscribe, AdapterUnsubscribed,
                  AdapterReturns, Bridge, LInv, BridgeOK, InAdapter
    <2>3. CASE CreateTopic
      BY <2>0, <2>3 DEF CreateTopic, Refused, BInv, MessagesOK, MessageOK, PublishPlaces
    <2>4. ASSUME NEW t \in Topic,
                 \/ BridgePublishes(t) \/ ApplicationPublishes(t) \/ PeerPublishes(t)
                 \/ ApplicationSubscribes(t) \/ PeerGetsTopic(t)
          PROVE  Rest'
      BY <2>4 DEF BridgePublishes, ApplicationPublishes, PeerPublishes, ApplicationSubscribes,
                  Subscribe, PeerGetsTopic
    <2>5. ASSUME NEW k \in Task, PublishSteps(k) \/ HandToSlot(k)
          PROVE  Rest'
      BY <2>5 DEF PublishSteps, BeginPublish, PublishRefused, Refused, HandToPeer, HandToApp,
                  HandToEcho, NestedTimesOut, EndPublish, HandToSlot, Handed
    <2>6. ASSUME NEW p \in Peer, NEW t \in Topic, PeerSubscribes(p, t) \/ PeerUnsubscribes(p, t)
          PROVE  Rest'
      BY <2>6 DEF PeerSubscribes, Subscribe, Late, PeerUnsubscribes
    <2>7. ASSUME NEW p \in Peer, PeerPresents(p) \/ DuplicateDeleted(p)
          PROVE  Rest'
      BY <2>7 DEF PeerPresents, DuplicateDeleted
    <2>8. CASE UNCHANGED vars
      BY <2>8 DEF vars
    <2> QED BY <2>1, <2>2, <2>3, <2>4, <2>5, <2>6, <2>7, <2>8 DEF Next, BridgeSteps, WorkerSteps
  <1>3. IInv /\ LInv /\ BInv /\ Rest => TypeOK
    BY DEF IInv, LocksOK, LInv, ListsOK, BInv, CallsTyped, TypeOK
  <1> QED BY <1>1, <1>2, <1>3, InitOK, StepOK, ListsInit, ListsNext, BoardInit, BoardNext, PTL
          DEF Spec

-----------------------------------------------------------------------------
(* The client: a subscription is lost only by one of the causes that        *)
(* PubsubClient names.                                                      *)

\* Nothing is said of a request before it is sent.
Unsent == \A c \in Callers : at[c] = "send" => ~sent[c]

ClientInv == ClientTypeOK /\ Unsent /\ NobodyIsForgotten

USE DEF Hashes, HasCallback, IsPublished

\* These are the messages.
LEMMA Forms ==
  /\ Data \in Messages /\ Hello \in Messages
  /\ \A b \in BOOLEAN : Request(b) \in Messages
  /\ \A h \in Hashes, b \in BOOLEAN : Answer(h, b) \in Messages
  /\ \A h \in Hashes : Publication(h) \in Messages /\ Unknown(h) \in Messages
BY DEF Messages

\* A message under way keeps its form when a new conversation id is taken.
LEMMA OlderIsMessage == ASSUME NEW m \in Messages PROVE Older(m) \in Messages
<1>1. ASSUME NEW b \in BOOLEAN, m = Request(b) PROVE Older(m) \in Messages
  <2>1. Older(m) = Request(FALSE)
    BY <1>1 DEF Older, Request
  <2> QED
    BY <2>1, Forms
<1>2. ASSUME NEW h \in Hashes, NEW b \in BOOLEAN, m = Answer(h, b)
      PROVE Older(m) \in Messages
  <2>1. Older(m) = Answer(h, FALSE)
    BY <1>2 DEF Older, Answer
  <2> QED
    BY <2>1, Forms
<1>3. ASSUME NEW h \in Hashes, m = Publication(h) \/ m = Unknown(h)
      PROVE Older(m) \in Messages
  <2>1. m.type # "request" /\ m.type # "answer"
    BY <1>3 DEF Publication, Unknown
  <2> QED
    BY <2>1 DEF Older
<1>4. CASE m = Data \/ m = Hello
  <2>1. m.type # "request" /\ m.type # "answer"
    BY <1>4 DEF Data, Hello
  <2> QED
    BY <2>1 DEF Older
<1> QED
  BY <1>1, <1>2, <1>3, <1>4 DEF Messages

\* Every step of the client, the server and the network keeps the types.
LEMMA TypeStep == ClientTypeOK /\ [ClientNext]_clientVars => ClientTypeOK'
<1> SUFFICES ASSUME ClientTypeOK, [ClientNext]_clientVars PROVE ClientTypeOK'
  OBVIOUS
<1>a. Tasks \subseteq Callers /\ Application \in Callers
  BY DEF Callers
<1> USE Forms, <1>a, TopicAssumption
<1> USE DEF ClientTypeOK, States, Places, Goes, Leaves, Ails, LooksWell, Replaces,
            topic, callers, serverSide, serverPeer
<1>0. /\ Innocent \/ LooksWell => cause' \in Causes \cup {"none"}
      /\ \A why \in Causes \cup {"none"} :
           Blames(why) => cause' \in Causes \cup {"none"}
  BY DEF Innocent, Blames, Causes
<1>1. ASSUME NEW c \in Callers, Number(c) PROVE ClientTypeOK'
  <2>1. air' \subseteq Messages
    BY <1>1, OlderIsMessage DEF Number
  <2> QED
    BY <1>0, <1>1, <2>1 DEF Number
<1>2. ASSUME NEW c \in Callers, SendRequest(c) \/ RequestFails(c) PROVE ClientTypeOK'
  BY <1>0, <1>2 DEF SendRequest, RequestFails
<1>3. ASSUME NEW c \in Callers, \/ RequestFailed(c) \/ Settle(c) \/ Wait(c)
                                \/ HashComes(c) \/ HashWaitEnds(c)
      PROVE ClientTypeOK'
  BY <1>0, <1>3 DEF RequestFailed, Settle, Wait, HashComes, HashWaitEnds
<1>4. ASSUME NEW c \in Tasks, Recovers(c) PROVE ClientTypeOK'
  BY <1>0, <1>4 DEF Recovers, Recovered, Await, AwaitEnds
<1>5. CASE CheckTopic \/ CheckTopicFails
  <2>1. CASE CheckTopic
    <3>1. cause' \in Causes \cup {"none"}
      BY <1>0, <2>1 DEF CheckTopic
    <3> QED
      BY <2>1, <3>1 DEF CheckTopic, CreateTask
  <2>2. CASE CheckTopicFails
    <3>1. cause' \in Causes \cup {"none"}
      BY <1>0, <2>2 DEF CheckTopicFails, Causes
    <3> QED
      BY <2>2, <3>1 DEF CheckTopicFails, CreationFails
  <2> QED
    BY <1>5, <2>1, <2>2
<1>6. CASE Publish \/ PublishFails \/ PublishReturns
  BY <1>0, <1>6 DEF Publish, PublishFails, PublishReturns
<1>7. ASSUME NEW b \in BOOLEAN, ServerRegisters(b) \/ ServerRefuses(b)
      PROVE ClientTypeOK'
  <2>1. ASSUME ServerRegisters(b) PROVE ClientTypeOK'
    <3>1. known' \in BOOLEAN /\ subscribed' \in BOOLEAN
      BY <2>1, Zenon DEF ServerRegisters, HasCallback
    <3> QED
      BY <1>0, <1>7, <2>1, <3>1 DEF ServerRegisters
  <2>2. ASSUME ServerRefuses(b) PROVE ClientTypeOK'
    <3>1. known' \in BOOLEAN
      BY <2>2, Zenon DEF ServerRefuses
    <3>2. cause' \in Causes \cup {"none"}
      BY <1>0, <2>2 DEF ServerRefuses, Causes
    <3> QED
      BY <1>7, <2>2, <3>1, <3>2 DEF ServerRefuses
  <2> QED
    BY <1>7, <2>1, <2>2
<1>8. ASSUME NEW h \in Hashes, ServerTakesPublication(h) \/ TakesUnknown(h)
      PROVE ClientTypeOK'
  BY <1>0, <1>8 DEF ServerTakesPublication, TakesUnknown, Reads
<1>9. ASSUME NEW h \in Hashes, NEW b \in BOOLEAN, TakesAnswer(h, b) PROVE ClientTypeOK'
  BY <1>0, <1>9 DEF TakesAnswer, Reads
<1>10. CASE TakesData \/ OthersPublish \/ ServerPresents \/ ServerRestarts
  <2>1. CASE TakesData
    BY <1>0, <2>1 DEF TakesData, Reads
  <2>2. CASE OthersPublish
    BY <1>0, <2>2 DEF OthersPublish
  <2>3. CASE ServerRestarts \/ ServerPresents
    <3>1. presentations' \in 0 .. MaxPresentations
      BY <2>3 DEF ServerRestarts, ServerPresents, Presents
    <3>2. known' \in BOOLEAN /\ subscribed' \in BOOLEAN
      BY <2>3, Zenon DEF ServerRestarts, ServerPresents
    <3> QED
      BY <1>0, <2>3, <3>1, <3>2 DEF ServerRestarts, ServerPresents, Presents
  <2> QED
    BY <1>10, <2>1, <2>2, <2>3
<1>11. CASE TakesHello \/ RecoversSubscription
  <2>1. CASE TakesHello
    <3>1. peerKnown' \in BOOLEAN /\ greeting' \in BOOLEAN
      BY <2>1, Zenon DEF TakesHello
    <3> QED
      BY <1>0, <2>1, <3>1 DEF TakesHello, Reads
  <2>2. CASE RecoversSubscription
    <3>1. greeting' \in BOOLEAN
      BY <2>2, Zenon DEF RecoversSubscription
    <3>2. cause' \in Causes \cup {"none"}
      BY <1>0, <2>2 DEF RecoversSubscription, Causes
    <3>3. /\ kind' \in Kinds /\ state' \in States /\ hash' \in Hashes
          /\ at' \in [Callers -> Places] /\ sent' \in [Callers -> BOOLEAN]
      BY <2>2 DEF RecoversSubscription, CreateTask, CreationFails
    <3> QED
      BY <2>2, <3>1, <3>2, <3>3 DEF RecoversSubscription
  <2> QED
    BY <1>11, <2>1, <2>2
<1>12. ASSUME NEW m \in air, Lose(m) PROVE ClientTypeOK'
  <2>1. cause' \in Causes \cup {"none"}
    BY <1>0, <1>12 DEF Lose, Causes
  <2>2. UNCHANGED <<topic, callers, serverSide, serverPeer>> /\ air' \subseteq air
    BY <1>12 DEF Lose
  <2> QED
    BY <2>1, <2>2
<1>13. CASE UNCHANGED clientVars
  BY <1>13 DEF clientVars
<1>14. ASSUME NEW b \in BOOLEAN, OthersWritePeer(b) PROVE ClientTypeOK'
  BY <1>0, <1>14 DEF OthersWritePeer
<1> HIDE Forms, <1>a, TopicAssumption
<1> HIDE DEF ClientTypeOK, States, Places, Goes, Leaves, Ails, LooksWell, Replaces,
             topic, callers, serverSide, serverPeer, Hashes, HasCallback, IsPublished
<1> QED
  BY <1>1, <1>2, <1>3, <1>4, <1>5, <1>6, <1>7, <1>8, <1>9, <1>10, <1>11, <1>12,
     <1>13, <1>14 DEF ClientNext, Gets, Arrives

-----------------------------------------------------------------------------
\* A caller that moves on without having had a request to make, while no
\* request is taken away: what was asked is still asked.
LEMMA AskedKept ==
  ASSUME ClientTypeOK, Asked, NEW c \in Callers, NEW to \in Places,
         at' = [at EXCEPT ![c] = to], ~Asks(c),
         \A d \in Callers \ {c} : sent'[d] = sent[d],
         \A m \in air : m.type = "request" => m \in air'
  PROVE  Asked'
<1>1. CASE \E m \in air : m.type = "request"
  BY <1>1 DEF Asked
<1>2. CASE \E d \in Callers : Asks(d)
  <2>1. PICK d \in Callers : Asks(d)
    BY <1>2
  <2>2. d # c /\ at'[d] = at[d] /\ sent'[d] = sent[d]
    BY <2>1 DEF ClientTypeOK
  <2> QED
    BY <2>1, <2>2 DEF Asks, Asked
<1> QED
  BY <1>1, <1>2 DEF Asked

\* The same while nobody moves on.
LEMMA AskedStays ==
  ASSUME Asked, UNCHANGED callers, \A m \in air : m.type = "request" => m \in air'
  PROVE  Asked'
BY DEF Asked, Asks, callers

\* No other message is a request or the presentation of the server.
LEMMA DistinctForms ==
  /\ \A h \in Hashes : /\ Publication(h).type = "publish" /\ Publication(h) # Hello
                       /\ Unknown(h).type = "unknown" /\ Unknown(h) # Hello
  /\ \A h \in Hashes, b \in BOOLEAN :
       Answer(h, b).type = "answer" /\ Answer(h, b) # Hello
  /\ \A b \in BOOLEAN : Request(b).type = "request" /\ Request(b) # Hello
  /\ Data.type = "data" /\ Data # Hello /\ Hello.type = "hello"
BY DEF Publication, Unknown, Answer, Request, Data, Hello

\* Every step keeps a request from being counted as sent before it is.
LEMMA UnsentStep == ClientTypeOK /\ Unsent /\ [ClientNext]_clientVars => Unsent'
<1> SUFFICES ASSUME ClientTypeOK, Unsent, [ClientNext]_clientVars PROVE Unsent'
  OBVIOUS
<1>a. Tasks \subseteq Callers /\ Application \in Callers
  BY DEF Callers
<1> USE <1>a
<1> USE DEF ClientTypeOK, Unsent, Goes, Leaves, callers
<1>1. ASSUME NEW c \in Callers, Gets(c) PROVE Unsent'
  BY <1>1 DEF Gets, Number, SendRequest, RequestFails, RequestFailed, Settle,
              Wait, HashComes, HashWaitEnds
<1>2. ASSUME NEW c \in Tasks, Recovers(c) PROVE Unsent'
  BY <1>2 DEF Recovers, Recovered, Await, AwaitEnds
<1>3. ASSUME CreateTask PROVE Unsent'
  BY <1>3 DEF CreateTask
<1>4. CASE CheckTopic \/ CheckTopicFails
  BY <1>3, <1>4 DEF CheckTopic, CheckTopicFails, CreationFails
<1>5. CASE Publish \/ PublishFails \/ PublishReturns
  BY <1>5 DEF Publish, PublishFails, PublishReturns
<1>6. CASE Arrives
  BY <1>3, <1>6 DEF Arrives, ServerRegisters, ServerRefuses,
     ServerTakesPublication, TakesUnknown, TakesAnswer, TakesData, TakesHello,
     RecoversSubscription, CreationFails
<1>7. CASE \/ OthersPublish \/ ServerPresents \/ ServerRestarts
           \/ \E m \in air : Lose(m)
           \/ \E b \in BOOLEAN : OthersWritePeer(b)
  BY <1>7 DEF OthersPublish, ServerPresents, ServerRestarts, Presents, Lose,
              OthersWritePeer
<1>8. CASE UNCHANGED clientVars
  BY <1>8 DEF clientVars
<1> HIDE <1>a
<1> HIDE DEF ClientTypeOK, Unsent, Goes, Leaves, callers
<1> QED
  BY <1>1, <1>2, <1>4, <1>5, <1>6, <1>7, <1>8 DEF ClientNext

-----------------------------------------------------------------------------
\* A step that names a cause keeps the promise, and so does one that does not,
\* if the topic is provided for after it as it was before.
LEMMA Named ==
  ASSUME NEW why, why # "none", Blames(why)
  PROVE  NobodyIsForgotten'
BY DEF Blames, NobodyIsForgotten

LEMMA NoneNeeded ==
  ASSUME Innocent, NobodyIsForgotten, Provided => Provided'
  PROVE  NobodyIsForgotten'
BY DEF Innocent, Blames, NobodyIsForgotten

\* A topic that is not touched stays provided for while it is asked for, the
\* presentation of the server is under way and the server knows what it knew.
LEMMA StaysProvided ==
  ASSUME UNCHANGED <<kind, state, subscribed>>, Asked => Asked',
         Hello \in air => Hello \in air' \/ greeting', greeting => greeting'
  PROVE  Provided => Provided'
BY DEF Provided, Ails, HasCallback

\* Every step of the client, the server and the network keeps the promise that
\* a subscription is lost only by one of the named causes.
LEMMA PromiseStep == ClientInv /\ [ClientNext]_clientVars => NobodyIsForgotten'
<1> SUFFICES ASSUME ClientInv, [ClientNext]_clientVars PROVE NobodyIsForgotten'
  OBVIOUS
<1>a. Tasks \subseteq Callers /\ Application \in Callers
  BY DEF Callers
<1>b. ClientTypeOK /\ Unsent /\ NobodyIsForgotten
  BY DEF ClientInv
<1> USE <1>a, <1>b
<1>0. \A c \in Callers : Asks(c) => Provided
  BY DEF Provided, Asked
<1>1. ASSUME NEW c \in Callers, Number(c) PROVE NobodyIsForgotten'
  <2>1. Asks(c)'
    BY <1>1 DEF Number, Goes, Asks, ClientTypeOK
  <2>2. Provided'
    BY <2>1 DEF Provided, Asked
  <2> QED
    BY <2>2 DEF NobodyIsForgotten
<1>2. ASSUME NEW c \in Callers, SendRequest(c) PROVE NobodyIsForgotten'
  <2>1. Request(TRUE) \in air' /\ Request(TRUE).type = "request"
    BY <1>2, DistinctForms DEF SendRequest
  <2>2. Provided'
    BY <2>1 DEF Provided, Asked
  <2> QED
    BY <2>2 DEF NobodyIsForgotten
<1>3. ASSUME NEW c \in Callers, RequestFails(c) PROVE NobodyIsForgotten'
  <2>1. Asks(c)'
    BY <1>3 DEF RequestFails, Goes, Asks, ClientTypeOK, Unsent
  <2>2. Provided'
    BY <2>1 DEF Provided, Asked
  <2> QED
    BY <2>2 DEF NobodyIsForgotten
<1>4. ASSUME state' \in {"PROBLEM", "UNKNOWN"} PROVE NobodyIsForgotten'
  BY <1>4 DEF NobodyIsForgotten, Provided, Ails
<1>5. ASSUME LooksWell PROVE NobodyIsForgotten'
  BY <1>5, Named DEF LooksWell
<1>6. ASSUME NEW c \in Callers, \/ RequestFailed(c) \/ Settle(c) \/ Wait(c)
                                \/ HashComes(c) \/ HashWaitEnds(c)
      PROVE NobodyIsForgotten'
  <2>1. CASE Wait(c)
    <3>1. Asked => Asked'
      BY <2>1, AskedKept DEF Wait, Goes, Asks, Places
    <3>2. Provided => Provided'
      BY <2>1, <3>1, StaysProvided DEF Wait, topic, serverSide, serverPeer
    <3> QED
      BY <2>1, <3>2, NoneNeeded DEF Wait
  <2> QED
    BY <1>4, <1>5, <1>6, <2>1
    DEF RequestFailed, Settle, HashComes, HashWaitEnds
<1>7. ASSUME NEW c \in Tasks, Recovers(c) PROVE NobodyIsForgotten'
  <2>1. CASE Await(c)
    <3>1. Asked => Asked'
      BY <2>1, AskedKept DEF Await, Goes, Asks, Places
    <3>2. Provided => Provided'
      BY <2>1, <3>1, StaysProvided DEF Await, topic, serverSide, serverPeer
    <3> QED
      BY <2>1, <3>2, NoneNeeded DEF Await
  <2> QED
    BY <1>4, <1>5, <1>7, <2>1 DEF Recovers, Recovered, AwaitEnds
<1>8. ASSUME CreateTask PROVE NobodyIsForgotten'
  <2>1. PICK c \in Tasks : Goes(c, "idle", "number")
    BY <1>8 DEF CreateTask
  <2>2. c \in Callers /\ Asks(c)'
    BY <2>1 DEF Goes, Asks, ClientTypeOK
  <2>3. Provided'
    BY <2>2 DEF Provided, Asked
  <2> QED
    BY <2>3 DEF NobodyIsForgotten
<1>9. CASE CheckTopic \/ CheckTopicFails
  BY <1>8, <1>9, Named DEF CheckTopic, CheckTopicFails
<1>10. CASE Publish \/ PublishFails \/ PublishReturns
  <2>1. ASSUME Publish \/ PublishFails PROVE NobodyIsForgotten'
    <3>1. Asked => Asked'
      BY <2>1, AskedKept DEF Publish, PublishFails, Goes, Asks, Places,
                             ClientTypeOK
    <3>2. /\ UNCHANGED <<topic, serverSide, serverPeer>> /\ Innocent
          /\ Hello \in air => Hello \in air'
      BY <2>1 DEF Publish, PublishFails
    <3>3. Provided => Provided'
      BY <3>1, <3>2, StaysProvided DEF topic, serverSide, serverPeer
    <3> QED
      BY <3>2, <3>3, NoneNeeded
  <2> QED
    BY <1>5, <1>10, <2>1 DEF PublishReturns
<1>11. ASSUME NEW b \in BOOLEAN, ServerRegisters(b) \/ ServerRefuses(b)
       PROVE NobodyIsForgotten'
  <2>1. CASE ServerRegisters(b)
    BY <2>1 DEF ServerRegisters, NobodyIsForgotten, Provided, HasCallback, topic
  <2>2. CASE ServerRefuses(b)
    BY <2>2, Named DEF ServerRefuses
  <2> QED
    BY <1>11, <2>1, <2>2
<1>12. ASSUME NEW h \in Hashes, ServerTakesPublication(h) PROVE NobodyIsForgotten'
  <2>1. \A m \in air : m # Publication(h) => m \in air'
    BY <1>12 DEF ServerTakesPublication, Replaces
  <2>2. Asked => Asked'
    BY <1>12, <2>1, AskedStays, DistinctForms DEF ServerTakesPublication
  <2>3. Hello \in air => Hello \in air'
    BY <2>1, DistinctForms
  <2>4. Provided => Provided'
    BY <1>12, <2>2, <2>3, StaysProvided
    DEF ServerTakesPublication, topic, serverSide, serverPeer
  <2> QED
    BY <1>12, <2>4, NoneNeeded DEF ServerTakesPublication
<1>13. ASSUME NEW h \in Hashes, TakesUnknown(h) PROVE NobodyIsForgotten'
  <2>1. \A m \in air : m # Unknown(h) => m \in air'
    BY <1>13 DEF TakesUnknown, Reads, Replaces
  <2>2. Asked => Asked'
    BY <1>13, <2>1, AskedStays, DistinctForms DEF TakesUnknown
  <2>3. Hello \in air => Hello \in air'
    BY <2>1, DistinctForms
  <2>4. CASE hash # h
    <3>1. Provided => Provided'
      BY <1>13, <2>2, <2>3, <2>4, StaysProvided
      DEF TakesUnknown, serverSide, serverPeer
    <3> QED
      BY <1>13, <3>1, NoneNeeded DEF TakesUnknown
  <2> QED
    BY <1>4, <1>13, <2>4 DEF TakesUnknown
<1>14. CASE \/ \E h \in Hashes, b \in BOOLEAN : TakesAnswer(h, b)
            \/ TakesData
  BY <1>5, <1>14 DEF TakesAnswer, TakesData
<1>15. CASE TakesHello \/ RecoversSubscription
  <2>1. CASE TakesHello
    BY <2>1 DEF TakesHello, NobodyIsForgotten, Provided
  <2>2. CASE RecoversSubscription
    BY <1>8, <2>2, Named DEF RecoversSubscription
  <2> QED
    BY <1>15, <2>1, <2>2
<1>16. CASE OthersPublish \/ \E b \in BOOLEAN : OthersWritePeer(b)
  <2>1. /\ UNCHANGED <<topic, callers, serverSide, greeting>> /\ Innocent
        /\ \A m \in air : m \in air'
    BY <1>16 DEF OthersPublish, OthersWritePeer, serverPeer
  <2>2. Asked => Asked'
    BY <2>1, AskedStays
  <2>3. Provided => Provided'
    BY <2>1, <2>2, StaysProvided DEF topic, serverSide
  <2> QED
    BY <2>1, <2>3, NoneNeeded
<1>17. CASE ServerPresents \/ ServerRestarts
  <2>1. Hello \in air'
    BY <1>17 DEF ServerPresents, ServerRestarts, Presents
  <2> QED
    BY <2>1 DEF NobodyIsForgotten, Provided
<1>18. ASSUME NEW m \in air, Lose(m) PROVE NobodyIsForgotten'
  <2>1. CASE m.type \in {"request", "hello"}
    BY <1>18, <2>1, Named DEF Lose
  <2>2. CASE m.type \notin {"request", "hello"}
    <3>1. /\ \A n \in air : n # m => n \in air'
          /\ UNCHANGED <<topic, callers, serverSide, serverPeer>> /\ Innocent
      BY <1>18, <2>2 DEF Lose, Replaces, Innocent
    <3>2. (Asked => Asked') /\ (Hello \in air => Hello \in air')
      BY <2>2, <3>1, AskedStays, DistinctForms
    <3>3. Provided => Provided'
      BY <3>1, <3>2, StaysProvided DEF topic, serverSide, serverPeer
    <3> QED
      BY <3>1, <3>3, NoneNeeded
  <2> QED
    BY <2>1, <2>2
<1>19. CASE UNCHANGED clientVars
  BY <1>19 DEF clientVars, NobodyIsForgotten, Provided, Asked, Asks, Ails,
               HasCallback, topic, callers, serverSide, serverPeer
<1> HIDE <1>a, <1>b
<1> HIDE DEF Hashes, HasCallback, IsPublished
<1> QED
  BY <1>1, <1>2, <1>3, <1>6, <1>7, <1>9, <1>10, <1>11, <1>12, <1>13, <1>14,
     <1>15, <1>16, <1>17, <1>18, <1>19 DEF ClientNext, Gets, Arrives

\* Whatever is lost, late, refused or restarted, for any number of recovery
\* tasks and of presentations: a topic with a callback gets the data of the server or
\* will ask for it, unless one of the named causes has struck
\* (robusto_pubsub_client.c).
THEOREM ForgottenOnlyForACause == ClientSpec => []NobodyIsForgotten
<1>1. ClientInit => ClientInv
  <2> SUFFICES ASSUME ClientInit PROVE ClientInv
    OBVIOUS
  <2>1. Application \in Callers /\ Asks(Application)
    BY DEF ClientInit, Callers, Asks
  <2>2. NobodyIsForgotten
    BY <2>1 DEF NobodyIsForgotten, Provided, Asked
  <2>3. ClientTypeOK
    <3>1. at \in [Callers -> Places]
      BY DEF ClientInit, Places
    <3>2. sent \in [Callers -> BOOLEAN]
      <4>1. sent = [c \in Callers |-> FALSE]
        BY DEF ClientInit
      <4> QED
        BY <4>1
    <3>3. presentations \in 0 .. MaxPresentations
      BY TopicAssumption DEF ClientInit
    <3>4. kind \in Kinds /\ state \in States /\ hash \in Hashes
      BY DEF ClientInit, States
    <3>5. /\ known \in BOOLEAN /\ subscribed \in BOOLEAN
          /\ peerKnown \in BOOLEAN /\ greeting \in BOOLEAN
      <4>1. /\ known = FALSE /\ subscribed = FALSE
            /\ peerKnown = TRUE /\ greeting = FALSE
        BY DEF ClientInit
      <4> QED
        BY <4>1, Zenon
    <3>6. air \subseteq Messages /\ cause \in Causes \cup {"none"}
      BY DEF ClientInit
    <3> QED
      BY <3>1, <3>2, <3>3, <3>4, <3>5, <3>6 DEF ClientTypeOK
  <2>4. Unsent
    BY DEF ClientInit, Unsent
  <2> QED
    BY <2>2, <2>3, <2>4 DEF ClientInv
<1>2. ClientInv /\ [ClientNext]_clientVars => ClientInv'
  BY TypeStep, UnsentStep, PromiseStep DEF ClientInv
<1>3. ClientInv => NobodyIsForgotten
  BY DEF ClientInv
<1> QED
  BY <1>1, <1>2, <1>3, PTL DEF ClientSpec
=============================================================================
