-------------------------- MODULE WorkQueueProofs --------------------------
(* Proofs about WorkQueue for any set of requests, limits and media flags.  *)
EXTENDS WorkQueue, SequenceTheorems, TLAPS

(* The queue as a sequence without repetition: what appending, taking the   *)
(* head and removing at a position do to its members.                       *)
Distinct(s) == \A i, j \in 1..Len(s) : s[i] = s[j] => i = j

(* The range of a sequence, by its positions.                               *)
LEMMA RangeFacts ==
    ASSUME NEW S, NEW s \in Seq(S)
    PROVE  Range(s) = {s[j] : j \in 1..Len(s)}
  BY DEF Range

(* Appending an element that is not there adds it and keeps all distinct.   *)
LEMMA AppendFacts ==
    ASSUME NEW S, NEW s \in Seq(S), NEW e \in S
    PROVE  /\ Append(s, e) \in Seq(S)
           /\ Len(Append(s, e)) = Len(s) + 1
           /\ Range(Append(s, e)) = Range(s) \cup {e}
           /\ Distinct(s) /\ e \notin Range(s) => Distinct(Append(s, e))
  <1> DEFINE t == Append(s, e)
  <1>1. /\ t \in Seq(S)
        /\ Len(t) = Len(s) + 1
        /\ \A j \in 1..Len(s) : t[j] = s[j]
        /\ t[Len(s) + 1] = e
    OBVIOUS
  <1>2. Range(t) = Range(s) \cup {e}
    <2>1. Range(t) \subseteq Range(s) \cup {e}
      BY <1>1 DEF Range
    <2>2. Range(s) \subseteq Range(t)
      <3>1. \A j \in 1..Len(s) : j \in 1..Len(t)
        BY <1>1
      <3> QED BY <3>1, <1>1 DEF Range
    <2>3. e \in Range(t)
      BY <1>1, Len(s) + 1 \in 1..Len(t) DEF Range
    <2> QED BY <2>1, <2>2, <2>3
  <1>3. Distinct(s) /\ e \notin Range(s) => Distinct(t)
    BY <1>1 DEF Range, Distinct
  <1> QED BY <1>1, <1>2, <1>3

(* The tail holds everything but the head.                                  *)
LEMMA TailFacts ==
    ASSUME NEW S, NEW s \in Seq(S), s # <<>>, Distinct(s)
    PROVE  /\ Tail(s) \in Seq(S) /\ Head(s) \in S
           /\ Len(Tail(s)) = Len(s) - 1
           /\ Head(s) \in Range(s)
           /\ Range(Tail(s)) = Range(s) \ {Head(s)}
           /\ Distinct(Tail(s))
  <1> DEFINE t == Tail(s)
  <1>1. /\ t \in Seq(S)
        /\ Len(t) = Len(s) - 1
        /\ \A j \in 1..Len(t) : t[j] = s[j + 1]
        /\ Len(s) > 0
    OBVIOUS
  <1>2. Head(s) = s[1] /\ Head(s) \in S /\ Head(s) \in Range(s)
    BY <1>1 DEF Range
  <1>3. Distinct(t)
    BY <1>1 DEF Distinct
  <1>4. Range(t) = Range(s) \ {Head(s)}
    <2>1. Range(t) \subseteq Range(s) \ {Head(s)}
      BY <1>1, <1>2 DEF Range, Distinct
    <2>2. ASSUME NEW j \in 1..Len(s), j # 1
          PROVE  s[j] \in Range(t)
      <3>1. j - 1 \in 1..Len(t) /\ t[j - 1] = s[j]
        BY <2>2, <1>1
      <3>2. Range(t) = {t[k] : k \in 1..Len(t)}
        BY <1>1, RangeFacts
      <3> HIDE DEF t
      <3> QED BY <3>1, <3>2
    <2>3. \A x \in Range(s) \ {Head(s)} : x \in Range(t)
      BY <2>2, <1>2, RangeFacts
    <2> QED BY <2>1, <2>3
  <1> QED BY <1>1, <1>2, <1>3, <1>4

(* Where the elements are when the one at position i has been removed.      *)
LEMMA RemoveAtPositions ==
    ASSUME NEW S, NEW s \in Seq(S), NEW i \in 1..Len(s)
    PROVE  /\ RemoveAt(s, i) \in Seq(S)
           /\ Len(RemoveAt(s, i)) = Len(s) - 1
           /\ \A j \in 1..Len(RemoveAt(s, i)) :
                RemoveAt(s, i)[j] = IF j < i THEN s[j] ELSE s[j + 1]
  <1> DEFINE a == SubSeq(s, 1, i - 1)
             b == SubSeq(s, i + 1, Len(s))
             t == RemoveAt(s, i)
  <1>1. /\ a \in Seq(S) /\ Len(a) = i - 1
        /\ \A j \in 1..Len(a) : a[j] = s[j]
    OBVIOUS
  <1>2. /\ b \in Seq(S) /\ Len(b) = Len(s) - i
        /\ \A j \in 1..Len(b) : b[j] = s[j + i]
    OBVIOUS
  <1>3. t = a \o b
    BY DEF RemoveAt
  <1> HIDE DEF a, b, t
  <1>4. /\ t \in Seq(S) /\ Len(t) = Len(a) + Len(b)
        /\ \A j \in 1..Len(t) :
              t[j] = IF j <= Len(a) THEN a[j] ELSE b[j - Len(a)]
    <2>1. a \in Seq(S) /\ b \in Seq(S)
      BY <1>1, <1>2
    <2>2. /\ a \o b \in Seq(S) /\ Len(a \o b) = Len(a) + Len(b)
          /\ \A j \in 1..(Len(a) + Len(b)) :
                (a \o b)[j] = IF j <= Len(a) THEN a[j] ELSE b[j - Len(a)]
      BY <2>1, ConcatProperties, Zenon
    <2> QED BY <2>2, <1>3, Zenon
  <1>5. i \in Int /\ Len(s) \in Nat
    OBVIOUS
  <1>6. ASSUME NEW j \in 1..Len(t)
        PROVE  t[j] = IF j < i THEN s[j] ELSE s[j + 1]
    <2>1. CASE j < i
      BY <2>1, <1>1, <1>4, <1>5, j \in 1..Len(a)
    <2>2. CASE j >= i
      <3>1. j - Len(a) \in 1..Len(b) /\ j - Len(a) + i = j + 1
        BY <2>2, <1>1, <1>2, <1>4, <1>5
      <3>2. t[j] = b[j - Len(a)]
        <4>1. ~ (j <= Len(a))
          BY <2>2, <1>1, <1>5
        <4> QED BY <1>4, <1>6, <4>1, Zenon
      <3>3. b[j - Len(a)] = s[j + 1]
        BY <3>1, <1>2
      <3> QED BY <3>2, <3>3, <2>2, <1>4, <1>5
    <2> QED BY <2>1, <2>2, <1>5
  <1>7. Len(t) = Len(s) - 1
    BY <1>1, <1>2, <1>4, <1>5
  <1> QED BY <1>4, <1>6, <1>7, Zenon DEF t

(* Removing the element at one position removes that element only.          *)
LEMMA RemoveAtFacts ==
    ASSUME NEW S, NEW s \in Seq(S), Distinct(s), NEW i \in 1..Len(s)
    PROVE  /\ RemoveAt(s, i) \in Seq(S)
           /\ Len(RemoveAt(s, i)) = Len(s) - 1
           /\ s[i] \in S /\ s[i] \in Range(s)
           /\ Range(RemoveAt(s, i)) = Range(s) \ {s[i]}
           /\ Distinct(RemoveAt(s, i))
  <1> DEFINE t == RemoveAt(s, i)
  <1>1. /\ t \in Seq(S) 
        /\ Len(t) = Len(s) - 1
        /\ \A j \in 1..Len(t) : t[j] = IF j < i THEN s[j] ELSE s[j + 1]
    BY RemoveAtPositions
  <1>2. s[i] \in S /\ s[i] \in Range(s)
    BY DEF Range
  <1>3. Distinct(t)
    BY <1>1 DEF Distinct
  <1>4. Range(t) = Range(s) \ {s[i]}
    <2>1. Range(t) \subseteq Range(s) \ {s[i]}
      BY <1>1 DEF Range, Distinct
    <2>2. ASSUME NEW j \in 1..Len(s), j # i
          PROVE  s[j] \in Range(t)
      <3>1. Range(t) = {t[k] : k \in 1..Len(t)}
        BY <1>1, RangeFacts
      <3>2. CASE j < i
        <4>1. j \in 1..Len(t) /\ t[j] = s[j]
          BY <3>2, <1>1
        <4> HIDE DEF t
        <4> QED BY <3>1, <4>1
      <3>3. CASE j > i
        <4>1. j - 1 \in 1..Len(t) /\ t[j - 1] = s[j]
          BY <3>3, <1>1
        <4> HIDE DEF t
        <4> QED BY <3>1, <4>1
      <3> QED BY <2>2, <3>2, <3>3
    <2>3. Range(s) = {s[j] : j \in 1..Len(s)}
      BY RangeFacts
    <2> HIDE DEF t
    <2> QED BY <2>1, <2>2, <2>3
  <1> QED BY <1>1, <1>2, <1>3, <1>4

-----------------------------------------------------------------------------
(* Who has a message: its task until it is accepted, then one of the queue, *)
(* the worker and the evictor.                                              *)
Ownership ==
    /\ Distinct(queue)
    /\ \A r \in Range(queue) : accepted[r] /\ r # cur /\ r # victim
    /\ cur # NoRequest => accepted[cur] /\ victim # cur
    /\ victim # NoRequest => accepted[victim]
    /\ (wpc \in {"idle", "gone"}) <=> (cur = NoRequest)
    /\ \A r \in Requests :
          /\ accepted[r] => pc[r] \in {"marking", "waiting", "releasing",
                                       "dropping", "done"}
          /\ pc[r] \in {"waiting", "releasing", "dropping"} => r \in Watched
    /\ count = IF Counted THEN Len(queue) ELSE 0

CoreInv == TypeOK /\ Ownership /\ BufferFreedExactlyOnce

LEMMA CoreInit == Init => CoreInv
  <1> SUFFICES ASSUME Init PROVE CoreInv
    OBVIOUS
  <1>1. queue = <<>> /\ Range(queue) = {} /\ Len(queue) = 0
    BY DEF Init, Range
  <1>2. TypeOK
    <2>1. queue \in Seq(Requests) /\ count \in Nat
      BY <1>1 DEF Init
    <2>2. frees \in [Requests -> 0..2]
      BY DEF Init
    <2>3. /\ pc \in [Requests -> TaskPCs]
          /\ cell \in [Requests -> Status]
          /\ life \in [Requests -> {"none", "live", "freed"}]
          /\ origin \in [Requests -> {"heap", "program", "misread"}]
          /\ accepted \in [Requests -> BOOLEAN]
          /\ verdict \in [Requests -> {"none", "succeeded", "not_succeeded"}]
          /\ sent \in [Requests -> BOOLEAN]
      BY DEF Init, TaskPCs, Status
    <2>4. /\ mutex \in Requests \cup {"free", "destroyed"}
          /\ victim \in Requests \cup {NoRequest}
          /\ blocked \in BOOLEAN /\ shutdown \in BOOLEAN /\ recovering \in BOOLEAN
          /\ wpc \in WorkerPCs
          /\ cur \in Requests \cup {NoRequest}
          /\ retval \in BOOLEAN
      BY DEF Init, WorkerPCs
    <2> QED BY <2>1, <2>2, <2>3, <2>4 DEF TypeOK
  <1>3. Ownership
    BY <1>1 DEF Init, Ownership, Distinct
  <1>4. BufferFreedExactlyOnce
    BY <1>1 DEF Init, BufferFreedExactlyOnce, OwnedByOne
  <1> QED BY <1>2, <1>3, <1>4 DEF CoreInv

(* Every step keeps the core invariant.                                     *)
LEMMA CoreStep == CoreInv /\ [Next]_vars => CoreInv'
  <1> SUFFICES ASSUME CoreInv, [Next]_vars PROVE CoreInv'
    OBVIOUS
  <1> USE RequestsAssumption, GarbageAssumption, FlagsAssumption
      DEF CoreInv, tvars, cvars, qvars, wvars, env
  <1>1. ASSUME NEW r \in Requests, Submit(r) PROVE CoreInv'
    BY <1>1 DEF Submit, TypeOK, Ownership, BufferFreedExactlyOnce, OwnedByOne, SetCell, TaskPCs
  <1>2. ASSUME NEW r \in Requests, SubmitFails(r) PROVE CoreInv'
    <2>1. TypeOK'
      <3>1. /\ cell' \in [Requests -> Status]
            /\ origin' \in [Requests -> {"heap", "program", "misread"}]
        BY <1>2 DEF SubmitFails, TypeOK, SetCell, Status
      <3>2. frees' \in [Requests -> 0..2]
        <4>1. \A n \in 0..2 : (IF n = 2 THEN 2 ELSE n + 1) \in 0..2
          OBVIOUS
        <4>2. frees' = [frees EXCEPT ![r] = IF frees[r] = 2 THEN 2 ELSE frees[r] + 1]
          BY <1>2 DEF SubmitFails, FreeBuffer
        <4>3. frees \in [Requests -> 0..2] /\ frees[r] \in 0..2
          BY DEF TypeOK
        <4> QED BY <4>1, <4>2, <4>3
      <3>3. /\ pc' \in [Requests -> TaskPCs]
            /\ life' \in [Requests -> {"none", "live", "freed"}]
        BY <1>2 DEF SubmitFails, TypeOK, TaskPCs
      <3> QED BY <1>2, <3>1, <3>2, <3>3 DEF SubmitFails, TypeOK
    <2>2. Ownership' /\ BufferFreedExactlyOnce'
      BY <1>2 DEF SubmitFails, FreeBuffer, TypeOK, Ownership, BufferFreedExactlyOnce,
                  OwnedByOne, TaskPCs
    <2> QED BY <2>1, <2>2
  <1>3. ASSUME NEW r \in Requests, TakeMutex(r) PROVE CoreInv'
    BY <1>3 DEF TakeMutex, TypeOK, Ownership, BufferFreedExactlyOnce, OwnedByOne, TaskPCs
  <1>4. ASSUME NEW r \in Requests, MutexUnavailable(r) PROVE CoreInv'
    BY <1>4 DEF MutexUnavailable, TypeOK, Ownership, BufferFreedExactlyOnce, OwnedByOne, TaskPCs
  <1>5. ASSUME NEW r \in Requests, Evict(r) PROVE CoreInv'
    <2> PICK i \in 1..Len(queue) :
              /\ OldestDroppable(i)
              /\ queue' = RemoveAt(queue, i)
              /\ CountRemove
              /\ FreeBuffer(queue[i])
              /\ IF OwnerDropped(queue[i])
                 THEN FreeDropped(queue[i]) /\ UNCHANGED <<pc, victim>>
                 ELSE /\ pc' = [pc EXCEPT ![r] = "evicting"]
                      /\ victim' = queue[i]
                      /\ UNCHANGED <<life, origin>>
      BY <1>5 DEF Evict
    <2> DEFINE q == queue[i]
    <2>1. /\ queue' \in Seq(Requests)
          /\ Len(queue') = Len(queue) - 1
          /\ q \in Requests /\ q \in Range(queue)
          /\ Range(queue') = Range(queue) \ {q}
          /\ Distinct(queue')
      BY RemoveAtFacts DEF TypeOK, Ownership
    <2>2. Len(queue) \in Nat /\ Len(queue) >= 1
      BY DEF TypeOK
    <2>3. UNCHANGED <<accepted, verdict, cell, sent, mutex, env, wvars>> /\ pc[r] = "locked"
      BY <1>5 DEF Evict
    <2>4. accepted[q] /\ ~(pc[q] \in {"new", "locking", "locked", "evicting"})
          /\ frees[q] = 0 /\ q # cur /\ ~accepted[r] /\ q # NoRequest
      BY <2>1, <2>3 DEF TypeOK, Ownership, BufferFreedExactlyOnce, OwnedByOne
    <2> HIDE DEF q
    <2>5. pc' = [pc EXCEPT ![r] = "evicting"] \/ pc' = pc
      BY DEF q
    <2>6. victim' = q \/ victim' = victim
      BY DEF q
    <2>7. /\ life' = [life EXCEPT ![q] = "freed"] \/ life' = life
          /\ origin' = origin \/ origin' = [origin EXCEPT ![q] = IF @ = "heap" THEN "misread" ELSE @]
      BY DEF q, FreeDropped, FreeCell
    <2>8. frees' = [frees EXCEPT ![q] = 1]
      BY <2>4 DEF q, FreeBuffer, TypeOK
    <2>9. count' = IF Counted THEN count - 1 ELSE count
      BY DEF CountRemove
    <2>10. TypeOK'
      <3>1. count' \in Nat
        BY <2>2, <2>9 DEF TypeOK, Ownership
      <3>2. /\ frees' \in [Requests -> 0..2] /\ life' \in [Requests -> {"none", "live", "freed"}]
            /\ origin' \in [Requests -> {"heap", "program", "misread"}]
        BY <2>1, <2>7, <2>8 DEF TypeOK
      <3>3. pc' \in [Requests -> TaskPCs] /\ victim' \in Requests \cup {NoRequest}
        BY <2>1, <2>5, <2>6 DEF TypeOK, TaskPCs
      <3> QED BY <2>1, <2>3, <3>1, <3>2, <3>3 DEF TypeOK
    <2>11. Ownership'
      BY <2>1, <2>2, <2>3, <2>4, <2>5, <2>6, <2>9 DEF TypeOK, Ownership
    <2>12. BufferFreedExactlyOnce'
      BY <2>1, <2>3, <2>4, <2>5, <2>8 DEF TypeOK, Ownership, BufferFreedExactlyOnce, OwnedByOne
    <2> QED BY <2>10, <2>11, <2>12
  <1>6. ASSUME NEW r \in Requests, StoreEvicted(r) PROVE CoreInv'
    <2>1. Range(queue) \subseteq Requests
      BY RangeFacts DEF TypeOK
    <2> QED BY <1>6, <2>1 DEF StoreEvicted, TypeOK, Ownership, BufferFreedExactlyOnce,
              OwnedByOne, SetCell, TaskPCs, Status
  <1>7. ASSUME NEW r \in Requests, Insert(r) PROVE CoreInv'
    <2>1. r \notin Range(queue) /\ ~accepted[r] /\ r # cur /\ r # victim /\ r # NoRequest
      BY <1>7 DEF Insert, TypeOK, Ownership
    <2>2. /\ queue' \in Seq(Requests)
          /\ Len(queue') = Len(queue) + 1
          /\ Range(queue') = Range(queue) \cup {r}
          /\ Distinct(queue')
      BY <1>7, <2>1, AppendFacts DEF Insert, TypeOK, Ownership
    <2>3. Len(queue) \in Nat
      BY DEF TypeOK
    <2> QED BY <1>7, <2>1, <2>2, <2>3 DEF Insert, GiveMutex, CountInsert, TypeOK, Ownership,
              BufferFreedExactlyOnce, OwnedByOne, TaskPCs
  <1>8. ASSUME NEW r \in Requests, RejectFull(r) PROVE CoreInv'
    BY <1>8 DEF RejectFull, GiveMutex, TypeOK, Ownership, BufferFreedExactlyOnce, OwnedByOne, TaskPCs
  <1>9. ASSUME NEW r \in Requests, MarkQueued(r) PROVE CoreInv'
    BY <1>9 DEF MarkQueued, SetCell, TypeOK, Ownership, BufferFreedExactlyOnce, OwnedByOne, TaskPCs, Status
  <1>10. ASSUME NEW r \in Requests, MarkRejected(r) PROVE CoreInv'
    BY <1>10 DEF MarkRejected, FreeBuffer, SetCell, TypeOK, Ownership, BufferFreedExactlyOnce,
              OwnedByOne, TaskPCs, Status
  <1>11. ASSUME NEW r \in Requests, SeeResult(r) PROVE CoreInv'
    BY <1>11 DEF SeeResult, TypeOK, Ownership, BufferFreedExactlyOnce, OwnedByOne, TaskPCs
  <1>12. ASSUME NEW r \in Requests, WaitTimesOut(r) PROVE CoreInv'
    BY <1>12 DEF WaitTimesOut, TypeOK, Ownership, BufferFreedExactlyOnce, OwnedByOne, TaskPCs
  <1>13. ASSUME NEW r \in Requests, Release(r) PROVE CoreInv'
    BY <1>13 DEF Release, FreeCell, TypeOK, Ownership, BufferFreedExactlyOnce, OwnedByOne, TaskPCs
  <1>14. ASSUME NEW r \in Requests, Drop(r) PROVE CoreInv'
    BY <1>14 DEF Drop, SetCell, TypeOK, Ownership, BufferFreedExactlyOnce, OwnedByOne, TaskPCs, Status
  <1>15. CASE Dequeue
    <2>1. /\ queue' \in Seq(Requests) /\ cur' \in Requests
          /\ Len(queue') = Len(queue) - 1
          /\ cur' \in Range(queue)
          /\ Range(queue') = Range(queue) \ {cur'}
          /\ Distinct(queue')
      BY <1>15, TailFacts DEF Dequeue, TypeOK, Ownership
    <2>2. Len(queue) \in Nat /\ Len(queue') \in Nat /\ Range(queue) \subseteq Requests
      <3>1. Range(queue) \subseteq Requests
        BY RangeFacts DEF TypeOK
      <3>2. Len(queue) \in Nat /\ Len(queue') \in Nat
        BY <2>1 DEF TypeOK
      <3> QED BY <3>1, <3>2
    <2>3. cur = NoRequest /\ cur' # NoRequest
      BY <1>15, <2>1 DEF Dequeue, TypeOK, Ownership
    <2> QED BY <1>15, <2>1, <2>2, <2>3 DEF Dequeue, CountRemove, TypeOK, Ownership,
              BufferFreedExactlyOnce, OwnedByOne, WorkerPCs
  <1>16. CASE SkipSend
    BY <1>16 DEF SkipSend, TypeOK, Ownership, BufferFreedExactlyOnce, OwnedByOne, WorkerPCs
  <1>17. CASE StartSend
    BY <1>17 DEF StartSend, SetCell, TypeOK, Ownership, BufferFreedExactlyOnce, OwnedByOne, WorkerPCs, Status
  <1>18. CASE Send
    BY <1>18 DEF Send, TypeOK, Ownership, BufferFreedExactlyOnce, OwnedByOne, WorkerPCs
  <1>19. CASE Finish
    BY <1>19 DEF Finish, FreeDropped, FreeCell, TypeOK, Ownership, BufferFreedExactlyOnce, OwnedByOne, WorkerPCs
  <1>20. CASE StoreResult
    BY <1>20 DEF StoreResult, SetCell, TypeOK, Ownership, BufferFreedExactlyOnce, OwnedByOne, WorkerPCs, Status
  <1>21. CASE Cleanup
    <2>1. cur \in Requests /\ cur \notin Range(queue) /\ accepted[cur] /\ frees[cur] = 0
          /\ Range(queue) \subseteq Requests
      BY <1>21, RangeFacts DEF Cleanup, TypeOK, Ownership, BufferFreedExactlyOnce, OwnedByOne
    <2>2. frees' = [frees EXCEPT ![cur] = 1]
      BY <1>21, <2>1 DEF Cleanup, FreeBuffer, TypeOK
    <2> QED BY <1>21, <2>1, <2>2 DEF Cleanup, TypeOK, Ownership,
              BufferFreedExactlyOnce, OwnedByOne, WorkerPCs
  <1>22. CASE WorkerExits
    BY <1>22 DEF WorkerExits, TypeOK, Ownership, BufferFreedExactlyOnce, OwnedByOne, WorkerPCs
  <1>23. CASE Unblock
    BY <1>23 DEF Unblock, TypeOK, Ownership, BufferFreedExactlyOnce, OwnedByOne
  <1>24. CASE Shutdown
    BY <1>24 DEF Shutdown, TypeOK, Ownership, BufferFreedExactlyOnce, OwnedByOne
  <1>25. CASE QosChanges
    BY <1>25 DEF QosChanges, TypeOK, Ownership, BufferFreedExactlyOnce, OwnedByOne
  <1>26. CASE UNCHANGED vars
    BY <1>26 DEF vars, TypeOK, Ownership, BufferFreedExactlyOnce, OwnedByOne
  <1> QED BY <1>1, <1>2, <1>3, <1>4, <1>5, <1>6, <1>7, <1>8, <1>9, <1>10, <1>11, <1>12,
             <1>13, <1>14, <1>15, <1>16, <1>17, <1>18, <1>19, <1>20, <1>21, <1>22,
             <1>23, <1>24, <1>25, <1>26 DEF Next, Task, Worker

(* What the lemmas above keep holds of every behaviour.                     *)
THEOREM CoreInvariant == Spec => []CoreInv
  <1> QED BY CoreInit, CoreStep, PTL DEF Spec

(* The variables keep their types.                                          *)
THEOREM TypeCorrect == Spec => []TypeOK
  <1>1. CoreInv => TypeOK
    BY DEF CoreInv
  <1> QED BY <1>1, CoreInvariant, PTL

(* Every message buffer is freed exactly once, by the last of its           *)
(* successive owners, whatever the interleaving, evictions included.        *)
THEOREM BufferDiscipline == Spec => []BufferFreedExactlyOnce
  <1>1. CoreInv => BufferFreedExactlyOnce
    BY DEF CoreInv
  <1> QED BY <1>1, CoreInvariant, PTL

-----------------------------------------------------------------------------
(* The hand-over of a queue_state: DROPPED is written by a task that is     *)
(* done, a byte of the heap is only there before the task has marked its    *)
(* cell, and while the worker side holds a cell its task sees it neither    *)
(* finished nor dropped, so that only the last holder frees it.             *)
HandOver ==
    \A r \in Watched :
        /\ cell[r] = "DROPPED" => pc[r] = "done" \/ origin[r] = "heap"
        /\ origin[r] = "heap" => pc[r] \in {"new", "locking", "locked", "evicting", "marking"}
        /\ pc[r] = "new" => origin[r] = "heap"
        /\ WorkerSideHolds(r) /\ pc[r] \in {"waiting", "releasing", "dropping"}
              => cell[r] \in {"QUEUED", "RUNNING"}

Safe == \A r \in Watched : WorkerSideHolds(r) \/ TaskHolds(r) => life[r] = "live"

CellInv == CoreInv /\ (Misread \/ (HandOver /\ Safe))

LEMMA CellInit == Init => CellInv
  <1> SUFFICES ASSUME Init PROVE CellInv
    OBVIOUS
  <1>1. CoreInv
    BY CoreInit
  <1>2. HandOver /\ Safe
    BY RequestsAssumption DEF Init, HandOver, Safe, WorkerSideHolds, TaskHolds, Range
  <1> QED BY <1>1, <1>2 DEF CellInv

(* A cell that was misread stays so.                                        *)
LEMMA MisreadStays == TypeOK /\ Misread /\ [Next]_vars => Misread'
  <1> SUFFICES ASSUME TypeOK, [Next]_vars, NEW q \in Requests, origin[q] = "misread"
               PROVE  origin'[q] = "misread"
    BY DEF Misread
  <1>1. CASE UNCHANGED origin
    BY <1>1
  <1>2. ASSUME NEW r, NEW c, SetCell(r, c)
        PROVE  origin'[q] = "misread"
    BY <1>2 DEF SetCell, TypeOK
  <1>3. ASSUME NEW r, FreeDropped(r)
        PROVE  origin'[q] = "misread"
    BY <1>3 DEF FreeDropped, TypeOK
  <1>4. \/ UNCHANGED origin
        \/ \E r, c : SetCell(r, c)
        \/ \E r : FreeDropped(r)
    <2> USE DEF vars, cvars
    <2>1. ASSUME NEW r \in Requests, Task(r)
          PROVE  \/ UNCHANGED origin
                 \/ \E q1, c : SetCell(q1, c)
                 \/ \E q1 : FreeDropped(q1)
      BY <2>1 DEF Task, Submit, SubmitFails, TakeMutex, MutexUnavailable, Evict, StoreEvicted,
                  Insert, RejectFull, MarkQueued, MarkRejected, SeeResult, WaitTimesOut,
                  Release, Drop
    <2>2. CASE Worker
      BY <2>2 DEF Worker, Dequeue, SkipSend, StartSend, Send, Finish, StoreResult, Cleanup,
                  WorkerExits
    <2>3. CASE Unblock \/ Shutdown \/ QosChanges \/ UNCHANGED vars
      BY <2>3 DEF Unblock, Shutdown, QosChanges
    <2> QED BY <2>1, <2>2, <2>3 DEF Next
  <1> QED BY <1>1, <1>2, <1>3, <1>4

(* Every step hands a cell over as it should, or misreads one.              *)
LEMMA CellStep == CellInv /\ [Next]_vars => CellInv'
  <1> SUFFICES ASSUME CellInv, [Next]_vars, ~Misread' PROVE CellInv'
    BY CoreStep DEF CellInv
  <1>1. CoreInv /\ CoreInv' /\ HandOver /\ Safe
    BY CoreStep, MisreadStays DEF CellInv, CoreInv
  <1>2. Range(queue) \subseteq Requests /\ Range(queue') \subseteq Requests
    BY <1>1, RangeFacts DEF CoreInv, TypeOK
  <1> DEFINE Good == HandOver' /\ Safe'
  <1> SUFFICES Good
    BY <1>1 DEF CellInv
  <1> USE <1>1, RequestsAssumption DEF CoreInv, tvars, cvars, qvars, wvars, env
  <1>3. ASSUME NEW r \in Requests, Submit(r) PROVE Good
    BY <1>3 DEF Submit, SetCell, TypeOK, Ownership, HandOver, Safe, WorkerSideHolds, TaskHolds
  <1>4. ASSUME NEW r \in Requests, SubmitFails(r) PROVE Good
    BY <1>4 DEF SubmitFails, SetCell, TypeOK, Ownership, HandOver, Safe, WorkerSideHolds, TaskHolds
  <1>5. ASSUME NEW r \in Requests, TakeMutex(r) \/ MutexUnavailable(r) PROVE Good
    BY <1>5 DEF TakeMutex, MutexUnavailable, TypeOK, HandOver, Safe, WorkerSideHolds, TaskHolds
  <1>6. ASSUME NEW r \in Requests, Evict(r) PROVE Good
    <2> PICK i \in 1..Len(queue) :
              /\ queue' = RemoveAt(queue, i)
              /\ IF OwnerDropped(queue[i])
                 THEN FreeDropped(queue[i]) /\ UNCHANGED <<pc, victim>>
                 ELSE /\ pc' = [pc EXCEPT ![r] = "evicting"]
                      /\ victim' = queue[i]
                      /\ UNCHANGED <<life, origin>>
      BY <1>6 DEF Evict
    <2> DEFINE q == queue[i]
    <2>1. /\ q \in Requests /\ q \in Range(queue)
          /\ Range(queue') = Range(queue) \ {q}
      BY RemoveAtFacts DEF TypeOK, Ownership
    <2>2. UNCHANGED <<accepted, verdict, cell, sent, mutex, env, wvars>> /\ pc[r] = "locked"
      BY <1>6 DEF Evict
    <2>3. q # cur /\ q # victim /\ q # NoRequest
      BY <2>1 DEF Ownership
    <2> HIDE DEF q
    <2>4. CASE OwnerDropped(q)
      <3>1. life' = [life EXCEPT ![q] = "freed"] /\ pc' = pc /\ victim' = victim
        BY <2>4 DEF q, FreeDropped, FreeCell
      <3>2. origin' = [origin EXCEPT ![q] = IF @ = "heap" THEN "misread" ELSE @]
        BY <2>4 DEF q, FreeDropped
      <3>3. origin[q] # "heap"
        BY <2>1, <3>2 DEF Misread, TypeOK
      <3>4. origin' = origin
        BY <3>2, <3>3 DEF TypeOK
      <3>5. pc[q] = "done"
        BY <2>4, <3>3 DEF OwnerDropped, HandOver
      <3> QED BY <2>1, <2>2, <2>3, <3>1, <3>4, <3>5 DEF TypeOK, HandOver, Safe,
                WorkerSideHolds, TaskHolds
    <2>5. CASE ~OwnerDropped(q)
      <3>1. life' = life /\ origin' = origin /\ pc' = [pc EXCEPT ![r] = "evicting"] /\ victim' = q
        BY <2>5 DEF q
      <3> QED BY <2>1, <2>2, <2>3, <3>1 DEF TypeOK, HandOver, Safe,
                WorkerSideHolds, TaskHolds
    <2> QED BY <2>4, <2>5
  <1>7. ASSUME NEW r \in Requests, StoreEvicted(r) PROVE Good
    BY <1>7, <1>2 DEF StoreEvicted, SetCell, TypeOK, Ownership, HandOver, Safe,
              WorkerSideHolds, TaskHolds
  <1>8. ASSUME NEW r \in Requests, Insert(r) PROVE Good
    <2>1. Range(queue') = Range(queue) \cup {r}
      <3>1. r \notin Range(queue)
        BY <1>8 DEF Insert, TypeOK, Ownership
      <3> QED BY <1>8, <3>1, AppendFacts DEF Insert, TypeOK, Ownership
    <2> QED BY <1>8, <2>1 DEF Insert, TypeOK, HandOver, Safe, WorkerSideHolds, TaskHolds
  <1>9. ASSUME NEW r \in Requests, RejectFull(r) PROVE Good
    BY <1>9 DEF RejectFull, TypeOK, HandOver, Safe, WorkerSideHolds, TaskHolds
  <1>10. ASSUME NEW r \in Requests, MarkQueued(r) PROVE Good
    BY <1>10 DEF MarkQueued, SetCell, TypeOK, HandOver, Safe, WorkerSideHolds, TaskHolds
  <1>11. ASSUME NEW r \in Requests, MarkRejected(r) PROVE Good
    BY <1>11 DEF MarkRejected, SetCell, TypeOK, Ownership, HandOver, Safe, WorkerSideHolds, TaskHolds
  <1>12. ASSUME NEW r \in Requests, SeeResult(r) \/ WaitTimesOut(r) PROVE Good
    BY <1>12 DEF SeeResult, WaitTimesOut, TypeOK, HandOver, Safe, WorkerSideHolds, TaskHolds
  <1>13. ASSUME NEW r \in Requests, Release(r) PROVE Good
    BY <1>13 DEF Release, FreeCell, Terminal, TypeOK, Ownership, HandOver, Safe,
              WorkerSideHolds, TaskHolds
  <1>14. ASSUME NEW r \in Requests, Drop(r) PROVE Good
    BY <1>14 DEF Drop, SetCell, TypeOK, HandOver, Safe, WorkerSideHolds, TaskHolds
  <1>15. CASE Dequeue
    <2>1. cur' \in Range(queue) /\ Range(queue') = Range(queue) \ {cur'}
      BY <1>15, TailFacts DEF Dequeue, TypeOK, Ownership
    <2> QED BY <1>15, <2>1 DEF Dequeue, TypeOK, Ownership, HandOver, Safe,
              WorkerSideHolds, TaskHolds
  <1>16. CASE SkipSend \/ Send
    BY <1>16 DEF SkipSend, Send, TypeOK, HandOver, Safe, WorkerSideHolds, TaskHolds
  <1>17. CASE StartSend
    <2>1. UNCHANGED <<pc, life, queue, cur, victim>> /\ wpc' = "sending" /\ wpc = "start"
      BY <1>17 DEF StartSend
    <2>2. \A r \in Requests : WorkerSideHolds(r)' <=> WorkerSideHolds(r)
      BY <2>1 DEF WorkerSideHolds
    <2>3. Safe'
      BY <2>1, <2>2 DEF Safe, TaskHolds
    <2>4. \A r \in Watched :
            \/ cell'[r] = cell[r] /\ origin'[r] = origin[r]
            \/ cell'[r] = "RUNNING" /\ origin'[r] # "heap" /\ r = cur
      BY <1>17 DEF StartSend, SetCell, TypeOK
    <2>5. accepted[cur] /\ (cur \in Requests => pc[cur] # "new")
      BY <2>1 DEF TypeOK, Ownership
    <2> QED BY <2>1, <2>2, <2>3, <2>4, <2>5 DEF HandOver
  <1>18. CASE Finish
    <2>1. cur \in Requests
      BY <1>18 DEF Finish, TypeOK, Ownership
    <2>2. CASE OwnerDropped(cur)
      <3>1. origin' = [origin EXCEPT ![cur] = IF @ = "heap" THEN "misread" ELSE @]
        BY <1>18, <2>2 DEF Finish, FreeDropped
      <3>2. origin[cur] # "heap"
        BY <2>1, <3>1 DEF Misread, TypeOK
      <3>3. origin' = origin
        BY <3>1, <3>2 DEF TypeOK
      <3>4. pc[cur] = "done"
        BY <2>2, <3>2 DEF OwnerDropped, HandOver
      <3> QED BY <1>18, <1>2, <2>1, <2>2, <3>3, <3>4 DEF Finish, FreeDropped, FreeCell, TypeOK,
                Ownership, HandOver, Safe, WorkerSideHolds, TaskHolds
    <2>3. CASE ~OwnerDropped(cur)
      BY <1>18, <1>2, <2>3 DEF Finish, TypeOK, Ownership, HandOver, Safe, WorkerSideHolds,
                TaskHolds
    <2> QED BY <2>2, <2>3
  <1>19. CASE StoreResult
    BY <1>19, <1>2 DEF StoreResult, SetCell, TypeOK, Ownership, HandOver, Safe,
              WorkerSideHolds, TaskHolds
  <1>20. CASE Cleanup \/ WorkerExits
    BY <1>20, <1>2 DEF Cleanup, WorkerExits, TypeOK, Ownership, HandOver, Safe,
              WorkerSideHolds, TaskHolds
  <1>21. CASE Unblock \/ Shutdown \/ QosChanges
    BY <1>21 DEF Unblock, Shutdown, QosChanges, HandOver, Safe, WorkerSideHolds, TaskHolds
  <1>22. CASE UNCHANGED vars
    BY <1>22 DEF vars, HandOver, Safe, WorkerSideHolds, TaskHolds
  <1> QED
    BY <1>3, <1>4, <1>5, <1>6, <1>7, <1>8, <1>9, <1>10, <1>11, <1>12, <1>13, <1>14, <1>15,
       <1>16, <1>17, <1>18, <1>19, <1>20, <1>21, <1>22 DEF Next, Task, Worker

(* Whatever bytes the heap holds, the unlocked hand-over between a task and *)
(* the worker never frees a cell the other side still uses, and never frees *)
(* one twice, but for the one mistake: an unwritten byte read as DROPPED.   *)
THEOREM CellMemorySafe == Spec => []CellAccessSafe
  <1>1. CellInv => CellAccessSafe
    BY DEF CellInv, CellAccessSafe, Safe
  <1> QED BY CellInit, CellStep, <1>1, PTL DEF Spec

-----------------------------------------------------------------------------
(* What a watcher is told.                                                  *)
ToldTruth ==
    /\ (wpc \in {"finish", "store"}) /\ retval => sent[cur]
    /\ \A r \in Requests :
        /\ verdict[r] = "succeeded" => /\ sent[r] /\ accepted[r]
                                       /\ ~WorkerSideHolds(r)
        /\ pc[r] = "waiting" /\ cell[r] = "SUCCEEDED" => sent[r]
        /\ pc[r] = "waiting" => accepted[r]

VerdictInv == CellInv /\ (Misread \/ ToldTruth)

LEMMA VerdictInit == Init => VerdictInv
  <1> SUFFICES ASSUME Init PROVE VerdictInv
    OBVIOUS
  <1> QED BY CellInit DEF VerdictInv, Init, ToldTruth

LEMMA VerdictStep == VerdictInv /\ [Next]_vars => VerdictInv'
  <1> SUFFICES ASSUME VerdictInv, [Next]_vars, ~Misread' PROVE VerdictInv'
    BY CellStep DEF VerdictInv
  <1>0. TypeOK
    BY DEF VerdictInv, CellInv, CoreInv
  <1>1. CellInv' /\ CoreInv /\ HandOver /\ Safe /\ ToldTruth
    BY <1>0, CellStep, MisreadStays DEF VerdictInv, CellInv
  <1>2. Range(queue) \subseteq Requests /\ Range(queue') \subseteq Requests
    <2>1. queue \in Seq(Requests) /\ queue' \in Seq(Requests)
      BY <1>1 DEF CellInv, CoreInv, TypeOK
    <2> QED BY <2>1, RangeFacts
  <1> SUFFICES ToldTruth'
    BY <1>1 DEF VerdictInv
  <1> USE <1>1, RequestsAssumption DEF CoreInv, tvars, cvars, qvars, wvars, env
  <1>3. ASSUME NEW r \in Requests, Submit(r) PROVE ToldTruth'
    BY <1>3 DEF Submit, SetCell, TypeOK, ToldTruth, WorkerSideHolds
  <1>4. ASSUME NEW r \in Requests, SubmitFails(r) PROVE ToldTruth'
    BY <1>4 DEF SubmitFails, SetCell, TypeOK, ToldTruth, WorkerSideHolds
  <1>5. ASSUME NEW r \in Requests, TakeMutex(r) \/ MutexUnavailable(r) PROVE ToldTruth'
    BY <1>5 DEF TakeMutex, MutexUnavailable, TypeOK, ToldTruth, WorkerSideHolds
  <1>6. ASSUME NEW r \in Requests, Evict(r) PROVE ToldTruth'
    <2> PICK i \in 1..Len(queue) :
              /\ queue' = RemoveAt(queue, i)
              /\ IF OwnerDropped(queue[i])
                 THEN FreeDropped(queue[i]) /\ UNCHANGED <<pc, victim>>
                 ELSE /\ pc' = [pc EXCEPT ![r] = "evicting"]
                      /\ victim' = queue[i]
                      /\ UNCHANGED <<life, origin>>
      BY <1>6 DEF Evict
    <2> DEFINE q == queue[i]
    <2>1. q \in Requests /\ q \in Range(queue) /\ Range(queue') = Range(queue) \ {q}
      BY RemoveAtFacts DEF TypeOK, Ownership
    <2>2. UNCHANGED <<accepted, verdict, cell, sent, mutex, env, wvars>> /\ pc[r] = "locked"
      BY <1>6 DEF Evict
    <2>3. victim' = victim \/ victim' = q
      OBVIOUS
    <2>4. pc' = pc \/ pc' = [pc EXCEPT ![r] = "evicting"]
      OBVIOUS
    <2> HIDE DEF q
    <2>5. WorkerSideHolds(q)
      BY <2>1 DEF WorkerSideHolds
    <2> QED BY <2>1, <2>2, <2>3, <2>4, <2>5 DEF TypeOK, ToldTruth, WorkerSideHolds
  <1>7. ASSUME NEW r \in Requests, StoreEvicted(r) PROVE ToldTruth'
    BY <1>7 DEF StoreEvicted, SetCell, TypeOK, ToldTruth, WorkerSideHolds
  <1>8. ASSUME NEW r \in Requests, Insert(r) PROVE ToldTruth'
    <2>1. r \notin Range(queue) /\ ~accepted[r]
      BY <1>8 DEF Insert, TypeOK, Ownership
    <2>2. Range(queue') = Range(queue) \cup {r}
      BY <1>8, <2>1, AppendFacts DEF Insert, TypeOK, Ownership
    <2> QED BY <1>8, <2>1, <2>2 DEF Insert, TypeOK, ToldTruth, WorkerSideHolds
  <1>9. ASSUME NEW r \in Requests, RejectFull(r) PROVE ToldTruth'
    BY <1>9 DEF RejectFull, TypeOK, ToldTruth, WorkerSideHolds
  <1>10. ASSUME NEW r \in Requests, MarkQueued(r) PROVE ToldTruth'
    BY <1>10 DEF MarkQueued, SetCell, TypeOK, ToldTruth, WorkerSideHolds
  <1>11. ASSUME NEW r \in Requests, MarkRejected(r) PROVE ToldTruth'
    BY <1>11 DEF MarkRejected, SetCell, TypeOK, ToldTruth, WorkerSideHolds
  <1>12. ASSUME NEW r \in Requests, SeeResult(r) PROVE ToldTruth'
    <2>1. r \in Watched
      BY <1>12 DEF SeeResult, Ownership
    <2>2. WorkerSideHolds(r) => cell[r] # "SUCCEEDED"
      BY <1>12, <2>1 DEF SeeResult, HandOver
    <2> QED BY <1>12, <2>2 DEF SeeResult, TypeOK, ToldTruth, WorkerSideHolds
  <1>13. ASSUME NEW r \in Requests, WaitTimesOut(r) PROVE ToldTruth'
    BY <1>13 DEF WaitTimesOut, TypeOK, ToldTruth, WorkerSideHolds
  <1>14. ASSUME NEW r \in Requests, Release(r) PROVE ToldTruth'
    BY <1>14 DEF Release, TypeOK, ToldTruth, WorkerSideHolds
  <1>15. ASSUME NEW r \in Requests, Drop(r) PROVE ToldTruth'
    BY <1>15 DEF Drop, SetCell, TypeOK, ToldTruth, WorkerSideHolds
  <1>16. CASE Dequeue
    <2>1. cur' \in Range(queue) /\ Range(queue') = Range(queue) \ {cur'}
      BY <1>16, TailFacts DEF Dequeue, TypeOK, Ownership
    <2> QED BY <1>16, <2>1 DEF Dequeue, TypeOK, ToldTruth, WorkerSideHolds
  <1>17. CASE SkipSend
    BY <1>17 DEF SkipSend, TypeOK, ToldTruth, WorkerSideHolds
  <1>18. CASE StartSend
    BY <1>18 DEF StartSend, SetCell, TypeOK, ToldTruth, WorkerSideHolds
  <1>19. CASE Send
    <2>1. cur \in Requests /\ WorkerSideHolds(cur)
      BY <1>19 DEF Send, TypeOK, Ownership, WorkerSideHolds
    <2>2. pc[cur] = "waiting" => cell[cur] # "SUCCEEDED"
      BY <2>1 DEF Ownership, HandOver
    <2> QED BY <1>19, <2>1, <2>2 DEF Send, TypeOK, ToldTruth, WorkerSideHolds
  <1>20. CASE Finish
    BY <1>20 DEF Finish, TypeOK, ToldTruth, WorkerSideHolds
  <1>21. CASE StoreResult
    BY <1>21 DEF StoreResult, SetCell, TypeOK, Ownership, ToldTruth, WorkerSideHolds
  <1>22. CASE Cleanup
    BY <1>22, <1>2 DEF Cleanup, TypeOK, ToldTruth, WorkerSideHolds
  <1>23. CASE WorkerExits
    BY <1>23 DEF WorkerExits, TypeOK, ToldTruth, WorkerSideHolds
  <1>24. CASE Unblock
    BY <1>24 DEF Unblock, ToldTruth, WorkerSideHolds
  <1>25. CASE Shutdown
    BY <1>25 DEF Shutdown, ToldTruth, WorkerSideHolds
  <1>26. CASE QosChanges
    BY <1>26 DEF QosChanges, ToldTruth, WorkerSideHolds
  <1>27. CASE UNCHANGED vars
    BY <1>27 DEF vars, ToldTruth, WorkerSideHolds
  <1> QED BY <1>3, <1>4, <1>5, <1>6, <1>7, <1>8, <1>9, <1>10, <1>11, <1>12, <1>13, <1>14,
             <1>15, <1>16, <1>17, <1>18, <1>19, <1>20, <1>21, <1>22, <1>23, <1>24, <1>25,
             <1>26, <1>27 DEF Next, Task, Worker

(* A task is told "succeeded" only for a message that its send callback     *)
(* reported as sent, whatever the late writes of the status byte and        *)
(* whatever the heap leaves in it, unless a cell has been misread.          *)
THEOREM VerdictsAreTrue == Spec => []TruthfulVerdict
  <1>1. VerdictInv => TruthfulVerdict
    BY DEF VerdictInv, ToldTruth, TruthfulVerdict
  <1> QED BY VerdictInit, VerdictStep, <1>1, PTL DEF Spec

-----------------------------------------------------------------------------
(* On a medium that counts and evicts, the queue keeps its limits, and the  *)
(* places beyond the normal limit are never taken while something queued    *)
(* could have been dropped instead.                                         *)
ReserveInv == CoreInv /\ ReserveIsImportant

LEMMA ReserveStep ==
    ASSUME Counted, Evicting, ReserveInv, [Next]_vars
    PROVE  ReserveInv'
  <1>1. CoreInv /\ CoreInv' /\ ReserveIsImportant
    BY CoreStep DEF ReserveInv
  <1>2. queue \in Seq(Requests) /\ Distinct(queue) /\ count = Len(queue) /\ Len(queue) \in Nat
    BY <1>1 DEF CoreInv, TypeOK, Ownership
  <1> SUFFICES ReserveIsImportant'
    BY <1>1 DEF ReserveInv
  <1>3. CASE UNCHANGED queue
    BY <1>1, <1>3 DEF ReserveIsImportant
  <1>4. ASSUME NEW i \in 1..Len(queue), queue' = RemoveAt(queue, i)
        PROVE  ReserveIsImportant'
    <2>1. Len(queue') = Len(queue) - 1 /\ Range(queue') \subseteq Range(queue)
      BY <1>2, <1>4, RemoveAtFacts
    <2> QED BY <1>1, <1>2, <2>1, LimitsAssumption DEF ReserveIsImportant
  <1>5. CASE queue # <<>> /\ queue' = Tail(queue)
    <2>1. Len(queue') = Len(queue) - 1 /\ Range(queue') \subseteq Range(queue)
      BY <1>2, <1>5, TailFacts
    <2> QED BY <1>1, <1>2, <2>1, LimitsAssumption DEF ReserveIsImportant
  <1>6. ASSUME NEW r \in Requests, Insert(r) PROVE ReserveIsImportant'
    <2>1. r \notin Range(queue)
      BY <1>1, <1>6 DEF Insert, CoreInv, TypeOK, Ownership
    <2>2. Len(queue') = Len(queue) + 1 /\ Range(queue') = Range(queue) \cup {r}
      BY <1>2, <1>6, <2>1, AppendFacts DEF Insert
    <2>3. CASE Len(queue) < NormalMax
      BY <1>2, <2>2, <2>3, LimitsAssumption DEF ReserveIsImportant
    <2>4. CASE Len(queue) >= NormalMax
      <3>1. \A j \in 1..Len(queue) : ~Droppable(queue[j])
        BY <1>2, <1>6, <2>4 DEF Insert, MustEvict, QueueFull
      <3>2. \A q \in Range(queue) : ~Droppable(q)
        BY <1>2, <3>1, RangeFacts
      <3>3. ~Droppable(r) /\ count < ImportantMax
        BY <1>2, <1>6, <2>4 DEF Insert, QueueFull, Droppable
      <3> QED BY <1>2, <2>2, <3>2, <3>3, LimitsAssumption DEF ReserveIsImportant
    <2> QED BY <1>2, <2>3, <2>4, LimitsAssumption
  <1>7. \/ UNCHANGED queue
        \/ \E i \in 1..Len(queue) : queue' = RemoveAt(queue, i)
        \/ queue # <<>> /\ queue' = Tail(queue)
        \/ \E r \in Requests : Insert(r)
    BY DEF Next, Task, Worker, vars, qvars, Submit, SubmitFails, TakeMutex, MutexUnavailable,
           Evict, StoreEvicted, RejectFull, MarkQueued, MarkRejected, SeeResult, WaitTimesOut,
           Release, Drop, Dequeue, SkipSend, StartSend, Send, Finish, StoreResult, Cleanup,
           WorkerExits, Unblock, Shutdown, QosChanges
  <1> QED BY <1>3, <1>4, <1>5, <1>6, <1>7

(* The reserve of important items holds in every reachable state.           *)
THEOREM ReserveHolds ==
    ASSUME Counted, Evicting
    PROVE  Spec => []ReserveIsImportant
  <1>1. Init => ReserveInv
    <2> SUFFICES ASSUME Init PROVE ReserveInv
      OBVIOUS
    <2>1. Len(queue) = 0
      BY DEF Init
    <2> QED BY <2>1, CoreInit, LimitsAssumption DEF ReserveInv, ReserveIsImportant
  <1>2. ReserveInv /\ [Next]_vars => ReserveInv'
    BY ReserveStep
  <1>3. ReserveInv => ReserveIsImportant
    BY DEF ReserveInv
  <1> QED BY <1>1, <1>2, <1>3, PTL DEF Spec
=============================================================================
