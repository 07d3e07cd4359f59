-------------------------- MODULE MediaSendProofs --------------------------
(***************************************************************************)
(* Theorems about sending over several media: for any number of messages   *)
(* and media, any depth and any number of attempts, the data of a message  *)
(* has one owner that frees it once, a message does not come back to a     *)
(* medium that failed with it, and what is done is what MessageDelivery    *)
(* promises.                                                               *)
(*                                                                         *)
(* The invariants speak of places: <<x, 0>> is the worker of medium x,     *)
(* <<x, k>> the k-th item on its queue.  What every action does to the     *)
(* places is stated once (the lemmas on places); the parts of the          *)
(* invariant follow from that.                                             *)
(***************************************************************************)
EXTENDS MediaSend, SequenceTheorems, FiniteSetTheorems, TLAPS

(* Where the elements are when the one at position i has been removed.      *)
LEMMA RemoveAtPositions ==
    ASSUME NEW S, NEW s \in Seq(S), NEW i \in 1..Len(s)
    PROVE  /\ RemoveAt(s, i) \in Seq(S)
           /\ Len(RemoveAt(s, i)) = Len(s) - 1
           /\ \A j \in 1..Len(RemoveAt(s, i)) :
                RemoveAt(s, i)[j] = IF j < i THEN s[j] ELSE s[j + 1]
  <1> DEFINE a == SubSeq(s, 1, i - 1)
             b == SubSeq(s, i + 1, Len(s))
             t == RemoveAt(s, i)
  <1>1. /\ a \in Seq(S) /\ Len(a) = i - 1
        /\ \A j \in 1..Len(a) : a[j] = s[j]
    OBVIOUS
  <1>2. /\ b \in Seq(S) /\ Len(b) = Len(s) - i
        /\ \A j \in 1..Len(b) : b[j] = s[j + i]
    OBVIOUS
  <1>3. t = a \o b
    BY DEF RemoveAt
  <1> HIDE DEF a, b, t
  <1>4. /\ t \in Seq(S) /\ Len(t) = Len(a) + Len(b)
        /\ \A j \in 1..Len(t) :
              t[j] = IF j <= Len(a) THEN a[j] ELSE b[j - Len(a)]
    <2>1. a \in Seq(S) /\ b \in Seq(S)
      BY <1>1, <1>2
    <2>2. /\ a \o b \in Seq(S) /\ Len(a \o b) = Len(a) + Len(b)
          /\ \A j \in 1..(Len(a) + Len(b)) :
                (a \o b)[j] = IF j <= Len(a) THEN a[j] ELSE b[j - Len(a)]
      BY <2>1, ConcatProperties, Zenon
    <2> QED BY <2>2, <1>3, Zenon
  <1>5. i \in Int /\ Len(s) \in Nat
    OBVIOUS
  <1>6. ASSUME NEW j \in 1..Len(t)
        PROVE  t[j] = IF j < i THEN s[j] ELSE s[j + 1]
    <2>1. CASE j < i
      BY <2>1, <1>1, <1>4, <1>5, j \in 1..Len(a)
    <2>2. CASE j >= i
      <3>1. j - Len(a) \in 1..Len(b) /\ j - Len(a) + i = j + 1
        BY <2>2, <1>1, <1>2, <1>4, <1>5
      <3>2. t[j] = b[j - Len(a)]
        <4>1. ~ (j <= Len(a))
          BY <2>2, <1>1, <1>5
        <4> QED BY <1>4, <1>6, <4>1, Zenon
      <3>3. b[j - Len(a)] = s[j + 1]
        BY <3>1, <1>2
      <3> QED BY <3>2, <3>3, <2>2, <1>4, <1>5
    <2> QED BY <2>1, <2>2, <1>5
  <1>7. Len(t) = Len(s) - 1
    BY <1>1, <1>2, <1>4, <1>5
  <1> QED BY <1>4, <1>6, <1>7, Zenon DEF t

Live(x, k) == IF k = 0 THEN ~At(x, "idle") ELSE k \in 1..Len(queue[x])

MsgAt(x, k) == ItemAt(x, k).msg
DepthAt(x, k) == ItemAt(x, k).depth

(* A worker has an item unless it is idle; one that hands its item on has   *)
(* found a medium and room in the depth.                                    *)
WorkOK ==
    \A x \in PeerMedia :
        /\ ~At(x, "idle") => Doing(x) \in Item
        /\ work[x].at \in {"forward", "marking", "waiting"} =>
               Doing(x).depth < MaxDepth /\ work[x].next \in PeerMedia

(* A message has no place before it is submitted ..                         *)
NewOK ==
    \A m \in Messages : pc[m] = "new" =>
        /\ frees[m] = 0 /\ told[m] = "none" /\ tried[m] = {}
        /\ \A x \in PeerMedia, k \in Nat : Live(x, k) => MsgAt(x, k) # m

(* .. and afterwards its data is freed when none of its places owns it.     *)
Owned(m) == \E x \in PeerMedia, k \in Nat : Owns(x, k) /\ MsgAt(x, k) = m

FreedOK ==
    \A m \in Messages : pc[m] # "new" => frees[m] = IF Owned(m) THEN 0 ELSE 1

(* The items of one message form a chain: their depths differ, and the one  *)
(* that owns the data is the deepest.                                       *)
Chain(x, j, y, k) ==
    MsgAt(x, j) = MsgAt(y, k) =>
        /\ DepthAt(x, j) # DepthAt(y, k)
        /\ Owns(x, j) => DepthAt(y, k) < DepthAt(x, j)

ChainOK ==
    \A x, y \in PeerMedia, j, k \in Nat :
        Live(x, j) /\ Live(y, k) /\ <<x, j>> # <<y, k>> => Chain(x, j, y, k)

OwnOK == NewOK /\ FreedOK /\ ChainOK

(* The sender of a message has no verdict while the first item is alive.    *)
VerdictOK ==
    \A x \in PeerMedia, k \in Nat :
        Live(x, k) /\ DepthAt(x, k) = 1 => told[MsgAt(x, k)] = "none"

(* Nothing counts as sent, on a worker or in a status byte, that did not    *)
(* reach the peer.                                                          *)
SentOK ==
    \A x \in PeerMedia :
        /\ At(x, "start") => work[x].retval = "fail"
        /\ At(x, "sent") /\ work[x].retval = "ok" => Doing(x).msg \in reached

CellOK ==
    \A m \in Messages, d \in 1..MaxDepth : cell[m][d] = "SUCCEEDED" => m \in reached

(* The media that took up a message are excluded by its item, up to the one *)
(* that is at work on it.                                                   *)
TriedAt(x, k) ==
    /\ IF k = 0 /\ work[x].at \in {"sending", "sent"}
       THEN tried[MsgAt(x, k)] \subseteq ItemAt(x, k).exclude \cup {x}
       ELSE tried[MsgAt(x, k)] \subseteq ItemAt(x, k).exclude
    /\ k # 0 => TestedBit(x) \notin ItemAt(x, k).exclude
    /\ k = 0 /\ At(x, "forward") => TestedBit(work[x].next) \notin ItemAt(x, k).exclude

TriedOK == \A x \in PeerMedia, k \in Nat : Owns(x, k) => TriedAt(x, k)

IInv == TypeOK /\ WorkOK /\ OwnOK /\ VerdictOK /\ SentOK /\ CellOK

-----------------------------------------------------------------------------
(* Types *)

(* Setting a status byte.                                                   *)
LEMMA CellTyped ==
    ASSUME TypeOK, NEW m \in Messages, NEW d, NEW c \in CellStates, SetCell(m, d, c)
    PROVE  cell' \in [Messages -> [1..MaxDepth -> CellStates]]
  BY DEF TypeOK, SetCell

(* The result of an item is a status byte and, for the first, a verdict.    *)
LEMMA ResultTyped ==
    ASSUME TypeOK, NEW i \in Item, NEW ok \in BOOLEAN, Result(i, ok)
    PROVE  /\ cell' \in [Messages -> [1..MaxDepth -> CellStates]]
           /\ told' \in [Messages -> {"none", "ok", "failed"}]
  <1>1. cell' \in [Messages -> [1..MaxDepth -> CellStates]]
    BY CellTyped DEF Result, CellStates, Item
  <1>2. told' \in [Messages -> {"none", "ok", "failed"}]
    BY DEF TypeOK, Result, Item
  <1> QED BY <1>1, <1>2

(* Freeing is counted up to two.                                            *)
LEMMA FreeTyped ==
    ASSUME TypeOK, NEW m \in Messages, FreeData(m)
    PROVE  frees' \in [Messages -> 0..2]
  <1>1. frees \in [Messages -> 0..2]
    BY DEF TypeOK
  <1>2. (IF frees[m] = 2 THEN 2 ELSE frees[m] + 1) \in 0..2
    BY <1>1
  <1> QED BY <1>1, <1>2 DEF FreeData

(* The worker that has nothing to do.                                       *)
LEMMA IdleTyped == Idle \in Work /\ Idle.at = "idle"
  BY MediaSendAssumption DEF Idle, Work, Places

(* A worker's record and its fields.                                        *)
LEMMA WorkTyped ==
    ASSUME TypeOK, NEW x \in PeerMedia
    PROVE  /\ work[x] \in Work
           /\ work[x].at \in Places
           /\ work[x].item \in Item \cup {NoItem}
           /\ work[x].tries \in Nat
           /\ work[x].next \in PeerMedia \cup {"none"}
           /\ queue[x] \in Seq(Item)
  BY MediaSendAssumption DEF TypeOK, Work

(* A worker that goes on with the same item, or ends it.                    *)
LEMMA WorkStep ==
    ASSUME TypeOK, WorkOK, NEW x \in PeerMedia, NEW w \in Work,
           work' = [work EXCEPT ![x] = w],
           w.at # "idle" => w.item \in Item,
           w.at \in {"forward", "marking", "waiting"} =>
               w.item.depth < MaxDepth /\ w.next \in PeerMedia
    PROVE  work' \in [PeerMedia -> Work] /\ WorkOK'
  BY DEF TypeOK, WorkOK, At, Doing

(* A worker that only goes to another place in its loop.                    *)
LEMMA GoStep ==
    ASSUME TypeOK, WorkOK, NEW x \in PeerMedia, NEW place \in Places, Go(x, place),
           ~At(x, "idle"),
           place \in {"forward", "marking", "waiting"} =>
               work[x].at \in {"forward", "marking", "waiting"}
    PROVE  work' \in [PeerMedia -> Work] /\ WorkOK'
  <1> DEFINE w == [work[x] EXCEPT !.at = place]
  <1>1. w \in Work /\ w.at = place /\ w.item = work[x].item /\ w.next = work[x].next
    BY WorkTyped DEF Work
  <1>2. work' = [work EXCEPT ![x] = w]
    BY DEF Go
  <1> HIDE DEF w
  <1> QED BY <1>1, <1>2, WorkStep DEF WorkOK, At, Doing

(* Ending an item leaves the worker idle.                                   *)
LEMMA EndStep ==
    ASSUME TypeOK, WorkOK, NEW x \in PeerMedia, EndItem(x)
    PROVE  work' \in [PeerMedia -> Work] /\ WorkOK'
  BY IdleTyped, WorkStep DEF EndItem

(* A worker that gives up its item after storing its result.                *)
LEMMA ResultStep ==
    ASSUME TypeOK, WorkOK, NEW x \in PeerMedia, NEW ok \in BOOLEAN,
           ~At(x, "idle"), Result(Doing(x), ok), EndItem(x),
           FreeData(Doing(x).msg) \/ frees' = frees,
           UNCHANGED <<pc, queue, mstate, reached, tried>>
    PROVE  TypeOK' /\ WorkOK'
  <1>1. Doing(x) \in Item /\ Doing(x).msg \in Messages
    BY DEF WorkOK, Item
  <1>2. /\ cell' \in [Messages -> [1..MaxDepth -> CellStates]]
        /\ told' \in [Messages -> {"none", "ok", "failed"}]
    BY <1>1, ResultTyped
  <1>3. frees' \in [Messages -> 0..2]
    BY <1>1, FreeTyped DEF TypeOK
  <1> QED BY <1>2, <1>3, EndStep DEF TypeOK

(* Every action keeps the types and what a worker has at each place.        *)
LEMMA TypeStep ==
    ASSUME TypeOK, WorkOK, [Next]_vars
    PROVE  TypeOK' /\ WorkOK'
  <1> USE MediaSendAssumption
  <1>1. ASSUME NEW m \in Messages, Submit(m)
        PROVE  TypeOK' /\ WorkOK'
    <2>1. NewItem(m) \in Item
      BY DEF NewItem, Item
    <2> QED BY <1>1, <2>1 DEF TypeOK, WorkOK, Submit, At, Doing
  <1>2. ASSUME NEW m \in Messages, SubmitFails(m)
        PROVE  TypeOK' /\ WorkOK'
    <2>1. NewItem(m) \in Item
      BY DEF NewItem, Item
    <2> QED BY <1>2, <2>1, ResultTyped, FreeTyped DEF TypeOK, WorkOK, SubmitFails, At, Doing
  <1>3. ASSUME NEW m \in Messages, Mark(m)
        PROVE  TypeOK' /\ WorkOK'
    <2>1. cell' \in [Messages -> [1..MaxDepth -> CellStates]]
      BY <1>3, CellTyped DEF Mark, CellStates
    <2> QED BY <1>3, <2>1 DEF TypeOK, WorkOK, Mark, At, Doing
  <1>4. ASSUME NEW x \in PeerMedia, Dequeue(x)
        PROVE  TypeOK' /\ WorkOK'
    <2> DEFINE w == [Idle EXCEPT !.at = "start", !.item = Head(queue[x])]
    <2>1. Head(queue[x]) \in Item /\ Tail(queue[x]) \in Seq(Item)
      BY <1>4, WorkTyped, HeadTailProperties DEF Dequeue
    <2>2. w \in Work /\ w.at = "start" /\ w.item \in Item
      <3>1. ASSUME NEW i \in Item
            PROVE  LET r == [Idle EXCEPT !.at = "start", !.item = i]
                   IN  r \in Work /\ r.at = "start" /\ r.item = i
        BY IdleTyped DEF Work, Places
      <3> QED BY <2>1, <3>1
    <2>3. work' = [work EXCEPT ![x] = w] /\ queue' = [queue EXCEPT ![x] = Tail(@)]
      BY <1>4 DEF Dequeue
    <2> HIDE DEF w
    <2> QED BY <1>4, <2>1, <2>2, <2>3 DEF TypeOK, WorkOK, Dequeue, At, Doing
  <1>5. ASSUME NEW x \in PeerMedia, Begin(x)
        PROVE  TypeOK' /\ WorkOK'
    <2> DEFINE m == Doing(x).msg
    <2>1. ~At(x, "idle") /\ m \in Messages
      BY <1>5 DEF Begin, At, WorkOK, Item
    <2>2. tried' \in [Messages -> SUBSET PeerMedia]
      BY <1>5, <2>1 DEF Begin, TypeOK
    <2>3. cell' \in [Messages -> [1..MaxDepth -> CellStates]]
      BY <1>5, <2>1, CellTyped DEF Begin, TypeOK, CellStates
    <2>4. work' \in [PeerMedia -> Work] /\ WorkOK'
      <3>1. \E place \in {"sent", "sending"} : Go(x, place)
        BY <1>5 DEF Begin
      <3> QED BY <2>1, <3>1, GoStep DEF Places
    <2> QED BY <1>5, <2>2, <2>3, <2>4 DEF TypeOK, Begin
  <1>6. ASSUME NEW x \in PeerMedia, Attempt(x)
        PROVE  TypeOK' /\ WorkOK'
    <2>1. ~At(x, "idle") /\ Doing(x).msg \in Messages
      BY <1>6 DEF Attempt, At, WorkOK, Item
    <2>2. PICK out \in {"ok", "fail", "who"} :
            /\ reached' \in {reached, reached \cup {Doing(x).msg}}
            /\ work' = IF Again(x, out)
                   THEN [work EXCEPT ![x].retval = out, ![x].tries = @ + 1]
                   ELSE [work EXCEPT ![x].retval = out, ![x].tries = 0, ![x].at = "sent"]
      BY <1>6 DEF Attempt
    <2>3. work' \in [PeerMedia -> Work] /\ WorkOK'
      <3>1. CASE Again(x, out)
        <4> DEFINE w == [work[x] EXCEPT !.retval = out, !.tries = @ + 1]
        <4>1. work[x].tries + 1 \in 0..MaxTries
          BY <3>1, WorkTyped, MediaSendAssumption DEF Again
        <4>2. /\ w \in Work /\ w.at = work[x].at
              /\ w.item = work[x].item /\ w.next = work[x].next
          BY <4>1, <2>2, WorkTyped DEF Work
        <4>3. work' = [work EXCEPT ![x] = w]
          BY <3>1, <2>2, WorkTyped DEF TypeOK
        <4> HIDE DEF w
        <4> QED BY <2>1, <4>2, <4>3, WorkStep DEF WorkOK, At, Doing
      <3>2. CASE ~Again(x, out)
        <4> DEFINE w == [work[x] EXCEPT !.retval = out, !.tries = 0, !.at = "sent"]
        <4>1. /\ w \in Work /\ w.at = "sent"
              /\ w.item = work[x].item /\ w.next = work[x].next
          <5>1. 0 \in 0..MaxTries /\ "sent" \in Places
            BY MediaSendAssumption DEF Places
          <5> QED BY <5>1, <2>2, WorkTyped DEF Work
        <4>2. work' = [work EXCEPT ![x] = w]
          BY <3>2, <2>2, WorkTyped DEF TypeOK
        <4> HIDE DEF w
        <4> QED BY <2>1, <4>1, <4>2, WorkStep DEF WorkOK, At, Doing
      <3> QED BY <3>1, <3>2
    <2> QED BY <1>6, <2>1, <2>2, <2>3 DEF TypeOK, Attempt
  <1>7. ASSUME NEW x \in PeerMedia,
               Conclude(x) \/ NoOther(x) \/ ForwardRefused(x) \/ ChildSeen(x) \/ ChildTimesOut(x)
        PROVE  TypeOK' /\ WorkOK'
    <2>1. /\ ~At(x, "idle")
          /\ \E ok \in BOOLEAN : Result(Doing(x), ok)
          /\ EndItem(x)
          /\ FreeData(Doing(x).msg) \/ frees' = frees
          /\ UNCHANGED <<pc, queue, mstate, reached, tried>>
      BY <1>7 DEF Conclude, NoOther, ForwardRefused, ChildSeen, ChildTimesOut, At
    <2> QED BY <2>1, ResultStep
  <1>8. ASSUME NEW x \in PeerMedia, Choose(x)
        PROVE  TypeOK' /\ WorkOK'
    <2>1. PICK y \in Candidates(Excluded(x)) :
            work' = [work EXCEPT ![x] = [@ EXCEPT !.next = y, !.at = "forward",
                                                  !.item.exclude = Excluded(x)]]
      BY <1>8 DEF Choose
    <2>2. Doing(x) \in Item /\ Doing(x).depth < MaxDepth /\ y \in PeerMedia
      BY <1>8 DEF Choose, At, WorkOK, Candidates
    <2> DEFINE i == [Doing(x) EXCEPT !.exclude = Excluded(x)]
               w == [work[x] EXCEPT !.next = y, !.at = "forward", !.item = i]
    <2>3. i \in Item /\ i.depth = Doing(x).depth /\ Doing(x).msg \in Messages
      BY <2>2, MediaSendAssumption DEF Item, Excluded
    <2>4. work' = [work EXCEPT ![x] = w]
      <3>1. [work[x] EXCEPT !.next = y, !.at = "forward", !.item.exclude = Excluded(x)] = w
        BY WorkTyped DEF Work, Doing
      <3> HIDE DEF w
      <3> QED BY <2>1, <3>1
    <2> HIDE DEF i
    <2>5. w \in Work /\ w.at = "forward" /\ w.item = i /\ w.next = y
      BY <2>2, <2>3, WorkTyped DEF Work, Places
    <2> HIDE DEF w
    <2>6. work' \in [PeerMedia -> Work] /\ WorkOK'
      BY <2>2, <2>3, <2>4, <2>5, WorkStep
    <2>7. cell' \in [Messages -> [1..MaxDepth -> CellStates]]
      BY <1>8, <2>3, CellTyped DEF Choose, CellStates
    <2> QED BY <1>8, <2>6, <2>7 DEF Choose, TypeOK
  <1>9. ASSUME NEW x \in PeerMedia, Forward(x)
        PROVE  TypeOK' /\ WorkOK'
    <2> DEFINE i == [Doing(x) EXCEPT !.depth = @ + 1]
    <2>1. /\ Doing(x) \in Item /\ Doing(x).depth < MaxDepth
          /\ work[x].next \in PeerMedia /\ ~At(x, "idle")
      BY <1>9 DEF Forward, At, WorkOK
    <2>2. i \in Item
      BY <2>1 DEF Item
    <2>3. queue' \in [PeerMedia -> Seq(Item)]
      <3> HIDE DEF i
      <3> QED BY <1>9, <2>1, <2>2, WorkTyped DEF Forward, TypeOK, i
    <2>4. work' \in [PeerMedia -> Work] /\ WorkOK'
      BY <1>9, <2>1, GoStep DEF Forward, At, Places
    <2> QED BY <1>9, <2>3, <2>4 DEF Forward, TypeOK
  <1>10. ASSUME NEW x \in PeerMedia, MarkChild(x)
         PROVE  TypeOK' /\ WorkOK'
    <2>1. ~At(x, "idle") /\ Doing(x).msg \in Messages
      BY <1>10 DEF MarkChild, At, WorkOK, Item
    <2>2. cell' \in [Messages -> [1..MaxDepth -> CellStates]]
      BY <1>10, <2>1, CellTyped DEF MarkChild, CellStates
    <2>3. work' \in [PeerMedia -> Work] /\ WorkOK'
      BY <1>10, <2>1, GoStep DEF MarkChild, At, Places
    <2> QED BY <1>10, <2>2, <2>3 DEF MarkChild, TypeOK
  <1>11. ASSUME NEW x \in PeerMedia, Evict(x)
         PROVE  TypeOK' /\ WorkOK'
    <2>1. PICK k \in 1..Len(queue[x]) :
            /\ Result(queue[x][k], FALSE)
            /\ FreeData(queue[x][k].msg)
            /\ queue' = [queue EXCEPT ![x] = RemoveAt(@, k)]
      BY <1>11 DEF Evict
    <2>2. queue[x][k] \in Item /\ queue[x][k].msg \in Messages
      <3>1. queue[x][k] \in Item
        BY WorkTyped, ElementOfSeq
      <3> QED BY <3>1 DEF Item
    <2>3. RemoveAt(queue[x], k) \in Seq(Item)
      BY WorkTyped, RemoveAtPositions
    <2>4. /\ cell' \in [Messages -> [1..MaxDepth -> CellStates]]
          /\ told' \in [Messages -> {"none", "ok", "failed"}]
      BY <2>1, <2>2, ResultTyped
    <2>5. frees' \in [Messages -> 0..2]
      BY <2>1, <2>2, FreeTyped
    <2>6. queue' \in [PeerMedia -> Seq(Item)]
      BY <2>1, <2>3 DEF TypeOK
    <2> QED BY <1>11, <2>4, <2>5, <2>6 DEF Evict, TypeOK, WorkOK, At, Doing
  <1>12. ASSUME NEW x \in PeerMedia, QosChanges(x)
         PROVE  TypeOK' /\ WorkOK'
    BY <1>12 DEF QosChanges, TypeOK, WorkOK, At, Doing
  <1>13. ASSUME UNCHANGED vars
         PROVE  TypeOK' /\ WorkOK'
    BY <1>13 DEF vars, TypeOK, WorkOK, At, Doing
  <1> HIDE DEF TypeOK, WorkOK
  <1> QED BY <1>1, <1>2, <1>3, <1>4, <1>5, <1>6, <1>7, <1>8, <1>9, <1>10,
             <1>11, <1>12, <1>13 DEF Next, Sender, Worker

-----------------------------------------------------------------------------
(* What the actions do to the places.  Moves: what was at place j of y is   *)
(* at its place k afterwards.                                               *)
Moves(y, j, k) ==
    /\ Live(y, k)' <=> Live(y, j)
    /\ Owns(y, k)' <=> Owns(y, j)
    /\ Live(y, j) => MsgAt(y, k)' = MsgAt(y, j) /\ DepthAt(y, k)' = DepthAt(y, j)

Stay == \A y \in PeerMedia, k \in Nat : Moves(y, k, k)

(* Place i of x is gone, and what was behind it moves up.                   *)
Shift(x, i) ==
    \A y \in PeerMedia, k \in Nat : Moves(y, IF y = x /\ k >= i THEN k + 1 ELSE k, k)

(* The worker of x has no item any more.                                    *)
End(x) ==
    \A y \in PeerMedia, k \in Nat :
        IF y = x /\ k = 0 THEN ~Live(y, k)' /\ ~Owns(y, k)' ELSE Moves(y, k, k)

(* Place k of y is new, and has an item of message m at depth d.            *)
Appears(y, k, m, d) ==
    /\ ~Live(y, k)
    /\ Live(y, k)' /\ Owns(y, k)' /\ MsgAt(y, k)' = m /\ DepthAt(y, k)' = d

(* The same item is at the same place.                                      *)
Remains(y, k) == Moves(y, k, k) /\ (Live(y, k) => ItemAt(y, k)' = ItemAt(y, k))

RestRemains(z, n) ==
    \A y \in PeerMedia, k \in Nat : k # 0 /\ <<y, k>> # <<z, n>> => Remains(y, k)

Fresh(y, k, i) == Appears(y, k, i.msg, i.depth) /\ ItemAt(y, k)' = i

(* Whoever owns is alive; the items at live places are items.               *)
LEMMA LiveItems ==
    ASSUME TypeOK, WorkOK
    PROVE  /\ \A x \in PeerMedia, k \in Nat : Owns(x, k) => Live(x, k)
           /\ \A x \in PeerMedia, k \in Nat : Live(x, k) => ItemAt(x, k) \in Item
           /\ \A x \in PeerMedia, k \in Nat : Live(x, k) =>
                  MsgAt(x, k) \in Messages /\ DepthAt(x, k) \in 1..MaxDepth
  <1>1. \A x \in PeerMedia, k \in Nat : Owns(x, k) => Live(x, k)
    BY DEF Owns, Live, At
  <1>2. \A x \in PeerMedia, k \in Nat : Live(x, k) => ItemAt(x, k) \in Item
    BY WorkTyped, ElementOfSeq DEF Live, ItemAt, WorkOK
  <1>3. \A x \in PeerMedia, k \in Nat : Live(x, k) =>
            MsgAt(x, k) \in Messages /\ DepthAt(x, k) \in 1..MaxDepth
    BY <1>2 DEF MsgAt, DepthAt, Item
  <1> QED BY <1>1, <1>2, <1>3

(* When only the record of one worker changes.                              *)
LEMMA WorkerPlaces ==
    ASSUME TypeOK, NEW x \in PeerMedia, NEW w, work' = [work EXCEPT ![x] = w],
           queue' = queue
    PROVE  /\ \A y \in PeerMedia, k \in Nat : y # x \/ k # 0 =>
                  /\ Moves(y, k, k)
                  /\ ItemAt(y, k)' = ItemAt(y, k)
           /\ Live(x, 0)' <=> w.at # "idle"
           /\ Owns(x, 0)' <=> w.at \in {"start", "sending", "sent", "forward"}
           /\ ItemAt(x, 0)' = w.item
  BY DEF Moves, Live, Owns, MsgAt, DepthAt, ItemAt, At, Doing, TypeOK

(* Without a change of queue or worker, every place stays as it is.         *)
LEMMA SamePlaces ==
    ASSUME TypeOK, work' = work, queue' = queue
    PROVE  Stay /\ \A y \in PeerMedia, k \in Nat : ItemAt(y, k)' = ItemAt(y, k)
  BY DEF Stay, Moves, Live, Owns, MsgAt, DepthAt, ItemAt, At, Doing

(* Sending, marking and choosing leave every item at its place.             *)
LEMMA StayStep ==
    ASSUME TypeOK, WorkOK, NEW x \in PeerMedia,
           Begin(x) \/ Attempt(x) \/ MarkChild(x) \/ Choose(x)
    PROVE  Stay
  <1>1. PICK w : /\ work' = [work EXCEPT ![x] = w] /\ queue' = queue
                 /\ w.item.msg = Doing(x).msg /\ w.item.depth = Doing(x).depth
                 /\ w.at # "idle" /\ work[x].at # "idle"
                 /\ w.at \in {"start", "sending", "sent", "forward"} <=>
                        work[x].at \in {"start", "sending", "sent", "forward"}
    <2>1. CASE \E place \in Places : Go(x, place) /\ queue' = queue /\ 
                  place # "idle" /\ ~At(x, "idle")
                  /\ (place \in {"start", "sending", "sent", "forward"} <=>
                        work[x].at \in {"start", "sending", "sent", "forward"})
      <3>1. PICK place \in Places : /\ Go(x, place) /\ queue' = queue 
                  /\ place # "idle" /\ ~At(x, "idle")
                  /\ (place \in {"start", "sending", "sent", "forward"} <=>
                        work[x].at \in {"start", "sending", "sent", "forward"})
        BY <2>1
      <3> WITNESS [work[x] EXCEPT !.at = place]
      <3> QED BY <3>1, WorkTyped DEF Go, At, Doing, Work
    <2>2. CASE Begin(x) \/ MarkChild(x)
      BY <2>1, <2>2 DEF Begin, MarkChild, At, Places
    <2>3. CASE Attempt(x)
      <3>1. PICK out \in {"ok", "fail", "who"} :
              work' = IF Again(x, out)
                   THEN [work EXCEPT ![x].retval = out, ![x].tries = @ + 1]
                   ELSE [work EXCEPT ![x].retval = out, ![x].tries = 0, ![x].at = "sent"]
        BY <2>3 DEF Attempt
      <3>2. CASE Again(x, out)
        <4> WITNESS [work[x] EXCEPT !.retval = out, !.tries = @ + 1]
        <4> QED BY <3>1, <3>2, <2>3, WorkTyped DEF Attempt, At, Doing, Work, TypeOK
      <3>3. CASE ~Again(x, out)
        <4> WITNESS [work[x] EXCEPT !.retval = out, !.tries = 0, !.at = "sent"]
        <4> QED BY <3>1, <3>3, <2>3, WorkTyped DEF Attempt, At, Doing, Work, TypeOK
      <3> QED BY <3>2, <3>3
    <2>4. CASE Choose(x)
      <3>1. PICK y \in Candidates(Excluded(x)) :
              work' = [work EXCEPT ![x] = [@ EXCEPT !.next = y, !.at = "forward",
                                                    !.item.exclude = Excluded(x)]]
        BY <2>4 DEF Choose
      <3>2. Doing(x) \in Item
        BY <2>4 DEF Choose, At, WorkOK
      <3> WITNESS [work[x] EXCEPT !.next = y, !.at = "forward",
                                  !.item.exclude = Excluded(x)]
      <3> QED BY <3>1, <3>2, <2>4, WorkTyped DEF Choose, At, Doing, Work, Item
    <2> QED BY <2>2, <2>3, <2>4
  <1>2. Moves(x, 0, 0)
    BY <1>1, WorkerPlaces DEF Moves, Live, Owns, MsgAt, DepthAt, ItemAt, At, Doing
  <1> QED BY <1>1, <1>2, WorkerPlaces DEF Stay

(* Ending an item.                                                          *)
LEMMA EndPlaces ==
    ASSUME TypeOK, NEW x \in PeerMedia, EndItem(x), queue' = queue
    PROVE  End(x)
  BY WorkerPlaces, IdleTyped DEF EndItem, End

(* A worker that takes an item from its queue moves all of them up.         *)
LEMMA DequeueShifts ==
    ASSUME TypeOK, WorkOK, NEW x \in PeerMedia, Dequeue(x)
    PROVE  /\ Shift(x, 0)
           /\ ~Live(x, 0) /\ Owns(x, 1)
           /\ At(x, "start")'
           /\ \A y \in PeerMedia, k \in Nat : Live(y, k)' =>
                  ItemAt(y, k)' = ItemAt(y, IF y = x THEN k + 1 ELSE k)
  <1> DEFINE q == queue[x]
  <1>1. /\ q \in Seq(Item) /\ Len(q) > 0 /\ Len(Tail(q)) = Len(q) - 1
        /\ Head(q) = q[1]
        /\ \A k \in 1..Len(Tail(q)) : Tail(q)[k] = q[k + 1]
    BY WorkTyped DEF Dequeue
  <1>2. /\ work' = [work EXCEPT ![x] = [Idle EXCEPT !.at = "start", !.item = Head(queue[x])]]
        /\ queue' = [queue EXCEPT ![x] = Tail(@)]
        /\ work[x].at = "idle"
    BY DEF Dequeue, At
  <1>3. /\ work'[x].at = "start" /\ work'[x].item = q[1]
        /\ queue'[x] = Tail(q)
    BY <1>1, <1>2, IdleTyped DEF TypeOK, Idle
  <1>4. \A y \in PeerMedia : y # x => work'[y] = work[y] /\ queue'[y] = queue[y]
    BY <1>2 DEF TypeOK
  <1>5. \A k \in Nat : /\ Live(x, k)' <=> Live(x, k + 1)
                       /\ Owns(x, k)' <=> Owns(x, k + 1)
                       /\ Live(x, k + 1) => ItemAt(x, k)' = ItemAt(x, k + 1)
    <2> TAKE k \in Nat
    <2> HIDE DEF q
    <2>1. Len(q) \in Nat
      BY <1>1
    <2>2. CASE k = 0
      BY <2>2, <2>1, <1>1, <1>3 DEF Live, Owns, ItemAt, At, Doing, q
    <2>3. CASE k # 0
      BY <2>3, <2>1, <1>1, <1>3 DEF Live, Owns, ItemAt, At, Doing, q
    <2> QED BY <2>2, <2>3
  <1>6. \A y \in PeerMedia, k \in Nat : y # x =>
            Moves(y, k, k) /\ ItemAt(y, k)' = ItemAt(y, k)
    BY <1>4 DEF Moves, Live, Owns, MsgAt, DepthAt, ItemAt, At, Doing
  <1>7. ~Live(x, 0) /\ Owns(x, 1)
    BY <1>1, <1>2 DEF Live, Owns, At
  <1>8. Shift(x, 0)
    BY <1>5, <1>6 DEF Shift, Moves, MsgAt, DepthAt
  <1> QED BY <1>3, <1>5, <1>6, <1>7, <1>8 DEF At

(* Evicting the item at place i moves up those behind it.                   *)
LEMMA EvictShifts ==
    ASSUME TypeOK, WorkOK, NEW x \in PeerMedia, NEW i \in 1..Len(queue[x]),
           queue' = [queue EXCEPT ![x] = RemoveAt(@, i)], work' = work
    PROVE  /\ Shift(x, i)
           /\ Owns(x, i) /\ ItemAt(x, i) = queue[x][i]
           /\ \A y \in PeerMedia, k \in Nat : Live(y, k)' =>
                  ItemAt(y, k)' = ItemAt(y, IF y = x /\ k >= i THEN k + 1 ELSE k)
  <1> DEFINE q == queue[x]
             r == RemoveAt(q, i)
  <1>1. /\ r \in Seq(Item) /\ Len(r) = Len(q) - 1 /\ Len(q) \in Nat
        /\ \A k \in 1..Len(r) : r[k] = IF k < i THEN q[k] ELSE q[k + 1]
    BY WorkTyped, RemoveAtPositions
  <1>2. queue'[x] = r /\ \A y \in PeerMedia : y # x => queue'[y] = queue[y]
    BY DEF TypeOK
  <1> HIDE DEF r
  <1>3. \A k \in Nat :
            LET j == IF k >= i THEN k + 1 ELSE k
            IN  /\ Live(x, k)' <=> Live(x, j)
                /\ Owns(x, k)' <=> Owns(x, j)
                /\ Live(x, j) => ItemAt(x, k)' = ItemAt(x, j)
    <2> TAKE k \in Nat
    <2>1. CASE k = 0
      BY <2>1 DEF Live, Owns, ItemAt, At, Doing
    <2>2. CASE k # 0 /\ k < i
      BY <2>2, <1>1, <1>2 DEF Live, Owns, ItemAt
    <2>3. CASE k # 0 /\ k >= i
      BY <2>3, <1>1, <1>2 DEF Live, Owns, ItemAt
    <2> QED BY <2>1, <2>2, <2>3
  <1>4. \A y \in PeerMedia, k \in Nat : y # x =>
            Moves(y, k, k) /\ ItemAt(y, k)' = ItemAt(y, k)
    BY <1>2 DEF Moves, Live, Owns, MsgAt, DepthAt, ItemAt, At, Doing
  <1>5. Owns(x, i) /\ ItemAt(x, i) = queue[x][i]
    BY DEF Owns, ItemAt
  <1>6. Shift(x, i)
    BY <1>3, <1>4 DEF Shift, Moves, MsgAt, DepthAt
  <1> QED BY <1>3, <1>4, <1>5, <1>6 DEF Moves

(* Adding an item to a queue makes one place appear.                        *)
LEMMA AppendPlaces ==
    ASSUME TypeOK, NEW z \in PeerMedia, NEW i \in Item,
           NEW n \in Nat, n = Len(queue[z]) + 1,
           queue' = [queue EXCEPT ![z] = Append(@, i)]
    PROVE  Fresh(z, n, i) /\ RestRemains(z, n)
  <1> DEFINE q == queue[z]
             r == Append(q, i)
  <1>1. /\ q \in Seq(Item) /\ Len(q) \in Nat /\ n = Len(q) + 1
        /\ Len(r) = n /\ r[n] = i
        /\ \A k \in 1..Len(q) : r[k] = q[k]
    BY WorkTyped
  <1>2. queue'[z] = r /\ \A y \in PeerMedia : y # z => queue'[y] = queue[y]
    BY DEF TypeOK
  <1> HIDE DEF r, q
  <1>3. Appears(z, n, i.msg, i.depth) /\ ItemAt(z, n)' = i
    <2>1. n \in Nat /\ n # 0 /\ n \in 1..n /\ n \notin 1..Len(q)
      BY <1>1
    <2>2. ItemAt(z, n)' = i
      BY <1>1, <1>2, <2>1 DEF ItemAt
    <2>3. ~Live(z, n) /\ Live(z, n)' /\ Owns(z, n)'
      BY <1>1, <1>2, <2>1 DEF Live, Owns, q
    <2> QED BY <2>2, <2>3 DEF Appears, MsgAt, DepthAt
  <1>4. ASSUME NEW y \in PeerMedia, NEW k \in Nat, k # 0, <<y, k>> # <<z, n>>
        PROVE  /\ Moves(y, k, k)
               /\ Live(y, k) => ItemAt(y, k)' = ItemAt(y, k)
    <2>1. CASE y # z
      BY <1>2, <1>4, <2>1 DEF Moves, Live, Owns, MsgAt, DepthAt, ItemAt
    <2>2. CASE y = z
      <3>1. k \in 1..n <=> k \in 1..Len(q)
        BY <1>1, <1>4, <2>2
      <3> QED BY <1>1, <1>2, <1>4, <2>2, <3>1
              DEF Moves, Live, Owns, MsgAt, DepthAt, ItemAt, q
    <2> QED BY <2>1, <2>2
  <1> QED BY <1>3, <1>4 DEF Fresh, Remains, RestRemains

(* Submitting adds the first item of a message.                             *)
LEMMA SubmitPlaces ==
    ASSUME TypeOK, WorkOK, NEW m \in Messages, Submit(m)
    PROVE  \E z \in PeerMedia, n \in Nat :
            /\ n # 0 /\ Fresh(z, n, NewItem(m)) /\ Appears(z, n, m, 1)
            /\ \A y \in PeerMedia, k \in Nat : <<y, k>> # <<z, n>> => Remains(y, k)
  <1>1. NewItem(m) \in Item /\ NewItem(m).msg = m /\ NewItem(m).depth = 1
    BY MediaSendAssumption DEF NewItem, Item
  <1>2. PICK z \in PeerMedia, i \in Item :
            i = NewItem(m) /\ queue' = [queue EXCEPT ![z] = Append(@, i)]
    BY <1>1 DEF Submit
  <1>3. PICK n \in Nat : n = Len(queue[z]) + 1
    BY <1>2, WorkTyped
  <1> HIDE DEF NewItem
  <1>4. Fresh(z, n, i) /\ RestRemains(z, n)
    BY <1>2, <1>3, AppendPlaces
  <1>5. \A y \in PeerMedia, k \in Nat : k # 0 /\ <<y, k>> # <<z, n>> => Remains(y, k)
    BY <1>4 DEF RestRemains
  <1>6. \A y \in PeerMedia : Remains(y, 0)
    BY DEF Submit, Remains, Moves, Live, Owns, MsgAt, DepthAt, ItemAt, At, Doing
  <1>7. n # 0
    BY <1>2, <1>3, WorkTyped
  <1>8. Appears(z, n, m, 1)
    BY <1>1, <1>2, <1>4 DEF Fresh
  <1> QED BY <1>2, <1>4, <1>5, <1>6, <1>7, <1>8

(* The worker of x hands its item to place n of medium z, one deeper, and   *)
(* keeps an item whose data it does not own any more.                       *)
Handed(x, z, n) ==
    /\ Owns(x, 0) /\ Live(x, 0)' /\ ~Owns(x, 0)'
    /\ MsgAt(x, 0)' = MsgAt(x, 0) /\ DepthAt(x, 0)' = DepthAt(x, 0)
    /\ Appears(z, n, MsgAt(x, 0), DepthAt(x, 0) + 1)
    /\ \A y \in PeerMedia, k \in Nat :
           <<y, k>> # <<z, n>> /\ <<y, k>> # <<x, 0>> => Moves(y, k, k)

(* Handing an item on: the worker keeps it, and it appears on the queue of   *)
(* the medium it chose.                                                     *)
LEMMA ForwardPlaces ==
    ASSUME TypeOK, WorkOK, NEW x \in PeerMedia, Forward(x)
    PROVE  \E z \in PeerMedia, n \in Nat \ {0} :
            /\ Handed(x, z, n)
            /\ z = work[x].next
            /\ \E i \in Item : Fresh(z, n, i) /\ i.exclude = Doing(x).exclude
            /\ \A y \in PeerMedia, k \in Nat :
                   <<y, k>> # <<z, n>> /\ <<y, k>> # <<x, 0>> => Remains(y, k)
  <1> DEFINE i == [Doing(x) EXCEPT !.depth = @ + 1]
             w == [work[x] EXCEPT !.at = "marking"]
  <1>1. /\ work[x].at = "forward" /\ work[x].next \in PeerMedia /\ Doing(x) \in Item
        /\ Doing(x).depth < MaxDepth
        /\ queue' = [queue EXCEPT ![work[x].next] = Append(@, i)]
        /\ work' = [work EXCEPT ![x] = w]
    BY DEF Forward, At, Go, WorkOK
  <1>2. /\ i \in Item /\ i.msg = MsgAt(x, 0) /\ i.depth = DepthAt(x, 0) + 1
        /\ i.exclude = Doing(x).exclude
    <2>1. MsgAt(x, 0) = Doing(x).msg /\ DepthAt(x, 0) = Doing(x).depth
      BY DEF MsgAt, DepthAt, ItemAt
    <2>2. Doing(x) \in Item /\ Doing(x).depth < MaxDepth
      BY <1>1
    <2>3. /\ i \in Item /\ i.msg = Doing(x).msg /\ i.depth = Doing(x).depth + 1
          /\ i.exclude = Doing(x).exclude
      BY <2>2, MediaSendAssumption DEF Item
    <2> QED BY <2>1, <2>3
  <1>3. w.at = "marking" /\ w.item = Doing(x)
    BY WorkTyped DEF Work, Doing
  <1> HIDE DEF i, w
  <1>4. PICK z \in PeerMedia, j \in Item, n \in Nat \ {0} :
            z = work[x].next /\ j = i /\ n = Len(queue[z]) + 1
    BY <1>1, <1>2, WorkTyped
  <1>5. Fresh(z, n, j) /\ RestRemains(z, n)
    BY <1>1, <1>4, AppendPlaces
  <1>6. \A y \in PeerMedia : y # x => Remains(y, 0)
    BY <1>1 DEF Remains, Moves, Live, Owns, MsgAt, DepthAt, ItemAt, At, Doing, TypeOK
  <1>7. /\ Owns(x, 0) /\ Live(x, 0)' /\ ~Owns(x, 0)'
        /\ MsgAt(x, 0)' = MsgAt(x, 0) /\ DepthAt(x, 0)' = DepthAt(x, 0)
    BY <1>1, <1>3 DEF Live, Owns, MsgAt, DepthAt, ItemAt, At, Doing, TypeOK
  <1>8. Appears(z, n, MsgAt(x, 0), DepthAt(x, 0) + 1)
    BY <1>2, <1>4, <1>5 DEF Fresh
  <1>9. \A y \in PeerMedia, k \in Nat :
            <<y, k>> # <<z, n>> /\ <<y, k>> # <<x, 0>> => Remains(y, k)
    BY <1>5, <1>6 DEF RestRemains
  <1>10. Handed(x, z, n)
    BY <1>7, <1>8, <1>9 DEF Handed, Remains
  <1> QED BY <1>2, <1>4, <1>5, <1>9, <1>10

-----------------------------------------------------------------------------
(* The chain of the items of a message *)

(* The chain stays when every item stays, ..                                *)
LEMMA ChainStay ==
    ASSUME ChainOK, Stay
    PROVE  ChainOK'
  BY DEF ChainOK, Chain, Stay, Moves

(* .. when an item goes from its place and others move up, ..               *)
LEMMA ChainShift ==
    ASSUME ChainOK, NEW x \in PeerMedia, NEW i \in Nat, Shift(x, i)
    PROVE  ChainOK'
  <1> DEFINE Old(y, k) == IF y = x /\ k >= i THEN k + 1 ELSE k
  <1>1. \A y \in PeerMedia, k \in Nat : Old(y, k) \in Nat /\ Moves(y, Old(y, k), k)
    BY DEF Shift
  <1>2. \A y, z \in PeerMedia, j, k \in Nat :
            <<y, j>> # <<z, k>> => <<y, Old(y, j)>> # <<z, Old(z, k)>>
    OBVIOUS
  <1> HIDE DEF Old
  <1> SUFFICES ASSUME NEW y \in PeerMedia, NEW z \in PeerMedia, NEW j \in Nat, NEW k \in Nat,
                      Live(y, j)', Live(z, k)', <<y, j>> # <<z, k>>
               PROVE  Chain(y, j, z, k)'
    BY DEF ChainOK
  <1>3. Live(y, Old(y, j)) /\ Live(z, Old(z, k))
    BY <1>1 DEF Moves
  <1>4. Chain(y, Old(y, j), z, Old(z, k))
    BY <1>1, <1>2, <1>3 DEF ChainOK
  <1> QED BY <1>1, <1>3, <1>4 DEF Chain, Moves

(* .. and when a worker ends its item.                                      *)
LEMMA ChainEnd ==
    ASSUME ChainOK, NEW x \in PeerMedia, End(x)
    PROVE  ChainOK'
  <1> SUFFICES ASSUME NEW y \in PeerMedia, NEW z \in PeerMedia, NEW j \in Nat, NEW k \in Nat,
                      Live(y, j)', Live(z, k)', <<y, j>> # <<z, k>>
               PROVE  Chain(y, j, z, k)'
    BY DEF ChainOK
  <1>1. Moves(y, j, j) /\ Moves(z, k, k)
    BY DEF End
  <1>2. Chain(y, j, z, k)
    BY <1>1 DEF ChainOK, Moves
  <1> QED BY <1>1, <1>2 DEF Chain, Moves

(* A new message has no other place.                                        *)
LEMMA ChainAppears ==
    ASSUME ChainOK, NEW z \in PeerMedia, NEW n \in Nat, NEW m, NEW d, Appears(z, n, m, d),
           \A y \in PeerMedia, k \in Nat : Live(y, k) => MsgAt(y, k) # m,
           \A y \in PeerMedia, k \in Nat : <<y, k>> # <<z, n>> => Moves(y, k, k)
    PROVE  ChainOK'
  <1> SUFFICES ASSUME NEW y \in PeerMedia, NEW v \in PeerMedia, NEW j \in Nat, NEW k \in Nat,
                      Live(y, j)', Live(v, k)', <<y, j>> # <<v, k>>
               PROVE  Chain(y, j, v, k)'
    BY DEF ChainOK
  <1>1. CASE <<y, j>> # <<z, n>> /\ <<v, k>> # <<z, n>>
    BY <1>1 DEF ChainOK, Chain, Moves
  <1>2. CASE <<y, j>> = <<z, n>> \/ <<v, k>> = <<z, n>>
    BY <1>2 DEF Appears, Chain, Moves
  <1> QED BY <1>1, <1>2

(* An item that is handed on is one deeper than the one it was made from,   *)
(* which was the deepest.                                                   *)
LEMMA ChainForward ==
    ASSUME TypeOK, WorkOK, ChainOK,
           NEW x \in PeerMedia, NEW z \in PeerMedia, NEW n \in Nat \ {0},
           Owns(x, 0), Live(x, 0)', ~Owns(x, 0)',
           MsgAt(x, 0)' = MsgAt(x, 0), DepthAt(x, 0)' = DepthAt(x, 0),
           Appears(z, n, MsgAt(x, 0), DepthAt(x, 0) + 1),
           \A y \in PeerMedia, k \in Nat :
               <<y, k>> # <<z, n>> /\ <<y, k>> # <<x, 0>> => Moves(y, k, k)
    PROVE  ChainOK'
  <1> SUFFICES ASSUME NEW y \in PeerMedia, NEW v \in PeerMedia, NEW j \in Nat, NEW k \in Nat,
                      Live(y, j)', Live(v, k)', <<y, j>> # <<v, k>>
               PROVE  Chain(y, j, v, k)'
    BY DEF ChainOK
  <1>1. /\ Live(x, 0) /\ DepthAt(x, 0) \in Int
        /\ \A w \in PeerMedia, i \in Nat : Live(w, i) => DepthAt(w, i) \in Int
    BY LiveItems
  <1>2. \A w \in PeerMedia, i \in Nat :
            /\ Live(w, i) /\ <<w, i>> # <<x, 0>> /\ MsgAt(w, i) = MsgAt(x, 0)
            => DepthAt(w, i) < DepthAt(x, 0) /\ ~Owns(w, i)
    BY <1>1 DEF ChainOK, Chain
  <1>3. \A w \in PeerMedia, i \in Nat :
            /\ Live(w, i)' /\ <<w, i>> # <<z, n>>
            => /\ Live(w, i)
               /\ MsgAt(w, i)' = MsgAt(w, i) /\ DepthAt(w, i)' = DepthAt(w, i)
               /\ Owns(w, i)' => Owns(w, i) /\ <<w, i>> # <<x, 0>>
    BY <1>1 DEF Moves
  <1>4. CASE <<y, j>> # <<z, n>> /\ <<v, k>> # <<z, n>>
    BY <1>3, <1>4 DEF ChainOK, Chain
  <1>5. CASE <<y, j>> = <<z, n>>
    <2>1. MsgAt(v, k)' = MsgAt(x, 0) => DepthAt(v, k)' <= DepthAt(x, 0) /\ DepthAt(v, k)' \in Int
      BY <1>1, <1>2, <1>3, <1>5
    <2> QED BY <1>1, <1>5, <2>1 DEF Chain, Appears
  <1>6. CASE <<v, k>> = <<z, n>>
    <2>1. MsgAt(y, j)' = MsgAt(x, 0) =>
              DepthAt(y, j)' <= DepthAt(x, 0) /\ DepthAt(y, j)' \in Int /\ ~Owns(y, j)'
      BY <1>1, <1>2, <1>3, <1>6
    <2> QED BY <1>1, <1>6, <2>1 DEF Chain, Appears
  <1> QED BY <1>4, <1>5, <1>6

-----------------------------------------------------------------------------
(* Who owns the data of a message *)

OwnedBut(m, x, i) ==
    \E y \in PeerMedia, k \in Nat : <<y, k>> # <<x, i>> /\ Owns(y, k) /\ MsgAt(y, k) = m

(* Who is owned, when every item stays, ..                                  *)
LEMMA OwnedStay ==
    ASSUME TypeOK, WorkOK, Stay
    PROVE  \A m \in Messages : Owned(m)' <=> Owned(m)
  BY LiveItems DEF Stay, Moves, Owned

(* .. when one goes from its place, ..                                      *)
LEMMA OwnedShift ==
    ASSUME TypeOK, WorkOK, NEW x \in PeerMedia, NEW i \in Nat, Shift(x, i)
    PROVE  \A m \in Messages : Owned(m)' <=> OwnedBut(m, x, i)
  <1> TAKE m \in Messages
  <1>1. ASSUME Owned(m)'
        PROVE  OwnedBut(m, x, i)
    <2>1. PICK y \in PeerMedia, k \in Nat : Owns(y, k)' /\ MsgAt(y, k)' = m
      BY <1>1 DEF Owned
    <2>2. PICK j \in Nat : <<y, j>> # <<x, i>> /\ Moves(y, j, k)
      <3>1. Moves(y, IF y = x /\ k >= i THEN k + 1 ELSE k, k)
        BY DEF Shift
      <3>2. CASE y = x /\ k >= i
        BY <3>1, <3>2
      <3>3. CASE ~(y = x /\ k >= i)
        BY <3>1, <3>3
      <3> QED BY <3>2, <3>3
    <2> QED BY <2>1, <2>2, LiveItems DEF OwnedBut, Moves
  <1>2. ASSUME OwnedBut(m, x, i)
        PROVE  Owned(m)'
    <2>1. PICK y \in PeerMedia, k \in Nat :
            <<y, k>> # <<x, i>> /\ Owns(y, k) /\ MsgAt(y, k) = m
      BY <1>2 DEF OwnedBut
    <2>2. PICK j \in Nat : Moves(y, k, j)
      <3>1. CASE y = x /\ k > i
        <4>1. k - 1 \in Nat /\ k - 1 >= i /\ (k - 1) + 1 = k
          BY <3>1
        <4>2. Moves(y, (k - 1) + 1, k - 1)
          BY <3>1, <4>1 DEF Shift
        <4> QED BY <4>1, <4>2
      <3>2. CASE ~(y = x /\ k >= i)
        BY <3>2 DEF Shift
      <3> QED BY <2>1, <3>1, <3>2
    <2> QED BY <2>1, <2>2, LiveItems DEF Owned, Moves
  <1> QED BY <1>1, <1>2

(* .. when a worker ends its item, ..                                       *)
LEMMA OwnedEnd ==
    ASSUME TypeOK, WorkOK, NEW x \in PeerMedia, End(x)
    PROVE  \A m \in Messages : Owned(m)' <=> OwnedBut(m, x, 0)
  BY LiveItems DEF End, Moves, Owned, OwnedBut

(* .. and when a new item is queued.                                        *)
LEMMA OwnedAppears ==
    ASSUME TypeOK, WorkOK, NEW z \in PeerMedia, NEW n \in Nat, NEW m, NEW d,
           Appears(z, n, m, d),
           \A y \in PeerMedia, k \in Nat : <<y, k>> # <<z, n>> => Moves(y, k, k)
    PROVE  \A q \in Messages : Owned(q)' <=> Owned(q) \/ q = m
  BY LiveItems DEF Appears, Moves, Owned

(* A message is owned at one place only.                                    *)
LEMMA SoleOwner ==
    ASSUME TypeOK, WorkOK, ChainOK, NEW x \in PeerMedia, NEW i \in Nat
    PROVE  /\ Owns(x, i) => ~OwnedBut(MsgAt(x, i), x, i)
           /\ \A m \in Messages : ~Owns(x, i) \/ MsgAt(x, i) # m =>
                  (OwnedBut(m, x, i) <=> Owned(m))
  <1>1. ASSUME Owns(x, i), NEW y \in PeerMedia, NEW k \in Nat, <<y, k>> # <<x, i>>,
               Owns(y, k), MsgAt(y, k) = MsgAt(x, i)
        PROVE  FALSE
    <2>1. /\ Live(x, i) /\ DepthAt(x, i) \in Int
          /\ Live(y, k) /\ DepthAt(y, k) \in Int
      BY <1>1, LiveItems
    <2>2. DepthAt(y, k) < DepthAt(x, i) /\ DepthAt(x, i) < DepthAt(y, k)
      BY <1>1, <2>1 DEF ChainOK, Chain
    <2> QED BY <2>1, <2>2
  <1>2. Owns(x, i) => ~OwnedBut(MsgAt(x, i), x, i)
    BY <1>1 DEF OwnedBut
  <1>3. \A m \in Messages : ~Owns(x, i) \/ MsgAt(x, i) # m =>
            (OwnedBut(m, x, i) <=> Owned(m))
    BY DEF OwnedBut, Owned
  <1> QED BY <1>2, <1>3

(* When the item of an owner goes, its message is freed.                    *)
LEMMA FreedRemoval ==
    ASSUME TypeOK, WorkOK, NewOK, FreedOK, ChainOK, NEW x \in PeerMedia, NEW i \in Nat,
           \A m \in Messages : Owned(m)' <=> OwnedBut(m, x, i),
           pc' = pc,
           \/ Owns(x, i) /\ FreeData(MsgAt(x, i))
           \/ ~Owns(x, i) /\ frees' = frees
    PROVE  FreedOK'
  <1> SUFFICES ASSUME NEW m \in Messages, pc[m] # "new"
               PROVE  frees'[m] = IF Owned(m)' THEN 0 ELSE 1
    BY DEF FreedOK
  <1>1. CASE Owns(x, i) /\ FreeData(MsgAt(x, i)) /\ MsgAt(x, i) = m
    <2>1. Owned(m) /\ ~Owned(m)'
      BY <1>1, SoleOwner DEF Owned
    <2>2. frees[m] = 0
      BY <2>1 DEF FreedOK
    <2> QED BY <1>1, <2>1, <2>2 DEF FreeData, TypeOK
  <1>2. CASE Owns(x, i) /\ FreeData(MsgAt(x, i)) /\ MsgAt(x, i) # m
    <2>1. Owned(m)' <=> Owned(m)
      BY <1>2, SoleOwner
    <2> QED BY <1>2, <2>1 DEF FreeData, TypeOK, FreedOK
  <1>3. CASE ~Owns(x, i) /\ frees' = frees
    BY <1>3, SoleOwner DEF FreedOK
  <1> QED BY <1>1, <1>2, <1>3

(* A message that was not submitted yet stays as it is.                     *)
LEMMA NewKept ==
    ASSUME NewOK, pc' = pc,
           \A y \in PeerMedia, k \in Nat : Live(y, k)' =>
               \E z \in PeerMedia, j \in Nat : Live(z, j) /\ MsgAt(z, j) = MsgAt(y, k)',
           \A m \in Messages :
               \/ frees'[m] = frees[m] /\ told'[m] = told[m] /\ tried'[m] = tried[m]
               \/ \E z \in PeerMedia, j \in Nat : Live(z, j) /\ MsgAt(z, j) = m
    PROVE  NewOK'
  BY DEF NewOK

(* Sending, marking and choosing change nothing about who owns what.        *)
LEMMA OwnStay ==
    ASSUME TypeOK, WorkOK, OwnOK, Stay, pc' = pc, frees' = frees, told' = told,
           \A m \in Messages : tried'[m] = tried[m]
               \/ \E z \in PeerMedia, j \in Nat : Live(z, j) /\ MsgAt(z, j) = m
    PROVE  OwnOK'
  <1>1. \A y \in PeerMedia, k \in Nat : Live(y, k)' => Live(y, k) /\ MsgAt(y, k) = MsgAt(y, k)'
    BY DEF Stay, Moves
  <1>2. NewOK'
    BY <1>1, NewKept DEF OwnOK
  <1>3. FreedOK'
    BY OwnedStay DEF OwnOK, FreedOK
  <1> QED BY <1>2, <1>3, ChainStay DEF OwnOK

(* An item goes from its place, with its data or without.                   *)
LEMMA OwnRemoval ==
    ASSUME TypeOK, WorkOK, OwnOK, NEW x \in PeerMedia, NEW i \in Nat,
           Shift(x, i) \/ (i = 0 /\ End(x)),
           pc' = pc, tried' = tried,
           \/ Owns(x, i) /\ FreeData(MsgAt(x, i))
           \/ ~Owns(x, i) /\ frees' = frees,
           told' = told \/ (Live(x, i) /\ \A m \in Messages : 
                                m # MsgAt(x, i) => told'[m] = told[m])
    PROVE  OwnOK'
  <1>1. \A m \in Messages : Owned(m)' <=> OwnedBut(m, x, i)
    BY OwnedShift, OwnedEnd
  <1>2. FreedOK'
    BY <1>1, FreedRemoval DEF OwnOK
  <1>3. ChainOK'
    BY ChainShift, ChainEnd DEF OwnOK
  <1>4. \A y \in PeerMedia, k \in Nat : Live(y, k)' =>
            \E z \in PeerMedia, j \in Nat : Live(z, j) /\ MsgAt(z, j) = MsgAt(y, k)'
    <2> SUFFICES ASSUME NEW y \in PeerMedia, NEW k \in Nat, Live(y, k)'
                 PROVE  \E j \in Nat : Live(y, j) /\ MsgAt(y, j) = MsgAt(y, k)'
      OBVIOUS
    <2>1. \E j \in Nat : Moves(y, j, k)
      <3>1. CASE Shift(x, i)
        <4>1. Moves(y, IF y = x /\ k >= i THEN k + 1 ELSE k, k)
          BY <3>1 DEF Shift
        <4>2. (IF y = x /\ k >= i THEN k + 1 ELSE k) \in Nat
          OBVIOUS
        <4> QED BY <4>1, <4>2
      <3>2. CASE End(x)
        BY <3>2 DEF End
      <3> QED BY <3>1, <3>2
    <2> QED BY <2>1 DEF Moves
  <1>5. \A m \in Messages :
            \/ frees'[m] = frees[m] /\ told'[m] = told[m] /\ tried'[m] = tried[m]
            \/ \E z \in PeerMedia, j \in Nat : Live(z, j) /\ MsgAt(z, j) = m
    <2> TAKE m \in Messages
    <2>1. CASE Live(x, i) /\ MsgAt(x, i) = m
      BY <2>1
    <2>2. CASE ~Live(x, i) \/ MsgAt(x, i) # m
      <3>1. frees'[m] = frees[m]
        BY <2>2, LiveItems DEF FreeData, TypeOK
      <3> QED BY <3>1, <2>2
    <2> QED BY <2>1, <2>2
  <1>6. NewOK'
    BY <1>4, <1>5, NewKept DEF OwnOK
  <1> QED BY <1>2, <1>3, <1>6 DEF OwnOK

(* A result concerns only the message of its item.                          *)
LEMMA ResultFacts ==
    ASSUME TypeOK, NEW i \in Item, NEW ok \in BOOLEAN, Result(i, ok)
    PROVE  /\ \A m \in Messages : m # i.msg => told'[m] = told[m]
           /\ i.depth # 1 => told' = told
           /\ i.depth = 1 => told'[i.msg] = IF ok THEN "ok" ELSE "failed"
           /\ i.depth = 1 => told' = [told EXCEPT ![i.msg] = IF ok THEN "ok" ELSE "failed"]
           /\ \A m \in Messages, d \in 1..MaxDepth :
                  /\ cell'[m][d] = "SUCCEEDED"
                  => cell[m][d] = "SUCCEEDED" \/ (m = i.msg /\ ok)
  <1>1. i.msg \in Messages
    BY DEF Item
  <1>2. \A m \in Messages, d \in 1..MaxDepth :
                  /\ cell'[m][d] = "SUCCEEDED"
                  => cell[m][d] = "SUCCEEDED" \/ (m = i.msg /\ ok)
    BY DEF Result, SetCell, TypeOK
  <1> QED BY <1>1, <1>2 DEF Result, TypeOK

(* At every step the data of a message has one owner, or is freed.          *)
LEMMA OwnStep ==
    ASSUME TypeOK, WorkOK, OwnOK, [Next]_vars
    PROVE  OwnOK'
  <1>1. ASSUME NEW m \in Messages, Submit(m)
        PROVE  OwnOK'
    <2>4. PICK z \in PeerMedia, n \in Nat :
            /\ Appears(z, n, m, 1)
            /\ \A y \in PeerMedia, k \in Nat : <<y, k>> # <<z, n>> => Moves(y, k, k)
      BY <1>1, SubmitPlaces DEF Remains
    <2>5. /\ pc[m] = "new" /\ frees' = frees /\ told' = told /\ tried' = tried
          /\ pc' = [pc EXCEPT ![m] = "marking"]
      BY <1>1 DEF Submit
    <2>6. ChainOK'
      BY <2>4, <2>5, ChainAppears DEF OwnOK, NewOK
    <2>7. FreedOK'
      <3> SUFFICES ASSUME NEW q \in Messages, pc'[q] # "new"
                   PROVE  frees'[q] = IF Owned(q)' THEN 0 ELSE 1
        BY DEF FreedOK
      <3>1. Owned(q)' <=> Owned(q) \/ q = m
        BY <2>4, OwnedAppears
      <3>2. CASE q = m
        BY <3>1, <3>2, <2>5 DEF OwnOK, NewOK
      <3>3. CASE q # m
        BY <3>1, <3>3, <2>5 DEF OwnOK, FreedOK, TypeOK
      <3> QED BY <3>2, <3>3
    <2>8. NewOK'
      <3> SUFFICES ASSUME NEW q \in Messages, pc'[q] = "new"
                   PROVE  /\ frees'[q] = 0 /\ told'[q] = "none" /\ tried'[q] = {}
                          /\ \A y \in PeerMedia, k \in Nat : Live(y, k)' => MsgAt(y, k)' # q
        BY DEF NewOK
      <3>1. q # m /\ pc[q] = "new"
        BY <2>5 DEF TypeOK
      <3> QED BY <3>1, <2>4, <2>5 DEF OwnOK, NewOK, Appears, Moves
    <2> QED BY <2>6, <2>7, <2>8 DEF OwnOK
  <1>2. ASSUME NEW m \in Messages, SubmitFails(m)
        PROVE  OwnOK'
    <2>1. Stay
      BY <1>2, SamePlaces DEF SubmitFails
    <2>2. /\ pc[m] = "new" /\ pc' = [pc EXCEPT ![m] = "done"]
          /\ FreeData(m) /\ tried' = tried /\ Result(NewItem(m), FALSE)
      BY <1>2 DEF SubmitFails
    <2> NewItem(m) \in Item /\ NewItem(m).msg = m
      BY MediaSendAssumption DEF NewItem, Item
    <2>3. /\ \A q \in Messages : q # m =>
                  pc'[q] = pc[q] /\ frees'[q] = frees[q] /\ told'[q] = told[q]
          /\ pc'[m] = "done" /\ frees'[m] = 1
      <3>1. \A q \in Messages : q # m => told'[q] = told[q]
        BY <2>2, ResultFacts
      <3>2. frees[m] = 0
        BY <2>2 DEF OwnOK, NewOK
      <3> QED BY <2>2, <3>1, <3>2 DEF FreeData, TypeOK
    <2>4. ~Owned(m)
      BY <2>2, LiveItems DEF OwnOK, NewOK, Owned
    <2>5. FreedOK'
      BY <2>1, <2>3, <2>4, OwnedStay DEF OwnOK, FreedOK
    <2>6. NewOK'
      BY <2>1, <2>2, <2>3 DEF OwnOK, NewOK, Stay, Moves
    <2> QED BY <2>1, <2>5, <2>6, ChainStay DEF OwnOK
  <1>3. ASSUME NEW m \in Messages, Mark(m)
        PROVE  OwnOK'
    <2>1. Stay
      BY <1>3, SamePlaces DEF Mark
    <2>2. /\ frees' = frees /\ told' = told /\ tried' = tried
          /\ \A q \in Messages : pc'[q] = "new" <=> pc[q] = "new"
      BY <1>3 DEF Mark, TypeOK
    <2>3. FreedOK'
      BY <2>1, <2>2, OwnedStay DEF OwnOK, FreedOK
    <2>4. NewOK'
      BY <2>1, <2>2 DEF OwnOK, NewOK, Stay, Moves
    <2> QED BY <2>1, <2>3, <2>4, ChainStay DEF OwnOK
  <1>4. ASSUME NEW x \in PeerMedia, Dequeue(x)
        PROVE  OwnOK'
    <2>1. Shift(x, 0) /\ ~Live(x, 0)
      BY <1>4, DequeueShifts
    <2> QED BY <1>4, <2>1, OwnRemoval, LiveItems DEF Dequeue
  <1>5. ASSUME NEW x \in PeerMedia, Begin(x)
        PROVE  OwnOK'
    <2>1. /\ pc' = pc /\ frees' = frees /\ told' = told
          /\ \A m \in Messages : tried'[m] = tried[m] \/ m = Doing(x).msg
      BY <1>5 DEF Begin, TypeOK
    <2>2. Live(x, 0) /\ MsgAt(x, 0) = Doing(x).msg
      BY <1>5 DEF Begin, Live, MsgAt, ItemAt, At
    <2> QED BY <1>5, <2>1, <2>2, OwnStay, StayStep
  <1>6. ASSUME NEW x \in PeerMedia, Attempt(x) \/ MarkChild(x) \/ Choose(x)
        PROVE  OwnOK'
    <2>1. pc' = pc /\ frees' = frees /\ told' = told
      BY <1>6 DEF Attempt, MarkChild, Choose
    <2>2. tried' = tried
      BY <1>6 DEF Attempt, MarkChild, Choose
    <2> QED BY <1>6, <2>1, <2>2, OwnStay, StayStep
  <1>7. ASSUME NEW x \in PeerMedia,
               Conclude(x) \/ NoOther(x) \/ ForwardRefused(x) \/ ChildSeen(x) \/ ChildTimesOut(x)
        PROVE  OwnOK'
    <2>1. /\ EndItem(x) /\ queue' = queue /\ pc' = pc /\ tried' = tried
          /\ work[x].at \in {"sent", "forward", "waiting"}
          /\ IF work[x].at = "waiting" THEN frees' = frees ELSE FreeData(Doing(x).msg)
      BY <1>7 DEF Conclude, NoOther, ForwardRefused, ChildSeen, ChildTimesOut, At
    <2>2. \E ok \in BOOLEAN : Result(Doing(x), ok)
      BY <1>7 DEF Conclude, NoOther, ForwardRefused, ChildSeen, ChildTimesOut
    <2>3. /\ Live(x, 0) /\ MsgAt(x, 0) = Doing(x).msg /\ Doing(x) \in Item
          /\ Owns(x, 0) <=> work[x].at # "waiting"
      BY <2>1 DEF Live, Owns, MsgAt, ItemAt, At, WorkOK
    <2>4. \A m \in Messages : m # MsgAt(x, 0) => told'[m] = told[m]
      BY <2>2, <2>3, ResultFacts
    <2>5. End(x)
      BY <2>1, EndPlaces
    <2> QED BY <2>1, <2>3, <2>4, <2>5, OwnRemoval
  <1>8. ASSUME NEW x \in PeerMedia, Forward(x)
        PROVE  OwnOK'
    <2>1. pc' = pc /\ frees' = frees /\ told' = told /\ tried' = tried
      BY <1>8 DEF Forward
    <2>5. PICK v \in PeerMedia, n \in Nat \ {0} : Handed(x, v, n)
      BY <1>8, ForwardPlaces
    <2>6. Appears(v, n, MsgAt(x, 0), DepthAt(x, 0) + 1)
      BY <2>5 DEF Handed
    <2>8. /\ Owns(x, 0) /\ Live(x, 0)' /\ ~Owns(x, 0)'
          /\ MsgAt(x, 0)' = MsgAt(x, 0) /\ DepthAt(x, 0)' = DepthAt(x, 0)
      BY <2>5 DEF Handed
    <2>9. \A y \in PeerMedia, k \in Nat :
              <<y, k>> # <<v, n>> /\ <<y, k>> # <<x, 0>> => Moves(y, k, k)
      BY <2>5 DEF Handed
    <2>10. ChainOK'
      BY <2>5, <2>6, <2>8, <2>9, ChainForward DEF OwnOK
    <2>11. \A m \in Messages : Owned(m)' <=> Owned(m)
      BY <2>5, <2>6, <2>8, <2>9, LiveItems DEF Owned, Moves, Appears
    <2>12. \A y \in PeerMedia, k \in Nat : Live(y, k)' =>
               \E u \in PeerMedia, j \in Nat : Live(u, j) /\ MsgAt(u, j) = MsgAt(y, k)'
      BY <2>6, <2>8, <2>9, LiveItems DEF Moves, Appears
    <2>13. NewOK' /\ FreedOK'
      BY <2>1, <2>11, <2>12, NewKept DEF OwnOK, FreedOK
    <2> QED BY <2>10, <2>13 DEF OwnOK
  <1>9. ASSUME NEW x \in PeerMedia, Evict(x)
        PROVE  OwnOK'
    <2>1. PICK k \in 1..Len(queue[x]) :
            /\ Result(queue[x][k], FALSE)
            /\ FreeData(queue[x][k].msg)
            /\ queue' = [queue EXCEPT ![x] = RemoveAt(@, k)]
            /\ work' = work /\ pc' = pc /\ tried' = tried
      BY <1>9 DEF Evict
    <2>2. Shift(x, k) /\ Owns(x, k) /\ ItemAt(x, k) = queue[x][k]
      BY <2>1, EvictShifts
    <2>3. k \in Nat /\ Live(x, k) /\ queue[x][k] \in Item
      BY <2>2, LiveItems, WorkTyped, ElementOfSeq
    <2>4. \A m \in Messages : m # MsgAt(x, k) => told'[m] = told[m]
      <3>1. PICK i \in Item : i = queue[x][k]
        BY <2>3
      <3>2. \A m \in Messages : m # i.msg => told'[m] = told[m]
        BY <2>1, <3>1, ResultFacts
      <3> QED BY <2>2, <3>1, <3>2 DEF MsgAt
    <2>5. FreeData(MsgAt(x, k))
      BY <2>1, <2>2 DEF MsgAt
    <2> QED BY <2>1, <2>2, <2>3, <2>4, <2>5, OwnRemoval
  <1>10. ASSUME (\E x \in PeerMedia : QosChanges(x)) \/ UNCHANGED vars
         PROVE  OwnOK'
    <2>1. /\ Stay /\ pc' = pc /\ frees' = frees /\ told' = told
          /\ tried' = tried
      BY <1>10, SamePlaces DEF QosChanges, vars
    <2> QED BY <2>1, OwnStay
  <1> QED BY <1>1, <1>2, <1>3, <1>4, <1>5, <1>6, <1>7, <1>8, <1>9, <1>10
          DEF Next, Sender, Worker

-----------------------------------------------------------------------------
(* Verdicts *)

(* When an item goes, only its own message may get a verdict.               *)
LEMMA VerdictRemoval ==
    ASSUME TypeOK, WorkOK, OwnOK, VerdictOK, NEW x \in PeerMedia, NEW i \in Nat,
           Shift(x, i) \/ (i = 0 /\ End(x)),
           \/ told' = told
           \/ \E ok \in BOOLEAN : Live(x, i) /\ Result(ItemAt(x, i), ok)
    PROVE  VerdictOK'
  <1> SUFFICES ASSUME NEW y \in PeerMedia, NEW k \in Nat, Live(y, k)', DepthAt(y, k)' = 1
               PROVE  told'[MsgAt(y, k)'] = "none"
    BY DEF VerdictOK
  <1>1. PICK j \in Nat : Moves(y, j, k) /\ <<y, j>> # <<x, i>>
    <2>1. CASE Shift(x, i)
      <3>1. Moves(y, IF y = x /\ k >= i THEN k + 1 ELSE k, k)
        BY <2>1 DEF Shift
      <3>2. CASE y = x /\ k >= i
        BY <3>1, <3>2
      <3>3. CASE ~(y = x /\ k >= i)
        BY <3>1, <3>3
      <3> QED BY <3>2, <3>3
    <2>2. CASE i = 0 /\ End(x)
      BY <2>2 DEF End
    <2> QED BY <2>1, <2>2
  <1>2. Live(y, j) /\ MsgAt(y, k)' = MsgAt(y, j) /\ DepthAt(y, j) = 1
    BY <1>1 DEF Moves
  <1>3. told[MsgAt(y, j)] = "none" /\ MsgAt(y, j) \in Messages
    BY <1>2, LiveItems DEF VerdictOK
  <1>4. CASE told' = told
    BY <1>2, <1>3, <1>4
  <1>5. CASE \E ok \in BOOLEAN : Live(x, i) /\ Result(ItemAt(x, i), ok)
    <2>1. PICK ok \in BOOLEAN, it \in Item :
            Live(x, i) /\ it = ItemAt(x, i) /\ Result(it, ok)
      BY <1>5, LiveItems
    <2>2. it.msg = MsgAt(x, i) /\ it.depth = DepthAt(x, i)
      BY <2>1 DEF MsgAt, DepthAt
    <2>3. MsgAt(y, j) # it.msg \/ it.depth # 1
      BY <1>1, <1>2, <2>1, <2>2 DEF OwnOK, ChainOK, Chain
    <2>4. told'[MsgAt(y, j)] = told[MsgAt(y, j)]
      BY <1>3, <2>1, <2>3, ResultFacts
    <2> QED BY <1>2, <1>3, <2>4
  <1> QED BY <1>4, <1>5

(* No message has a verdict while its first item is alive.                  *)
LEMMA VerdictStep ==
    ASSUME TypeOK, WorkOK, OwnOK, VerdictOK, [Next]_vars
    PROVE  VerdictOK'
  <1>1. ASSUME NEW m \in Messages, Submit(m)
        PROVE  VerdictOK'
    <2>1. PICK z \in PeerMedia, n \in Nat :
            /\ Appears(z, n, m, 1)
            /\ \A y \in PeerMedia, k \in Nat : <<y, k>> # <<z, n>> => Remains(y, k)
      BY <1>1, SubmitPlaces
    <2>2. told' = told /\ told[m] = "none"
      BY <1>1 DEF Submit, OwnOK, NewOK
    <2> QED BY <2>1, <2>2 DEF VerdictOK, Appears, Remains, Moves
  <1>2. ASSUME NEW m \in Messages, SubmitFails(m)
        PROVE  VerdictOK'
    <2>1. Stay
      BY <1>2, SamePlaces DEF SubmitFails
    <2>2. Result(NewItem(m), FALSE) /\ pc[m] = "new"
      BY <1>2 DEF SubmitFails
    <2>3. PICK i \in Item : i = NewItem(m) /\ i.msg = m
      <3>1. NewItem(m) \in Item /\ NewItem(m).msg = m
        BY MediaSendAssumption DEF NewItem, Item
      <3> QED BY <3>1
    <2>4. \A q \in Messages : q # m => told'[q] = told[q]
      BY <2>2, <2>3, ResultFacts
    <2>5. \A y \in PeerMedia, k \in Nat : Live(y, k) => MsgAt(y, k) # m
      BY <2>2 DEF OwnOK, NewOK
    <2> QED BY <2>1, <2>4, <2>5, LiveItems DEF VerdictOK, Stay, Moves
  <1>3. ASSUME NEW x \in PeerMedia, Dequeue(x)
        PROVE  VerdictOK'
    <2>1. Shift(x, 0) /\ told' = told
      BY <1>3, DequeueShifts DEF Dequeue
    <2> QED BY <2>1, VerdictRemoval
  <1>4. ASSUME NEW x \in PeerMedia,
               Conclude(x) \/ NoOther(x) \/ ForwardRefused(x) \/ ChildSeen(x) \/ ChildTimesOut(x)
        PROVE  VerdictOK'
    <2>1. /\ EndItem(x) /\ queue' = queue /\ Live(x, 0) /\ ItemAt(x, 0) = Doing(x)
      BY <1>4 DEF Conclude, NoOther, ForwardRefused, ChildSeen, ChildTimesOut, At, Live, ItemAt
    <2>2. \E ok \in BOOLEAN : Result(Doing(x), ok)
      BY <1>4 DEF Conclude, NoOther, ForwardRefused, ChildSeen, ChildTimesOut
    <2> QED BY <2>1, <2>2, EndPlaces, VerdictRemoval
  <1>5. ASSUME NEW x \in PeerMedia, Forward(x)
        PROVE  VerdictOK'
    <2>1. PICK z \in PeerMedia, n \in Nat \ {0} : Handed(x, z, n)
      BY <1>5, ForwardPlaces
    <2>2. told' = told
      BY <1>5 DEF Forward
    <2>3. DepthAt(z, n)' # 1
      BY <2>1, LiveItems DEF Handed, Appears
    <2> QED BY <2>1, <2>2, <2>3, LiveItems DEF VerdictOK, Handed, Moves
  <1>6. ASSUME NEW x \in PeerMedia, Evict(x)
        PROVE  VerdictOK'
    <2>1. PICK k \in 1..Len(queue[x]) :
            /\ Result(queue[x][k], FALSE)
            /\ queue' = [queue EXCEPT ![x] = RemoveAt(@, k)] /\ work' = work
      BY <1>6 DEF Evict
    <2>2. Shift(x, k) /\ Owns(x, k) /\ ItemAt(x, k) = queue[x][k]
      BY <2>1, EvictShifts
    <2>3. k \in Nat
      BY WorkTyped
    <2>4. Live(x, k) /\ Result(ItemAt(x, k), FALSE)
      BY <2>1, <2>2, <2>3, LiveItems
    <2> QED BY <2>2, <2>3, <2>4, VerdictRemoval
  <1>7. ASSUME \/ \E m \in Messages : Mark(m)
               \/ \E x \in PeerMedia : Begin(x) \/ Attempt(x) \/ MarkChild(x) \/ Choose(x)
               \/ \E x \in PeerMedia : QosChanges(x)
               \/ UNCHANGED vars
        PROVE  VerdictOK'
    <2>1. Stay
      BY <1>7, SamePlaces, StayStep DEF Mark, QosChanges, vars
    <2>2. told' = told
      BY <1>7 DEF Mark, Begin, Attempt, MarkChild, Choose, QosChanges, vars
    <2> QED BY <2>1, <2>2 DEF VerdictOK, Stay, Moves
  <1> QED BY <1>1, <1>2, <1>3, <1>4, <1>5, <1>6, <1>7 DEF Next, Sender, Worker

(* What counts as sent has reached the peer.                                *)
LEMMA SentStep ==
    ASSUME TypeOK, WorkOK, SentOK, [Next]_vars
    PROVE  SentOK'
  <1>1. ASSUME reached \subseteq reached', NEW x \in PeerMedia, NEW w,
               work' = [work EXCEPT ![x] = w],
               w.at = "start" => w.retval = "fail",
               w.at = "sent" /\ w.retval = "ok" => w.item.msg \in reached'
        PROVE  SentOK'
    BY <1>1 DEF SentOK, At, Doing, TypeOK
  <1>2. ASSUME reached' = reached, work' = work
        PROVE  SentOK'
    BY <1>2 DEF SentOK, At, Doing
  <1>3. ASSUME NEW x \in PeerMedia, Dequeue(x)
        PROVE  SentOK'
    <2>1. PICK w : /\ work' = [work EXCEPT ![x] = w] /\ reached' = reached
                   /\ w.at = "start" /\ w.retval = "fail"
      <3> WITNESS [Idle EXCEPT !.at = "start", !.item = Head(queue[x])]
      <3> QED BY <1>3 DEF Dequeue, Idle
    <2> QED BY <1>1, <2>1
  <1>4. ASSUME NEW x \in PeerMedia, NEW place \in Places \ {"start"}, Go(x, place),
               place = "sent" => At(x, "start"), reached' = reached
        PROVE  SentOK'
    <2> DEFINE w == [work[x] EXCEPT !.at = place]
    <2>1. w.at = place /\ w.retval = work[x].retval
      BY WorkTyped DEF Work
    <2>2. work' = [work EXCEPT ![x] = w]
      BY <1>4 DEF Go
    <2> HIDE DEF w
    <2> QED BY <1>1, <1>4, <2>1, <2>2 DEF SentOK
  <1>5. ASSUME NEW x \in PeerMedia, Begin(x) \/ Forward(x) \/ MarkChild(x)
        PROVE  SentOK'
    BY <1>4, <1>5 DEF Begin, Forward, MarkChild, Places
  <1>6. ASSUME NEW x \in PeerMedia, Attempt(x)
        PROVE  SentOK'
    <2>1. PICK out \in {"ok", "fail", "who"} :
            /\ reached' \in {r \in {reached, reached \cup {Doing(x).msg}} :
                                out = "ok" => Doing(x).msg \in r}
            /\ work' = IF Again(x, out)
                   THEN [work EXCEPT ![x].retval = out, ![x].tries = @ + 1]
                   ELSE [work EXCEPT ![x].retval = out, ![x].tries = 0, ![x].at = "sent"]
            /\ work[x].at = "sending"
      BY <1>6 DEF Attempt, At
    <2>2. reached \subseteq reached'
      BY <2>1
    <2>3. CASE Again(x, out)
      <3> DEFINE w == [work[x] EXCEPT !.retval = out, !.tries = @ + 1]
      <3>1. w.at = "sending"
        BY <2>1, WorkTyped DEF Work
      <3>2. work' = [work EXCEPT ![x] = w]
        BY <2>1, <2>3, WorkTyped DEF TypeOK
      <3> HIDE DEF w
      <3> QED BY <1>1, <2>2, <3>1, <3>2
    <2>4. CASE ~Again(x, out)
      <3> DEFINE w == [work[x] EXCEPT !.retval = out, !.tries = 0, !.at = "sent"]
      <3>1. w.at = "sent" /\ w.retval = out /\ w.item = Doing(x)
        BY <2>1, WorkTyped DEF Work, Doing
      <3>2. work' = [work EXCEPT ![x] = w]
        BY <2>1, <2>4, WorkTyped DEF TypeOK
      <3> HIDE DEF w
      <3>3. out = "ok" => Doing(x).msg \in reached'
        BY <2>1
      <3> QED BY <1>1, <2>2, <3>1, <3>2, <3>3
    <2> QED BY <2>3, <2>4
  <1>7. ASSUME NEW x \in PeerMedia, Choose(x)
        PROVE  SentOK'
    <2>1. PICK y \in PeerMedia :
            work' = [work EXCEPT ![x] = [@ EXCEPT !.next = y, !.at = "forward",
                                                  !.item.exclude = Excluded(x)]]
      BY <1>7 DEF Choose, Candidates
    <2> DEFINE w == [work[x] EXCEPT !.next = y, !.at = "forward",
                                    !.item.exclude = Excluded(x)]
    <2>2. w.at = "forward" /\ work' = [work EXCEPT ![x] = w] /\ reached' = reached
      BY <1>7, <2>1, WorkTyped DEF Work, Choose
    <2> HIDE DEF w
    <2> QED BY <1>1, <2>2
  <1>8. ASSUME NEW x \in PeerMedia,
               Conclude(x) \/ NoOther(x) \/ ForwardRefused(x) \/ ChildSeen(x) \/ ChildTimesOut(x)
        PROVE  SentOK'
    <2>1. work' = [work EXCEPT ![x] = Idle] /\ reached' = reached
      BY <1>8 DEF Conclude, NoOther, ForwardRefused, ChildSeen, ChildTimesOut, EndItem
    <2> QED BY <1>1, <2>1, IdleTyped
  <1>9. ASSUME \/ \E m \in Messages : Sender(m)
               \/ \E x \in PeerMedia : Evict(x) \/ QosChanges(x)
               \/ UNCHANGED vars
        PROVE  SentOK'
    BY <1>2, <1>9 DEF Sender, Submit, SubmitFails, Mark, Evict, QosChanges, vars
  <1> QED BY <1>3, <1>5, <1>6, <1>7, <1>8, <1>9 DEF Next, Worker

(* What counts as sent in a status byte has reached the peer.               *)
LEMMA CellStep ==
    ASSUME TypeOK, WorkOK, SentOK, CellOK, [Next]_vars
    PROVE  CellOK'
  <1>1. reached \subseteq reached'
    BY DEF Next, vars, Sender, Worker, Submit, SubmitFails, Mark, Dequeue, Begin, Attempt,
           Conclude, Choose, NoOther, Forward, ForwardRefused, MarkChild, ChildSeen,
           ChildTimesOut, Evict, QosChanges
  <1>2. ASSUME cell' = cell
        PROVE  CellOK'
    BY <1>1, <1>2 DEF CellOK
  <1>3. ASSUME NEW m, NEW d, NEW c \in CellStates \ {"SUCCEEDED"}, SetCell(m, d, c)
        PROVE  CellOK'
    BY <1>1, <1>3 DEF CellOK, SetCell, TypeOK
  <1>4. ASSUME NEW i \in Item, NEW ok \in BOOLEAN, Result(i, ok), ok => i.msg \in reached
        PROVE  CellOK'
    BY <1>1, <1>4, ResultFacts DEF CellOK
  <1>5. ASSUME NEW x \in PeerMedia, Conclude(x)
        PROVE  CellOK'
    <2>1. Result(Doing(x), work[x].retval = "ok") /\ At(x, "sent") /\ Doing(x) \in Item
      BY <1>5 DEF Conclude, WorkOK, At
    <2> QED BY <2>1, <1>4 DEF SentOK
  <1>6. ASSUME NEW x \in PeerMedia, ChildSeen(x)
        PROVE  CellOK'
    <2>1. /\ Result(Doing(x), Child(x) = "SUCCEEDED") /\ At(x, "waiting")
          /\ Doing(x) \in Item /\ Doing(x).depth < MaxDepth
      BY <1>6 DEF ChildSeen, WorkOK, At
    <2>2. Doing(x).msg \in Messages /\ Doing(x).depth + 1 \in 1..MaxDepth
      BY <2>1, MediaSendAssumption DEF Item
    <2>3. Child(x) = "SUCCEEDED" => Doing(x).msg \in reached
      BY <2>2 DEF CellOK, Child
    <2> QED BY <2>1, <2>3, <1>4
  <1>7. ASSUME NEW x \in PeerMedia, NoOther(x) \/ ForwardRefused(x) \/ ChildTimesOut(x)
        PROVE  CellOK'
    <2>1. Result(Doing(x), FALSE) /\ Doing(x) \in Item
      BY <1>7 DEF NoOther, ForwardRefused, ChildTimesOut, WorkOK, At
    <2> QED BY <2>1, <1>4
  <1>8. ASSUME NEW x \in PeerMedia, Evict(x)
        PROVE  CellOK'
    <2>1. PICK i \in Item : Result(i, FALSE)
      BY <1>8, WorkTyped, ElementOfSeq DEF Evict
    <2> QED BY <2>1, <1>4
  <1>9. ASSUME NEW m \in Messages, SubmitFails(m)
        PROVE  CellOK'
    <2>1. NewItem(m) \in Item
      BY MediaSendAssumption DEF NewItem, Item
    <2>2. PICK i \in Item : Result(i, FALSE)
      BY <1>9, <2>1 DEF SubmitFails
    <2> QED BY <2>2, <1>4
  <1>10. ASSUME \/ \E m \in Messages : Mark(m)
                \/ \E x \in PeerMedia : Begin(x) \/ Choose(x) \/ MarkChild(x)
         PROVE  CellOK'
    <2>1. \/ cell' = cell
          \/ \E m, d : \E c \in CellStates \ {"SUCCEEDED"} : SetCell(m, d, c)
      BY <1>10 DEF Mark, Begin, Choose, MarkChild, CellStates
    <2> QED BY <2>1, <1>2, <1>3
  <1>11. ASSUME \/ \E m \in Messages : Submit(m)
                \/ \E x \in PeerMedia : Dequeue(x) \/ Attempt(x) \/ Forward(x) \/ QosChanges(x)
                \/ UNCHANGED vars
         PROVE  CellOK'
    BY <1>2, <1>11 DEF Submit, Dequeue, Attempt, Forward, QosChanges, vars
  <1> QED BY <1>5, <1>6, <1>7, <1>8, <1>9, <1>10, <1>11 DEF Next, Sender, Worker

-----------------------------------------------------------------------------
(* The invariant *)

(* The invariant holds at the start ..                                      *)
LEMMA InitIInv == Init => IInv
  <1> SUFFICES ASSUME Init
               PROVE  IInv
    OBVIOUS
  <1> USE MediaSendAssumption
  <1>1. TypeOK
    BY IdleTyped DEF Init, TypeOK, CellStates
  <1>2. WorkOK
    BY IdleTyped DEF Init, WorkOK, At
  <1>3. \A x \in PeerMedia, k \in Nat : ~Live(x, k) /\ ~Owns(x, k)
    BY IdleTyped DEF Init, Live, Owns, At
  <1>4. OwnOK
    BY <1>3 DEF Init, OwnOK, NewOK, FreedOK, ChainOK
  <1>5. VerdictOK /\ CellOK
    BY <1>3 DEF Init, VerdictOK, CellOK
  <1>6. SentOK
    BY IdleTyped DEF Init, SentOK, At
  <1> QED BY <1>1, <1>2, <1>4, <1>5, <1>6 DEF IInv

(* .. and every step keeps it.                                              *)
LEMMA StepIInv == IInv /\ [Next]_vars => IInv'
  BY TypeStep, OwnStep, VerdictStep, SentStep, CellStep DEF IInv

(* The places that own a message are the task that has not submitted it, or *)
(* one other place, or none.                                                *)
LEMMA OwnersAre ==
    ASSUME IInv, NEW m \in Messages
    PROVE  frees[m] = 1 - Cardinality(Owners(m)) /\ Cardinality(Owners(m)) <= 1
  <1> DEFINE Q == {p \in UNION {{x} \X (0..Len(queue[x])) : x \in PeerMedia} :
                      Owns(p[1], p[2]) /\ ItemAt(p[1], p[2]).msg = m}
  <1>1. Owners(m) = (IF pc[m] = "new" THEN {<<"none", 0>>} ELSE {}) \cup Q
    BY DEF Owners
  <1>2. \A p : p \in Q <=> \E x \in PeerMedia, k \in Nat :
                              p = <<x, k>> /\ Owns(x, k) /\ MsgAt(x, k) = m
    <2>1. ASSUME NEW x \in PeerMedia, NEW k \in Nat, Owns(x, k)
          PROVE  k \in 0..Len(queue[x])
      BY <2>1, WorkTyped DEF IInv, Owns
    <2>2. ASSUME NEW x \in PeerMedia, NEW k \in 0..Len(queue[x])
          PROVE  k \in Nat
      OBVIOUS
    <2> QED BY <2>1, <2>2 DEF MsgAt
  <1> HIDE DEF Q
  <1>3. CASE pc[m] = "new"
    <2>1. Q = {} /\ frees[m] = 0
      BY <1>2, <1>3, LiveItems DEF IInv, OwnOK, NewOK
    <2>2. Owners(m) = {<<"none", 0>>}
      BY <1>1, <1>3, <2>1
    <2>3. Cardinality({<<"none", 0>>}) = 1
      BY FS_Singleton, Zenon
    <2> QED BY <2>1, <2>2, <2>3
  <1>4. CASE pc[m] # "new" /\ Owned(m)
    <2>1. PICK x \in PeerMedia, k \in Nat : Owns(x, k) /\ MsgAt(x, k) = m
      BY <1>4 DEF Owned
    <2>2. ~OwnedBut(m, x, k)
      BY <2>1, SoleOwner DEF IInv, OwnOK
    <2>3. Owners(m) = {<<x, k>>}
      BY <1>1, <1>2, <1>4, <2>1, <2>2 DEF OwnedBut
    <2>4. frees[m] = 0
      BY <1>4 DEF IInv, OwnOK, FreedOK
    <2>5. Cardinality({<<x, k>>}) = 1
      BY FS_Singleton, Zenon
    <2> QED BY <2>3, <2>4, <2>5
  <1>5. CASE pc[m] # "new" /\ ~Owned(m)
    <2>1. Owners(m) = {}
      BY <1>1, <1>2, <1>5 DEF Owned
    <2>2. frees[m] = 1
      BY <1>5 DEF IInv, OwnOK, FreedOK
    <2> QED BY <2>1, <2>2, FS_EmptySet
  <1> QED BY <1>3, <1>4, <1>5

(* However often a message is handed from medium to medium, timed out on,   *)
(* evicted or refused, its data has one owner and is freed once, by the     *)
(* last one (send_work_item, send_message_multi, espnow_drop_full_item).    *)
THEOREM DataHasOneOwner == Spec => []OneOwnerFreesOnce
  <1>1. IInv => OneOwnerFreesOnce
    BY OwnersAre DEF OneOwnerFreesOnce
  <1> QED BY <1>1, InitIInv, StepIInv, PTL DEF Spec

-----------------------------------------------------------------------------
(* Media that were tried *)

(* An item that moves up on its queue, or stays with a worker that stays.   *)
LEMMA TriedMoves ==
    ASSUME NEW y \in PeerMedia, NEW j \in Nat, NEW k \in Nat, TriedAt(y, j),
           ItemAt(y, k)' = ItemAt(y, j),
           tried'[MsgAt(y, j)] = tried[MsgAt(y, j)],
           \/ j # 0 /\ k # 0
           \/ j = 0 /\ k = 0 /\ work'[y].at = work[y].at /\ work'[y].next = work[y].next
    PROVE  TriedAt(y, k)'
  <1>1. MsgAt(y, k)' = MsgAt(y, j)
    BY DEF MsgAt
  <1>2. CASE j # 0 /\ k # 0
    BY <1>1, <1>2 DEF TriedAt
  <1>3. CASE j = 0 /\ k = 0 /\ work'[y].at = work[y].at /\ work'[y].next = work[y].next
    BY <1>1, <1>3 DEF TriedAt, At
  <1> QED BY <1>2, <1>3

(* Most actions only take places away.                                      *)
LEMMA TriedQuiet ==
    ASSUME TriedOK, tried' = tried,
           \A y \in PeerMedia, k \in Nat : Owns(y, k)' => Owns(y, k) /\ ItemAt(y, k)' = ItemAt(y, k),
           \A y \in PeerMedia : Owns(y, 0)' =>
               work'[y].at = work[y].at /\ work'[y].next = work[y].next
    PROVE  TriedOK'
  <1> SUFFICES ASSUME NEW y \in PeerMedia, NEW k \in Nat, Owns(y, k)'
               PROVE  TriedAt(y, k)'
    BY DEF TriedOK
  <1>1. Owns(y, k) /\ ItemAt(y, k)' = ItemAt(y, k) /\ TriedAt(y, k)
    BY DEF TriedOK
  <1>2. \/ k # 0
        \/ k = 0 /\ work'[y].at = work[y].at /\ work'[y].next = work[y].next
    OBVIOUS
  <1> QED BY <1>1, <1>2, TriedMoves

(* The places other than the worker of x, when only that one changes.       *)
LEMMA TriedOthers ==
    ASSUME TypeOK, WorkOK, OwnOK, TriedOK, NEW x \in PeerMedia, NEW w,
           work' = [work EXCEPT ![x] = w], queue' = queue,
           \A m \in Messages : tried'[m] = tried[m] \/ (Owns(x, 0) /\ m = MsgAt(x, 0)),
           Owns(x, 0)' => TriedAt(x, 0)'
    PROVE  TriedOK'
  <1> SUFFICES ASSUME NEW y \in PeerMedia, NEW k \in Nat, Owns(y, k)', y # x \/ k # 0
               PROVE  TriedAt(y, k)'
    BY DEF TriedOK
  <1>1. Moves(y, k, k) /\ ItemAt(y, k)' = ItemAt(y, k)
    BY WorkerPlaces
  <1>2. Owns(y, k) /\ TriedAt(y, k) /\ MsgAt(y, k) \in Messages
    BY <1>1, LiveItems DEF Moves, TriedOK
  <1>3. tried'[MsgAt(y, k)] = tried[MsgAt(y, k)]
    <2>1. Owns(x, 0) => MsgAt(y, k) # MsgAt(x, 0)
      BY <1>2, SoleOwner DEF OwnOK, OwnedBut
    <2> QED BY <1>2, <2>1
  <1>4. \/ k # 0
        \/ k = 0 /\ work'[y].at = work[y].at /\ work'[y].next = work[y].next
    BY DEF TypeOK
  <1> QED BY <1>1, <1>2, <1>3, <1>4, TriedMoves

(* The media that took up a message stay excluded.                          *)
LEMMA TriedStep ==
    ASSUME TypeOK, WorkOK, OwnOK, TriedOK, [Next]_vars
    PROVE  TriedOK'
  <1>1. ASSUME NEW m \in Messages, Submit(m)
        PROVE  TriedOK'
    <2>1. PICK z \in PeerMedia, n \in Nat :
            /\ n # 0 /\ Fresh(z, n, NewItem(m)) /\ Appears(z, n, m, 1)
            /\ \A y \in PeerMedia, k \in Nat : <<y, k>> # <<z, n>> => Remains(y, k)
      BY <1>1, SubmitPlaces
    <2>2. tried' = tried /\ tried[m] = {} /\ work' = work
      BY <1>1 DEF Submit, OwnOK, NewOK
    <2>3. TriedAt(z, n)'
      <3>1. ItemAt(z, n)' = NewItem(m) /\ MsgAt(z, n)' = m
        BY <2>1 DEF Fresh, Appears
      <3>2. NewItem(m).exclude = {}
        BY DEF NewItem
      <3> QED BY <2>1, <2>2, <3>1, <3>2 DEF TriedAt
    <2>4. ASSUME NEW y \in PeerMedia, NEW k \in Nat, Owns(y, k)', <<y, k>> # <<z, n>>
          PROVE  TriedAt(y, k)'
      <3>1. Owns(y, k) /\ ItemAt(y, k)' = ItemAt(y, k) /\ TriedAt(y, k)
        BY <2>1, <2>4, LiveItems DEF Remains, Moves, TriedOK
      <3> QED BY <2>2, <3>1, TriedMoves
    <2> QED BY <2>3, <2>4 DEF TriedOK
  <1>2. ASSUME \/ \E m \in Messages : SubmitFails(m) \/ Mark(m)
               \/ \E x \in PeerMedia : QosChanges(x)
               \/ UNCHANGED vars
        PROVE  TriedOK'
    <2>1. work' = work /\ queue' = queue /\ tried' = tried
      BY <1>2 DEF SubmitFails, Mark, QosChanges, vars
    <2> QED BY <2>1, SamePlaces, TriedQuiet DEF Stay, Moves
  <1>3. ASSUME NEW x \in PeerMedia, Dequeue(x)
        PROVE  TriedOK'
    <2>1. /\ Shift(x, 0) /\ At(x, "start")'
          /\ \A y \in PeerMedia, k \in Nat : Live(y, k)' =>
                 ItemAt(y, k)' = ItemAt(y, IF y = x THEN k + 1 ELSE k)
      BY <1>3, DequeueShifts
    <2>2. tried' = tried /\ \A y \in PeerMedia : y # x => work'[y] = work[y]
      BY <1>3 DEF Dequeue, TypeOK
    <2> SUFFICES ASSUME NEW y \in PeerMedia, NEW k \in Nat, Owns(y, k)'
                 PROVE  TriedAt(y, k)'
      BY DEF TriedOK
    <2>3. CASE y = x
      <3>1. Moves(x, k + 1, k)
        BY <2>1, <2>3 DEF Shift
      <3>2. Owns(x, k + 1) /\ Live(x, k + 1) /\ Live(x, k)' /\ TriedAt(x, k + 1)
        BY <2>3, <3>1, LiveItems DEF Moves, TriedOK
      <3>3. ItemAt(x, k)' = ItemAt(x, k + 1) /\ MsgAt(x, k)' = MsgAt(x, k + 1)
        BY <2>1, <3>1, <3>2 DEF Moves
      <3> QED BY <2>1, <2>2, <2>3, <3>2, <3>3 DEF TriedAt, At
    <2>4. CASE y # x
      <3>1. Moves(y, k, k)
        BY <2>1, <2>4 DEF Shift
      <3>2. Owns(y, k) /\ Live(y, k)' /\ TriedAt(y, k)
        BY <3>1, LiveItems DEF Moves, TriedOK
      <3> QED BY <2>1, <2>2, <2>4, <3>2, TriedMoves
    <2> QED BY <2>3, <2>4
  <1>4. ASSUME NEW x \in PeerMedia, Evict(x)
        PROVE  TriedOK'
    <2>1. PICK i \in 1..Len(queue[x]) :
            /\ queue' = [queue EXCEPT ![x] = RemoveAt(@, i)] /\ work' = work /\ tried' = tried
      BY <1>4 DEF Evict
    <2>2. /\ Shift(x, i)
          /\ \A y \in PeerMedia, k \in Nat : Live(y, k)' =>
                 ItemAt(y, k)' = ItemAt(y, IF y = x /\ k >= i THEN k + 1 ELSE k)
      BY <2>1, EvictShifts
    <2> SUFFICES ASSUME NEW y \in PeerMedia, NEW k \in Nat, Owns(y, k)'
                 PROVE  TriedAt(y, k)'
      BY DEF TriedOK
    <2>3. PICK j \in Nat : /\ j = IF y = x /\ k >= i THEN k + 1 ELSE k
                           /\ (j # 0 /\ k # 0) \/ (j = 0 /\ k = 0)
      <3>1. i \in Nat \ {0}
        BY WorkTyped
      <3> QED BY <3>1
    <2>4. Moves(y, j, k)
      BY <2>2, <2>3 DEF Shift
    <2>5. Owns(y, j) /\ Live(y, k)' /\ TriedAt(y, j)
      BY <2>4, LiveItems DEF Moves, TriedOK
    <2>6. ItemAt(y, k)' = ItemAt(y, j)
      BY <2>2, <2>3, <2>5
    <2> QED BY <2>1, <2>3, <2>5, <2>6, TriedMoves
  <1>5. ASSUME NEW x \in PeerMedia, Begin(x)
        PROVE  TriedOK'
    <2> DEFINE place == work'[x].at
               w == [work[x] EXCEPT !.at = place]
               m == Doing(x).msg
    <2>1. /\ At(x, "start") /\ queue' = queue
          /\ tried' = [tried EXCEPT ![m] = @ \cup {x}]
          /\ \E p \in {"sent", "sending"} : work' = [work EXCEPT ![x].at = p]
      BY <1>5 DEF Begin, Go
    <2>2. PICK p \in {"sent", "sending"} : work' = [work EXCEPT ![x].at = p]
      BY <2>1
    <2>3. PICK v : v = [work[x] EXCEPT !.at = p]
      OBVIOUS
    <2>4. /\ v.at = p /\ v.item = Doing(x) /\ work' = [work EXCEPT ![x] = v]
          /\ work'[x] = v
      BY <2>2, <2>3, WorkTyped DEF Work, Doing, TypeOK
    <2>5. Owns(x, 0) /\ MsgAt(x, 0) = m /\ m \in Messages /\ ItemAt(x, 0) = Doing(x)
      BY <2>1, LiveItems DEF Owns, At, MsgAt, ItemAt
    <2>6. TriedAt(x, 0)
      BY <2>5 DEF TriedOK
    <2>7. TriedAt(x, 0)'
      <3>1. tried[m] \subseteq Doing(x).exclude
        BY <2>1, <2>5, <2>6 DEF TriedAt, At
      <3>2. ItemAt(x, 0)' = Doing(x) /\ MsgAt(x, 0)' = m
        BY <2>4 DEF ItemAt, MsgAt, Doing
      <3>3. tried'[m] = tried[m] \cup {x}
        BY <2>1, <2>5 DEF TypeOK
      <3> QED BY <2>4, <3>1, <3>2, <3>3 DEF TriedAt, At
    <2>8. \A q \in Messages : tried'[q] = tried[q] \/ (Owns(x, 0) /\ q = MsgAt(x, 0))
      BY <2>1, <2>5 DEF TypeOK
    <2> QED BY <2>1, <2>4, <2>7, <2>8, TriedOthers
  <1>6. ASSUME NEW x \in PeerMedia, Attempt(x)
        PROVE  TriedOK'
    <2>1. PICK v : /\ work' = [work EXCEPT ![x] = v] /\ v.item = Doing(x)
                   /\ v.at \in {"sending", "sent"} /\ At(x, "sending")
                   /\ queue' = queue /\ tried' = tried
      <3>1. PICK out \in {"ok", "fail", "who"} :
              work' = IF Again(x, out)
                   THEN [work EXCEPT ![x].retval = out, ![x].tries = @ + 1]
                   ELSE [work EXCEPT ![x].retval = out, ![x].tries = 0, ![x].at = "sent"]
        BY <1>6 DEF Attempt
      <3>2. CASE Again(x, out)
        <4> WITNESS [work[x] EXCEPT !.retval = out, !.tries = @ + 1]
        <4> QED BY <3>1, <3>2, <1>6, WorkTyped DEF Attempt, At, Doing, Work, TypeOK
      <3>3. CASE ~Again(x, out)
        <4> WITNESS [work[x] EXCEPT !.retval = out, !.tries = 0, !.at = "sent"]
        <4> QED BY <3>1, <3>3, <1>6, WorkTyped DEF Attempt, At, Doing, Work, TypeOK
      <3> QED BY <3>2, <3>3
    <2>2. Owns(x, 0) /\ TriedAt(x, 0)
      BY <2>1 DEF Owns, At, TriedOK
    <2>3. work'[x] = v /\ ItemAt(x, 0)' = ItemAt(x, 0) /\ MsgAt(x, 0)' = MsgAt(x, 0)
      BY <2>1 DEF TypeOK, ItemAt, MsgAt, Doing
    <2>4. TriedAt(x, 0)'
      BY <2>1, <2>2, <2>3 DEF TriedAt, At
    <2> QED BY <2>1, <2>4, TriedOthers
  <1>7. ASSUME NEW x \in PeerMedia, MarkChild(x)
        PROVE  TriedOK'
    <2>1. PICK v : v = [work[x] EXCEPT !.at = "waiting"]
      OBVIOUS
    <2>2. /\ work' = [work EXCEPT ![x] = v] /\ v.at = "waiting"
          /\ queue' = queue /\ tried' = tried
      BY <1>7, <2>1, WorkTyped DEF MarkChild, Go, Work
    <2>3. ~Owns(x, 0)'
      BY <2>2, WorkerPlaces
    <2> QED BY <2>2, <2>3, TriedOthers
  <1>8. ASSUME NEW x \in PeerMedia,
               Conclude(x) \/ NoOther(x) \/ ForwardRefused(x) \/ ChildSeen(x) \/ ChildTimesOut(x)
        PROVE  TriedOK'
    <2>1. work' = [work EXCEPT ![x] = Idle] /\ queue' = queue /\ tried' = tried
      BY <1>8 DEF Conclude, NoOther, ForwardRefused, ChildSeen, ChildTimesOut, EndItem
    <2>2. ~Owns(x, 0)'
      BY <2>1, WorkerPlaces, IdleTyped
    <2> QED BY <2>1, <2>2, TriedOthers
  <1>9. ASSUME NEW x \in PeerMedia, Choose(x)
        PROVE  TriedOK'
    <2>1. PICK y \in Candidates(Excluded(x)) :
            work' = [work EXCEPT ![x] = [@ EXCEPT !.next = y, !.at = "forward",
                                                  !.item.exclude = Excluded(x)]]
      BY <1>9 DEF Choose
    <2>2. y \in PeerMedia /\ TestedBit(y) \notin Excluded(x)
      BY DEF Candidates
    <2>3. Doing(x) \in Item /\ At(x, "sent")
      BY <1>9 DEF Choose, At, WorkOK
    <2>4. PICK v : v = [work[x] EXCEPT !.next = y, !.at = "forward",
                                       !.item.exclude = Excluded(x)]
      OBVIOUS
    <2>5. /\ v.at = "forward" /\ v.next = y
          /\ v.item.msg = Doing(x).msg /\ v.item.exclude = Excluded(x)
      BY <2>3, <2>4, WorkTyped DEF Work, Item, Doing
    <2>6. work' = [work EXCEPT ![x] = v] /\ queue' = queue /\ tried' = tried
      BY <1>9, <2>1, <2>4 DEF Choose
    <2>7. Owns(x, 0) /\ TriedAt(x, 0) /\ ItemAt(x, 0) = Doing(x)
      BY <2>3 DEF Owns, At, TriedOK, ItemAt
    <2>8. tried[Doing(x).msg] \subseteq Excluded(x)
      BY <2>3, <2>7 DEF TriedAt, At, MsgAt, Excluded
    <2>9. work'[x] = v /\ ItemAt(x, 0)' = v.item /\ MsgAt(x, 0)' = Doing(x).msg
      BY <2>5, <2>6 DEF TypeOK, ItemAt, MsgAt, Doing
    <2>10. TriedAt(x, 0)'
      BY <2>2, <2>5, <2>6, <2>8, <2>9 DEF TriedAt, At
    <2> QED BY <2>6, <2>10, TriedOthers
  <1>10. ASSUME NEW x \in PeerMedia, Forward(x)
         PROVE  TriedOK'
    <2>1. PICK z \in PeerMedia, n \in Nat \ {0}, i \in Item :
            /\ Handed(x, z, n)
            /\ z = work[x].next
            /\ Fresh(z, n, i) /\ i.exclude = Doing(x).exclude
            /\ \A y \in PeerMedia, k \in Nat :
                   <<y, k>> # <<z, n>> /\ <<y, k>> # <<x, 0>> => Remains(y, k)
      BY <1>10, ForwardPlaces
    <2>2. /\ tried' = tried /\ At(x, "forward")
          /\ \A y \in PeerMedia : y # x => work'[y] = work[y]
      BY <1>10 DEF Forward, Go, TypeOK
    <2>3. Owns(x, 0) /\ TriedAt(x, 0) /\ ~Owns(x, 0)' /\ ItemAt(x, 0) = Doing(x)
      BY <2>1 DEF Handed, TriedOK, ItemAt
    <2>4. TriedAt(z, n)'
      <3>1. ItemAt(z, n)' = i /\ MsgAt(z, n)' = MsgAt(x, 0)
        BY <2>1 DEF Fresh, Handed, Appears
      <3> QED BY <2>1, <2>2, <2>3, <3>1 DEF TriedAt, At
    <2>5. ASSUME NEW y \in PeerMedia, NEW k \in Nat, Owns(y, k)', <<y, k>> # <<z, n>>
          PROVE  TriedAt(y, k)'
      <3>1. <<y, k>> # <<x, 0>>
        BY <2>3, <2>5
      <3>2. Owns(y, k) /\ ItemAt(y, k)' = ItemAt(y, k) /\ TriedAt(y, k)
        BY <2>1, <2>5, <3>1, LiveItems DEF Remains, Moves, TriedOK
      <3> QED BY <2>2, <3>1, <3>2, TriedMoves
    <2> QED BY <2>4, <2>5 DEF TriedOK
  <1> QED BY <1>1, <1>2, <1>3, <1>4, <1>5, <1>6, <1>7, <1>8, <1>9, <1>10
          DEF Next, Sender, Worker

(* For any media, BLE among them: a message is not queued on a medium when  *)
(* a worker of the medium whose bit is tested for it took the message up,   *)
(* since the exclude mask that goes with the item has every medium tried.   *)
THEOREM NoReturnToAMedium == Spec => []NeverBackToAMedium
  <1>1. Init => TriedOK
    BY IdleTyped DEF Init, TriedOK, Owns
  <1>2. IInv /\ TriedOK /\ [Next]_vars => TriedOK'
    BY TriedStep DEF IInv
  <1>3. IInv /\ TriedOK => NeverBackToAMedium
    <2> SUFFICES ASSUME IInv, TriedOK, NEW y \in PeerMedia, NEW k \in 1..Len(queue[y])
                 PROVE  TestedBit(y) \notin tried[queue[y][k].msg]
      BY DEF NeverBackToAMedium
    <2>1. k \in Nat /\ k # 0
      BY WorkTyped DEF IInv
    <2>2. Owns(y, k) /\ ItemAt(y, k) = queue[y][k] /\ MsgAt(y, k) = queue[y][k].msg
      BY <2>1 DEF Owns, ItemAt, MsgAt
    <2> QED BY <2>1, <2>2 DEF TriedOK, TriedAt
  <1> QED BY <1>1, <1>2, <1>3, InitIInv, StepIInv, PTL DEF Spec

-----------------------------------------------------------------------------
(* What is promised to the caller *)

(* The stage of a message follows from who owns its data.                   *)
LEMMA StageIs ==
    ASSUME OwnOK
    PROVE  /\ DOMAIN Stage = Messages
           /\ \A m \in Messages :
                  Stage[m] = IF pc[m] = "new" THEN "new"
                             ELSE IF Owned(m) THEN "held" ELSE "released"
  BY DEF OwnOK, FreedOK, Stage

(* A place that is alive is that of a message that was submitted; one that  *)
(* owns the data, of a message that is held.                                *)
LEMMA StageOfPlace ==
    ASSUME TypeOK, WorkOK, OwnOK, NEW x \in PeerMedia, NEW k \in Nat, Live(x, k)
    PROVE  /\ MsgAt(x, k) \in Messages
           /\ Stage[MsgAt(x, k)] # "new"
           /\ Owns(x, k) => /\ Stage[MsgAt(x, k)] = "held"
                            /\ frees[MsgAt(x, k)] = 0
  <1>1. MsgAt(x, k) \in Messages /\ pc[MsgAt(x, k)] # "new"
    BY LiveItems DEF OwnOK, NewOK
  <1>2. Owns(x, k) => Owned(MsgAt(x, k))
    BY DEF Owned
  <1> QED BY <1>1, <1>2, StageIs DEF OwnOK, FreedOK

(* The stage changes only with the task's submission and with a release.    *)
LEMMA StageKept ==
    ASSUME pc' = pc, frees' = frees
    PROVE  Stage' = Stage
  BY DEF Stage

(* Freeing the data for the first time releases the message.                *)
LEMMA StageFreed ==
    ASSUME TypeOK, NEW m \in Messages, pc[m] # "new", pc' = pc, frees[m] = 0, FreeData(m)
    PROVE  Stage' = [Stage EXCEPT ![m] = "released"]
  <1>1. frees' = [frees EXCEPT ![m] = 1] /\ frees \in [Messages -> 0..2]
    BY DEF FreeData, TypeOK
  <1>2. \A q \in Messages : frees'[q] = IF q = m THEN 1 ELSE frees[q]
    BY <1>1
  <1>3. \A q \in Messages : Stage'[q] = IF q = m THEN "released" ELSE Stage[q]
    BY <1>2 DEF Stage
  <1> QED BY <1>3 DEF Stage

(* The result of an item is a verdict its caller may be told, or no verdict *)
(* at all.                                                                  *)
LEMMA ResultTells ==
    ASSUME TypeOK, WorkOK, VerdictOK, NEW x \in PeerMedia, NEW k \in Nat, Live(x, k),
           NEW ok \in BOOLEAN, Result(ItemAt(x, k), ok),
           ok => MsgAt(x, k) \in reached
    PROVE  \/ told' = told
           \/ \E v \in {"ok", "failed"} :
                  /\ Delivery!MayTell(MsgAt(x, k), v)
                  /\ told' = [told EXCEPT ![MsgAt(x, k)] = v]
  <1>1. ItemAt(x, k) \in Item
    BY LiveItems
  <1>2. CASE DepthAt(x, k) # 1
    BY <1>1, <1>2, ResultFacts DEF DepthAt
  <1>3. CASE DepthAt(x, k) = 1
    <2>1. told[MsgAt(x, k)] = "none"
      BY <1>3 DEF VerdictOK
    <2>2. told' = [told EXCEPT ![MsgAt(x, k)] = IF ok THEN "ok" ELSE "failed"]
      BY <1>1, <1>3, ResultFacts DEF DepthAt, MsgAt
    <2> QED BY <2>1, <2>2 DEF Delivery!MayTell
  <1> QED BY <1>2, <1>3

(* An owner that gives up its item with its data releases the message ..    *)
LEMMA ReleaseStep ==
    ASSUME TypeOK, WorkOK, OwnOK, VerdictOK, NEW x \in PeerMedia, NEW k \in Nat, Owns(x, k),
           NEW ok \in BOOLEAN, Result(ItemAt(x, k), ok), ok => MsgAt(x, k) \in reached,
           FreeData(MsgAt(x, k)), pc' = pc, reached' = reached
    PROVE  \E m \in Messages : Delivery!Release(m)
  <1>1. Live(x, k)
    BY LiveItems
  <1>2. /\ MsgAt(x, k) \in Messages /\ Stage[MsgAt(x, k)] = "held"
        /\ frees[MsgAt(x, k)] = 0 /\ pc[MsgAt(x, k)] # "new"
    BY <1>1, StageOfPlace, StageIs
  <1>3. Stage' = [Stage EXCEPT ![MsgAt(x, k)] = "released"]
    BY <1>2, StageFreed
  <1> QED BY <1>1, <1>2, <1>3, ResultTells DEF Delivery!Release

(* .. and one that waits for another queue tells its caller at most.        *)
LEMMA TellStep ==
    ASSUME TypeOK, WorkOK, OwnOK, VerdictOK, NEW x \in PeerMedia, NEW k \in Nat, Live(x, k),
           NEW ok \in BOOLEAN, Result(ItemAt(x, k), ok), ok => MsgAt(x, k) \in reached,
           frees' = frees, pc' = pc, reached' = reached
    PROVE  (\E m \in Messages : Delivery!Tell(m)) \/ UNCHANGED Delivery!dvars
  <1>1. MsgAt(x, k) \in Messages /\ Stage[MsgAt(x, k)] # "new" /\ Stage' = Stage
    BY StageOfPlace, StageKept
  <1>2. CASE told' = told
    BY <1>1, <1>2 DEF Delivery!dvars
  <1>3. CASE told' # told
    BY <1>1, <1>3, ResultTells DEF Delivery!Tell
  <1> QED BY <1>2, <1>3

(* Every step is one of the abstract delivery, or none that it sees.        *)
LEMMA DeliveryStep ==
    ASSUME IInv, [Next]_vars
    PROVE  Delivery!DNext \/ UNCHANGED Delivery!dvars
  <1> USE DEF IInv
  <1>1. ASSUME NEW m \in Messages, Submit(m)
        PROVE  Delivery!Accept(m)
    <2>1. pc[m] = "new" /\ pc' = [pc EXCEPT ![m] = "marking"] /\ frees[m] = 0
      BY <1>1 DEF Submit, OwnOK, NewOK
    <2>2. Stage[m] = "new" /\ Stage' = [Stage EXCEPT ![m] = "held"]
      BY <1>1, <2>1 DEF Stage, Submit, TypeOK
    <2> QED BY <1>1, <2>2 DEF Submit, Delivery!Accept
  <1>2. ASSUME NEW m \in Messages, SubmitFails(m)
        PROVE  Delivery!Refuse(m)
    <2>1. /\ pc[m] = "new" /\ pc' = [pc EXCEPT ![m] = "done"]
          /\ frees[m] = 0 /\ FreeData(m) /\ reached' = reached
      BY <1>2 DEF SubmitFails, OwnOK, NewOK
    <2>2. frees' = [frees EXCEPT ![m] = 1]
      BY <2>1 DEF FreeData, TypeOK
    <2>3. Stage[m] = "new" /\ Stage' = [Stage EXCEPT ![m] = "released"]
      <3>1. \A q \in Messages : /\ pc'[q] = IF q = m THEN "done" ELSE pc[q]
                                /\ frees'[q] = IF q = m THEN 1 ELSE frees[q]
        BY <2>1, <2>2 DEF TypeOK
      <3>2. \A q \in Messages : Stage'[q] = IF q = m THEN "released" ELSE Stage[q]
        BY <3>1 DEF Stage
      <3> QED BY <2>1, <3>2 DEF Stage
    <2>4. told' = [told EXCEPT ![m] = "failed"]
      BY <1>2 DEF SubmitFails, Result, NewItem
    <2> QED BY <2>1, <2>3, <2>4 DEF Delivery!Refuse
  <1>3. ASSUME NEW x \in PeerMedia, Attempt(x)
        PROVE  (\E m \in Messages : Delivery!Reach(m)) \/ UNCHANGED Delivery!dvars
    <2>1. /\ reached' \in {reached, reached \cup {MsgAt(x, 0)}}
          /\ Owns(x, 0) /\ pc' = pc /\ frees' = frees /\ told' = told
      BY <1>3 DEF Attempt, MsgAt, ItemAt, Owns, At
    <2>2. Stage' = Stage
      BY <2>1, StageKept
    <2>3. Live(x, 0)
      BY <2>1, LiveItems
    <2>4. Stage[MsgAt(x, 0)] = "held" /\ MsgAt(x, 0) \in Messages
      BY <2>1, <2>3, StageOfPlace
    <2> QED BY <2>1, <2>2, <2>4 DEF Delivery!Reach, Delivery!dvars
  <1>4. ASSUME NEW x \in PeerMedia, Conclude(x) \/ NoOther(x) \/ ForwardRefused(x)
        PROVE  \E m \in Messages : Delivery!Release(m)
    <2>1. Owns(x, 0) /\ ItemAt(x, 0) = Doing(x) /\ MsgAt(x, 0) = Doing(x).msg
      BY <1>4 DEF Conclude, NoOther, ForwardRefused, Owns, ItemAt, MsgAt, At
    <2>2. FreeData(MsgAt(x, 0)) /\ pc' = pc /\ reached' = reached
      BY <1>4, <2>1 DEF Conclude, NoOther, ForwardRefused
    <2>3. \E ok \in BOOLEAN : Result(ItemAt(x, 0), ok) /\ (ok => MsgAt(x, 0) \in reached)
      <3>1. CASE Conclude(x)
        BY <2>1, <3>1 DEF Conclude, SentOK
      <3>2. CASE NoOther(x) \/ ForwardRefused(x)
        BY <2>1, <3>2 DEF NoOther, ForwardRefused
      <3> QED BY <1>4, <3>1, <3>2
    <2> QED BY <2>1, <2>2, <2>3, ReleaseStep
  <1>5. ASSUME NEW x \in PeerMedia, Evict(x)
        PROVE  \E m \in Messages : Delivery!Release(m)
    <2>1. PICK k \in 1..Len(queue[x]) :
            Result(queue[x][k], FALSE) /\ FreeData(queue[x][k].msg)
      BY <1>5 DEF Evict
    <2>2. k \in Nat /\ k # 0
      BY WorkTyped
    <2>3. Owns(x, k) /\ ItemAt(x, k) = queue[x][k] /\ MsgAt(x, k) = queue[x][k].msg
      BY <2>2 DEF Owns, ItemAt, MsgAt
    <2>4. pc' = pc /\ reached' = reached
      BY <1>5 DEF Evict
    <2> QED BY <2>1, <2>2, <2>3, <2>4, ReleaseStep
  <1>6. ASSUME NEW x \in PeerMedia, ChildSeen(x) \/ ChildTimesOut(x)
        PROVE  (\E m \in Messages : Delivery!Tell(m)) \/ UNCHANGED Delivery!dvars
    <2>1. /\ Live(x, 0) /\ ItemAt(x, 0) = Doing(x) /\ MsgAt(x, 0) = Doing(x).msg
          /\ At(x, "waiting")
      BY <1>6 DEF ChildSeen, ChildTimesOut, Live, ItemAt, MsgAt, At
    <2>2. frees' = frees /\ pc' = pc /\ reached' = reached
      BY <1>6 DEF ChildSeen, ChildTimesOut
    <2>3. \E ok \in BOOLEAN : Result(ItemAt(x, 0), ok) /\ (ok => MsgAt(x, 0) \in reached)
      <3>1. CASE ChildSeen(x)
        <4>1. Doing(x) \in Item /\ Doing(x).depth < MaxDepth
          BY <2>1 DEF WorkOK, At
        <4>2. Doing(x).msg \in Messages /\ Doing(x).depth + 1 \in 1..MaxDepth
          BY <4>1, MediaSendAssumption DEF Item
        <4>3. Child(x) = "SUCCEEDED" => Doing(x).msg \in reached
          BY <4>2 DEF CellOK, Child
        <4> QED BY <2>1, <3>1, <4>3 DEF ChildSeen
      <3>2. CASE ChildTimesOut(x)
        BY <2>1, <3>2 DEF ChildTimesOut
      <3> QED BY <1>6, <3>1, <3>2
    <2> QED BY <2>1, <2>2, <2>3, TellStep
  <1>7. ASSUME \/ \E m \in Messages : Mark(m)
               \/ \E x \in PeerMedia : \/ Dequeue(x) \/ Begin(x) \/ Choose(x) \/ Forward(x)
                                       \/ MarkChild(x) \/ QosChanges(x)
               \/ UNCHANGED vars
        PROVE  UNCHANGED Delivery!dvars
    <2>1. frees' = frees /\ reached' = reached /\ told' = told
      BY <1>7 DEF Mark, Dequeue, Begin, Choose, Forward, MarkChild, QosChanges, vars
    <2>2. \A m \in Messages : pc'[m] = "new" <=> pc[m] = "new"
      BY <1>7 DEF Mark, Dequeue, Begin, Choose, Forward, MarkChild, QosChanges, vars, TypeOK
    <2>3. Stage' = Stage
      BY <2>1, <2>2 DEF Stage
    <2> QED BY <2>1, <2>3 DEF Delivery!dvars
  <1> QED BY <1>1, <1>2, <1>3, <1>4, <1>5, <1>6, <1>7 DEF Next, Sender, Worker, Delivery!DNext

(* Sending over several media does what MessageDelivery promises: a message *)
(* is held until it is released, once; it reaches the peer only while held; *)
(* its caller is told once at most, and "sent" only of a message that did   *)
(* reach the peer.                                                          *)
THEOREM DeliveryIsImplemented == Spec => ImplementsDelivery
  <1>1. Init => Delivery!DInit
    BY DEF Init, Stage, Delivery!DInit
  <1>2. IInv /\ [Next]_vars => [Delivery!DNext]_(Delivery!dvars)
    BY DeliveryStep
  <1> QED BY <1>1, <1>2, InitIInv, StepIInv, PTL DEF Spec, ImplementsDelivery, Delivery!DSpec
=============================================================================
