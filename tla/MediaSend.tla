----------------------------- MODULE MediaSend -----------------------------
(***************************************************************************)
(* Sending a message to one peer over several media: every medium has a    *)
(* queue and a worker; a worker that fails to send a message that needs a  *)
(* receipt hands its data to the queue of another medium and waits, inside *)
(* its own loop, for the outcome (send_work_item).                         *)
(*                                                                         *)
(* Module WorkQueue has the inside of one queue (mutex, eviction, limits,  *)
(* the memory of the queue_state); here adding an item is one step that    *)
(* may be refused, and the late write of QUEUED is another.  The score of  *)
(* a medium (failure rate, speed, size) is abstracted: any medium that the *)
(* guards admit may be the best one, or none may be good enough.           *)
(***************************************************************************)
EXTENDS Integers, Sequences, FiniteSets, SequencesExt

CONSTANTS
    Messages,       \* messages to send, each sent once
    Receipt,        \* those sent with receipt = true
    Recovery,       \* those of type media_qit_recovery
    HostMedia,      \* robusto_host.supported_media_types
    PeerMedia,      \* peer->supported_media_types
    Evicting,       \* media whose queue may drop an item for another one
    MaxTries,       \* attempts on one medium
    MaxDepth        \* bound: media_queue_item depth

ASSUME MediaSendAssumption ==
    /\ Receipt \subseteq Messages /\ Recovery \subseteq Messages
    /\ PeerMedia \subseteq HostMedia /\ Evicting \subseteq PeerMedia
    /\ MaxTries \in Nat \ {0} /\ MaxDepth \in Nat \ {0}
    /\ "none" \notin Messages /\ "none" \notin HostMedia

VARIABLES
    pc,         \* the sending task: "new", "marking" or "done"
    cell,       \* cell[m][d]: status byte of the queue_state of m's d-th item
    queue,      \* queue[x]: the items on the queue of medium x, head first
    work,       \* work[x]: where the worker of x is, and its local variables
    mstate,     \* mstate[x]: the peer's media state for x; "usable" stands for
                \*   working and for problem, which only differ in their score
    frees,      \* frees[m]: how often the data of m was freed (0..2)
    reached,    \* messages that reached the peer
    told,       \* told[m]: the result stored for the first item of m
    tried       \* tried[m]: media whose worker took up m

vars == <<pc, cell, queue, work, mstate, frees, reached, told, tried>>

Item == [msg : Messages, depth : 1..MaxDepth, exclude : SUBSET HostMedia]
NoItem == [msg |-> "none", depth |-> 0, exclude |-> {}]

Places == {"idle", "start", "sending", "sent", "forward", "marking", "waiting"}
CellStates == {"none", "QUEUED", "RUNNING", "TRYING_MEDIAS", "SUCCEEDED", "FAILED"}

Work == [at : Places, item : Item \cup {NoItem}, tries : 0..MaxTries,
         retval : {"ok", "fail", "who"}, next : PeerMedia \cup {"none"}]
Idle == [at |-> "idle", item |-> NoItem, tries |-> 0, retval |-> "fail", next |-> "none"]

TypeOK ==
    /\ pc \in [Messages -> {"new", "marking", "done"}]
    /\ cell \in [Messages -> [1..MaxDepth -> CellStates]]
    /\ queue \in [PeerMedia -> Seq(Item)]
    /\ work \in [PeerMedia -> Work]
    /\ mstate \in [PeerMedia -> {"initiating", "usable", "recovering"}]
    /\ frees \in [Messages -> 0..2]
    /\ reached \subseteq Messages
    /\ told \in [Messages -> {"none", "ok", "failed"}]
    /\ tried \in [Messages -> SUBSET PeerMedia]

Init ==
    /\ pc = [m \in Messages |-> "new"]
    /\ cell = [m \in Messages |-> [d \in 1..MaxDepth |-> "none"]]
    /\ queue = [x \in PeerMedia |-> <<>>]
    /\ work = [x \in PeerMedia |-> Idle]
    /\ mstate = [x \in PeerMedia |-> "initiating"]
    /\ frees = [m \in Messages |-> 0]
    /\ reached = {}
    /\ told = [m \in Messages |-> "none"]
    /\ tried = [m \in Messages |-> {}]

-----------------------------------------------------------------------------
FreeData(m) == frees' = [frees EXCEPT ![m] = IF @ = 2 THEN 2 ELSE @ + 1]

SetCell(m, d, s) == cell' = [cell EXCEPT ![m][d] = s]

At(x, place) == work[x].at = place
Doing(x) == work[x].item
Go(x, place) == work' = [work EXCEPT ![x].at = place]

(* robusto_set_queue_state_result on the item's own queue_state; the result *)
(* of the first item is what the caller of Robusto is told.                 *)
Result(i, ok) ==
    /\ SetCell(i.msg, i.depth, IF ok THEN "SUCCEEDED" ELSE "FAILED")
    /\ told' = IF i.depth = 1
               THEN [told EXCEPT ![i.msg] = IF ok THEN "ok" ELSE "failed"]
               ELSE told

(* The bit of the exclude mask that set_suitable_media tests for x.         *)
TestedBit(x) == IF x = "ble" THEN "espnow" ELSE x

Candidates(exclude) ==
    {x \in PeerMedia : TestedBit(x) \notin exclude
                       /\ mstate[x] = "usable"}

-----------------------------------------------------------------------------
(* The task that sends m *)

NewItem(m) == [msg |-> m, depth |-> 1, exclude |-> {}]

(* send_message_multi with the suitable or a forced medium, a presentation  *)
(* or a heartbeat: the item is added ..                                     *)
Submit(m) ==
    /\ pc[m] = "new"
    /\ \E x \in PeerMedia : queue' = [queue EXCEPT ![x] = Append(@, NewItem(m))]
    /\ pc' = [pc EXCEPT ![m] = "marking"]
    /\ UNCHANGED <<cell, work, mstate, frees, reached, told, tried>>

(* .. or no medium is suitable or its queue refuses, and the sender frees.  *)
SubmitFails(m) ==
    /\ pc[m] = "new"
    /\ pc' = [pc EXCEPT ![m] = "done"]
    /\ Result(NewItem(m), FALSE)
    /\ FreeData(m)
    /\ UNCHANGED <<queue, work, mstate, reached, tried>>

Mark(m) ==
    /\ pc[m] = "marking"
    /\ SetCell(m, 1, "QUEUED")
    /\ pc' = [pc EXCEPT ![m] = "done"]
    /\ UNCHANGED <<queue, work, mstate, frees, reached, told, tried>>

-----------------------------------------------------------------------------
(* The worker of medium x *)

Dequeue(x) ==
    /\ At(x, "idle")
    /\ queue[x] # <<>>
    /\ work' = [work EXCEPT ![x] = [Idle EXCEPT !.at = "start", !.item = Head(queue[x])]]
    /\ queue' = [queue EXCEPT ![x] = Tail(@)]
    /\ UNCHANGED <<pc, cell, mstate, frees, reached, told, tried>>

(* On a recovering medium only recovery items are sent.                     *)
Begin(x) ==
    LET m == Doing(x).msg IN
    /\ At(x, "start")
    /\ tried' = [tried EXCEPT ![m] = @ \cup {x}]
    /\ IF mstate[x] = "recovering" /\ m \notin Recovery
       THEN Go(x, "sent") /\ UNCHANGED cell
       ELSE Go(x, "sending") /\ SetCell(m, Doing(x).depth, "RUNNING")
    /\ UNCHANGED <<pc, queue, mstate, frees, reached, told>>

Again(x, out) ==
    /\ Doing(x).msg \in Receipt /\ out = "fail"
    /\ mstate[x] # "recovering" /\ work[x].tries + 1 < MaxTries

(* One call of the send callback.  An attempt that failed for want of a     *)
(* receipt may have reached the peer all the same.  Only a wired peer       *)
(* answers that it does not know who we are.                                *)
Attempt(x) ==
    LET m == Doing(x).msg IN
    /\ At(x, "sending")
    /\ \E out \in {"ok", "fail", "who"} :
        /\ reached' \in {r \in {reached, reached \cup {m}} : out = "ok" => m \in r}
        /\ work' = IF Again(x, out)
                   THEN [work EXCEPT ![x].retval = out, ![x].tries = @ + 1]
                   ELSE [work EXCEPT ![x].retval = out, ![x].tries = 0, ![x].at = "sent"]
    /\ UNCHANGED <<pc, cell, queue, mstate, frees, told, tried>>

(* Only a message with a receipt that failed goes on to another medium.     *)
TryOthers(x) ==
    /\ work[x].retval = "fail"
    /\ Doing(x).msg \in Receipt
    /\ HostMedia # Doing(x).exclude \cup {x}

EndItem(x) == work' = [work EXCEPT ![x] = Idle]

Conclude(x) ==
    /\ At(x, "sent")
    /\ ~TryOthers(x)
    /\ Result(Doing(x), work[x].retval = "ok")
    /\ FreeData(Doing(x).msg)
    /\ EndItem(x)
    /\ UNCHANGED <<pc, queue, mstate, reached, tried>>

ForgetsItself(x) == Doing(x).exclude
Excluded(x) == Doing(x).exclude \cup {x}

(* set_suitable_media finds another medium ..                               *)
Choose(x) ==
    /\ At(x, "sent")
    /\ TryOthers(x)
    /\ Doing(x).depth < MaxDepth
    /\ \E y \in Candidates(Excluded(x)) :
        work' = [work EXCEPT ![x] = [@ EXCEPT !.next = y, !.at = "forward",
                                              !.item.exclude = Excluded(x)]]
    /\ SetCell(Doing(x).msg, Doing(x).depth, "TRYING_MEDIAS")
    /\ UNCHANGED <<pc, queue, mstate, frees, reached, told, tried>>

(* .. or none, or none with a score above the limit.                        *)
NoOther(x) ==
    /\ At(x, "sent")
    /\ TryOthers(x)
    /\ Result(Doing(x), FALSE)
    /\ FreeData(Doing(x).msg)
    /\ EndItem(x)
    /\ UNCHANGED <<pc, queue, mstate, reached, tried>>

(* The data, not a copy of it, becomes the data of an item of the other     *)
(* queue; from there on it belongs to that queue.                           *)
Forward(x) ==
    /\ At(x, "forward")
    /\ queue' = [queue EXCEPT ![work[x].next] =
                    Append(@, [Doing(x) EXCEPT !.depth = @ + 1])]
    /\ Go(x, "marking")
    /\ UNCHANGED <<pc, cell, mstate, frees, reached, told, tried>>

ForwardRefused(x) ==
    /\ At(x, "forward")
    /\ Result(Doing(x), FALSE)
    /\ FreeData(Doing(x).msg)
    /\ EndItem(x)
    /\ UNCHANGED <<pc, queue, mstate, reached, tried>>

MarkChild(x) ==
    /\ At(x, "marking")
    /\ SetCell(Doing(x).msg, Doing(x).depth + 1, "QUEUED")
    /\ Go(x, "waiting")
    /\ UNCHANGED <<pc, queue, mstate, frees, reached, told, tried>>

Child(x) == cell[Doing(x).msg][Doing(x).depth + 1]

ChildSeenEarly(x) ==
    /\ At(x, "waiting")
    /\ Child(x) # "QUEUED"
    /\ Result(Doing(x), Child(x) # "FAILED")
    /\ EndItem(x)
    /\ UNCHANGED <<pc, queue, mstate, frees, reached, tried>>

ChildSeen(x) ==
    /\ At(x, "waiting")
    /\ Child(x) \in {"SUCCEEDED", "FAILED"}
    /\ Result(Doing(x), Child(x) = "SUCCEEDED")
    /\ EndItem(x)
    /\ UNCHANGED <<pc, queue, mstate, frees, reached, tried>>

NoTimeout(x) == At(x, "idle") /\ At(x, "waiting") /\ UNCHANGED vars

TimeoutFrees(x) ==
    /\ At(x, "waiting")
    /\ Result(Doing(x), FALSE)
    /\ FreeData(Doing(x).msg)
    /\ EndItem(x)
    /\ UNCHANGED <<pc, queue, mstate, reached, tried>>

(* After 6 s the item counts as failed; the other queue keeps the data.     *)
ChildTimesOut(x) ==
    /\ At(x, "waiting")
    /\ Result(Doing(x), FALSE)
    /\ EndItem(x)
    /\ UNCHANGED <<pc, queue, mstate, frees, reached, tried>>

-----------------------------------------------------------------------------
(* The rest of the system *)

(* Another sender needs the place of an item (espnow_drop_full_item).  No   *)
(* message of this model is added as important.                             *)
Evict(x) ==
    /\ x \in Evicting
    /\ \E k \in 1..Len(queue[x]) :
        LET i == queue[x][k] IN
        /\ i.msg \notin Recovery
        /\ Result(i, FALSE)
        /\ FreeData(i.msg)
        /\ queue' = [queue EXCEPT ![x] = RemoveAt(@, k)]
    /\ UNCHANGED <<pc, work, mstate, reached, tried>>

(* QoS: check_media, problem_state and recovering_state.                    *)
QosChanges(x) ==
    /\ mstate' = [mstate EXCEPT ![x] = IF @ = "usable" THEN "recovering" ELSE "usable"]
    /\ UNCHANGED <<pc, cell, queue, work, frees, reached, told, tried>>

Sender(m) == Submit(m) \/ SubmitFails(m) \/ Mark(m)

Worker(x) ==
    \/ Dequeue(x) \/ Begin(x) \/ Attempt(x) \/ Conclude(x)
    \/ Choose(x) \/ NoOther(x) \/ Forward(x) \/ ForwardRefused(x)
    \/ MarkChild(x) \/ ChildSeen(x) \/ ChildTimesOut(x)

Next ==
    \/ \E m \in Messages : Sender(m)
    \/ \E x \in PeerMedia : Worker(x) \/ Evict(x) \/ QosChanges(x)

Spec == Init /\ [][Next]_vars

(* Tasks and workers are scheduled; QoS and other senders owe nothing.      *)
FairSpec == Spec /\ (\A m \in Messages : WF_vars(Sender(m)))
                 /\ (\A x \in PeerMedia : WF_vars(Worker(x)))

-----------------------------------------------------------------------------
(* Properties *)

(* Place k of medium x: its worker for k = 0, else the k-th on its queue.   *)
ItemAt(x, k) == IF k = 0 THEN Doing(x) ELSE queue[x][k]

(* It answers for the data of its item: it is on the queue, or a worker     *)
(* that has neither concluded nor handed it on.                             *)
Owns(x, k) ==
    IF k = 0 THEN work[x].at \in {"start", "sending", "sent", "forward"}
             ELSE k \in 1..Len(queue[x])

(* The places that answer for the data of m; <<"none", 0>> is its task.     *)
Owners(m) ==
    (IF pc[m] = "new" THEN {<<"none", 0>>} ELSE {})
    \cup {p \in UNION {{x} \X (0..Len(queue[x])) : x \in PeerMedia} :
              Owns(p[1], p[2]) /\ ItemAt(p[1], p[2]).msg = m}

(* However often a message is handed from medium to medium, timed out on,   *)
(* evicted or refused: one place at a time owns its data, and the last one  *)
(* frees it, once.                                                          *)
OneOwnerFreesOnce ==
    \A m \in Messages :
        /\ Cardinality(Owners(m)) <= 1
        /\ frees[m] = 1 - Cardinality(Owners(m))

(* A message is never queued on a medium when the medium whose bit          *)
(* set_suitable_media tests for it already failed with the message: for     *)
(* every medium but BLE, not again on the same one; for BLE, not after      *)
(* ESP-NOW.                                                                 *)
NeverBackToAMedium ==
    \A y \in PeerMedia : \A k \in 1..Len(queue[y]) :
        TestedBit(y) \notin tried[queue[y][k].msg]

(* A failed message goes to "another media" (robusto_message_sending.c), so *)
(* not to one that failed with it already, BLE among them.                  *)
AlwaysAnotherMedium ==
    \A y \in PeerMedia : \A k \in 1..Len(queue[y]) :
        y \notin tried[queue[y][k].msg]

(* Under fairness every message is settled: its data is freed and its       *)
(* sender has a result, also when workers wait for each other.              *)
EveryMessageSettles ==
    \A m \in Messages : <>(frees[m] = 1 /\ told[m] # "none")

(* The sending over several media implements what MessageDelivery promises. *)
Stage == [m \in Messages |->
            IF pc[m] = "new" THEN "new"
            ELSE IF frees[m] = 0 THEN "held" ELSE "released"]
Delivery == INSTANCE MessageDelivery WITH stage <- Stage
ImplementsDelivery == Delivery!DSpec
=============================================================================
