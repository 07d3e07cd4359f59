----------------------------- MODULE WorkQueue -----------------------------
(***************************************************************************)
(* One work queue of Robusto (robusto_queue.c), the single worker task     *)
(* that drains it (robusto_worker.c), and the tasks that put messages on   *)
(* it and watch their one-byte queue_state (robusto_message_sending.c).    *)
(*                                                                         *)
(* The status byte of a queue_state is shared WITHOUT a lock between the   *)
(* task that allocated it and the worker: "reading and writing a single    *)
(* byte is an atomic operation on all relevant architectures".  Every read *)
(* and every write of that byte is therefore a step of its own here, and   *)
(* so is every region under the queue mutex that contains one.             *)
(*                                                                         *)
(* The result code that follows the status byte is left out: no property   *)
(* is about it.                                                            *)
(***************************************************************************)
EXTENDS Integers, Sequences, FiniteSets, SequencesExt

CONSTANTS
    Requests,       \* messages to send, each sent once by a task of its own
    Important,      \* those added with important = true
    Recovery,       \* those whose queue_item_type is media_qit_recovery
    Watched,        \* those sent with a queue_state; the others pass NULL
    NormalMax,      \* normal_max_count
    ImportantMax,   \* important_max_count
    Counted,        \* the medium's callbacks maintain q_context->count
    Evicting,       \* the medium sets item_drop_cb, next_ and remove_queueitem_cb
    Garbage,        \* bytes the heap may hold when a queue_state is allocated
    NoRequest       \* no request

Status == {"QUEUED", "RUNNING", "FAILED", "SUCCEEDED", "DROPPED",
           "QUEUEING_FAILED", "TRYING_MEDIAS", "OTHER"}

(* robusto_free_queue_state frees the cell in these states at once. *)
TerminalEarly == {"FAILED", "SUCCEEDED", "DROPPED", "QUEUEING_FAILED", "RUNNING"}
Terminal == {"FAILED", "SUCCEEDED", "DROPPED", "QUEUEING_FAILED"}

(* robusto_waitfor_queue_state keeps waiting in these. *)
InProgress == {"QUEUED", "RUNNING", "TRYING_MEDIAS"}

ASSUME RequestsAssumption ==
    /\ Important \subseteq Requests
    /\ Recovery \subseteq Requests
    /\ Watched \subseteq Requests
    /\ {NoRequest, "free", "destroyed"} \cap Requests = {}
ASSUME LimitsAssumption ==
    /\ NormalMax \in Nat \ {0}
    /\ ImportantMax \in Nat \ {0}
    /\ NormalMax <= ImportantMax
ASSUME FlagsAssumption == Counted \in BOOLEAN /\ Evicting \in BOOLEAN
ASSUME GarbageAssumption == Garbage \subseteq Status /\ Garbage # {}

VARIABLES
    pc,         \* where each request's own task is
    cell,       \* status byte of each request's queue_state
    life,       \* "none", "live" or "freed": the memory of that queue_state
    origin,     \* whose the byte is: the heap's, the program's, or the heap's
                \* and "misread", taken by the worker for a mark of the owner
    frees,      \* how often each request's message buffer was freed (0..2)
    accepted,   \* what safe_add_work_queue returned to the request's task
    verdict,    \* what robusto_waitfor_queue_state returned
    sent,       \* the send callback returned ROB_OK for the request
    queue,      \* the STAILQ, head first
    count,      \* q_context->count
    mutex,      \* "free", "destroyed" or the request whose task holds it
    victim,     \* the item under eviction by the holder of the mutex
    blocked,    \* q_context->blocked
    shutdown,   \* q_context->shutdown
    recovering, \* info->state = media_state_recovering
    wpc,        \* where the worker task is
    cur,        \* the worker's curr_work
    retval      \* the worker's result for cur: TRUE for ROB_OK

qvars == <<queue, count>>
tvars == <<pc, accepted, verdict>>
cvars == <<cell, life, origin>>
wvars == <<wpc, cur, retval>>
env   == <<blocked, shutdown, recovering>>
vars  == <<tvars, cvars, frees, sent, qvars, mutex, victim, env, wvars>>

TaskPCs   == {"new", "locking", "locked", "evicting", "marking", "waiting",
              "releasing", "dropping", "done"}
WorkerPCs == {"idle", "start", "sending", "finish", "store", "cleanup", "gone"}

TypeOK ==
    /\ pc \in [Requests -> TaskPCs]
    /\ cell \in [Requests -> Status]
    /\ life \in [Requests -> {"none", "live", "freed"}]
    /\ origin \in [Requests -> {"heap", "program", "misread"}]
    /\ frees \in [Requests -> 0..2]
    /\ accepted \in [Requests -> BOOLEAN]
    /\ verdict \in [Requests -> {"none", "succeeded", "not_succeeded"}]
    /\ sent \in [Requests -> BOOLEAN]
    /\ queue \in Seq(Requests)
    /\ count \in Nat
    /\ mutex \in Requests \cup {"free", "destroyed"}
    /\ victim \in Requests \cup {NoRequest}
    /\ blocked \in BOOLEAN /\ shutdown \in BOOLEAN /\ recovering \in BOOLEAN
    /\ wpc \in WorkerPCs
    /\ cur \in Requests \cup {NoRequest}
    /\ retval \in BOOLEAN

Init ==
    /\ pc = [r \in Requests |-> "new"]
    /\ cell = [r \in Requests |-> "OTHER"]
    /\ life = [r \in Requests |-> "none"]
    /\ origin = [r \in Requests |-> "heap"]
    /\ frees = [r \in Requests |-> 0]
    /\ accepted = [r \in Requests |-> FALSE]
    /\ verdict = [r \in Requests |-> "none"]
    /\ sent = [r \in Requests |-> FALSE]
    /\ queue = <<>> /\ count = 0
    /\ mutex = "free" /\ victim = NoRequest
    /\ blocked = TRUE /\ shutdown = FALSE /\ recovering = FALSE
    /\ wpc = "idle" /\ cur = NoRequest /\ retval = FALSE

-----------------------------------------------------------------------------
(* Shared helpers *)

FreeBuffer(r) == frees' = [frees EXCEPT ![r] = IF @ = 2 THEN 2 ELSE @ + 1]

(* Every setter ignores a NULL queue_state. *)
SetCell(r, s) ==
    IF r \in Watched
    THEN /\ cell' = [cell EXCEPT ![r] = s]
         /\ origin' = [origin EXCEPT ![r] = IF @ = "heap" THEN "program" ELSE @]
    ELSE UNCHANGED <<cell, origin>>

FreeCell(r) == life' = [life EXCEPT ![r] = "freed"]

(* robusto_set_queue_state_result is a read and then a write: a dropped     *)
(* cell is freed for its owner, any other gets the result.  A byte nobody   *)
(* has written yet may look like dropped.                                   *)
OwnerDropped(r) == r \in Watched /\ cell[r] = "DROPPED"
FreeDropped(r) ==
    /\ FreeCell(r)
    /\ origin' = [origin EXCEPT ![r] = IF @ = "heap" THEN "misread" ELSE @]

(* Giving back a mutex the worker deleted meanwhile has no effect.          *)
GiveMutex(r) == mutex' = IF mutex = r THEN "free" ELSE mutex

(* The callbacks of most media do not touch q_context->count. *)
CountInsert == count' = IF Counted THEN count + 1 ELSE count
CountRemoveTwice == count' = IF Counted THEN count - 2 ELSE count
CountRemove == count' = IF Counted THEN count - 1 ELSE count

(* espnow_drop_full_item keeps important items and recovery items. *)
Droppable(r) == r \notin Important /\ r \notin Recovery

QueueFull == count >= NormalMax

(* The oldest item the eviction loop may drop is at position i. *)
OldestDroppable(i) ==
    /\ Droppable(queue[i])
    /\ \A j \in 1..(i - 1) : ~Droppable(queue[j])

MustEvict ==
    QueueFull /\ Evicting /\ \E i \in 1..Len(queue) : Droppable(queue[i])

-----------------------------------------------------------------------------
(* The task that sends request r *)

(* Allocate the queue_state, build the message and the queue item, and look *)
(* at q_context->shutdown without the mutex.                                *)
Submit(r) ==
    /\ pc[r] = "new"
    /\ \E g \in Garbage :
        cell' = IF r \in Watched THEN [cell EXCEPT ![r] = g] ELSE cell
    /\ life' = [life EXCEPT ![r] = IF r \in Watched THEN "live" ELSE "none"]
    /\ pc' = [pc EXCEPT ![r] = IF shutdown THEN "marking" ELSE "locking"]
    /\ UNCHANGED <<origin, accepted, verdict, frees, sent, qvars, mutex, victim, env, wvars>>

(* No suitable medium, no message or no memory for the item: nothing was    *)
(* shared yet, the task frees what it built and marks the cell itself.      *)
SubmitFails(r) ==
    /\ pc[r] = "new"
    /\ SetCell(r, "QUEUEING_FAILED")
    /\ life' = [life EXCEPT ![r] = IF r \in Watched THEN "live" ELSE "none"]
    /\ FreeBuffer(r)
    /\ pc' = [pc EXCEPT ![r] = IF r \in Watched THEN "releasing" ELSE "done"]
    /\ UNCHANGED <<accepted, verdict, sent, qvars, mutex, victim, env, wvars>>

TakeMutex(r) ==
    /\ pc[r] = "locking"
    /\ mutex = "free"
    /\ mutex' = r
    /\ pc' = [pc EXCEPT ![r] = "locked"]
    /\ UNCHANGED <<accepted, verdict, cvars, frees, sent, qvars, victim, env, wvars>>

(* The take timed out, or the worker deleted the mutex when it shut down.   *)
MutexUnavailable(r) ==
    /\ pc[r] = "locking"
    /\ mutex # "free"
    /\ pc' = [pc EXCEPT ![r] = "marking"]
    /\ UNCHANGED <<accepted, verdict, cvars, frees, sent, qvars, mutex, victim, env, wvars>>

(* One round of the eviction loop: the victim gets the result QUEUE_FULL    *)
(* and leaves the queue.                                                    *)
Evict(r) ==
    /\ pc[r] = "locked"
    /\ MustEvict
    /\ \E i \in 1..Len(queue) :
        /\ OldestDroppable(i)
        /\ queue' = RemoveAt(queue, i)
        /\ CountRemove
        /\ FreeBuffer(queue[i])
        /\ IF OwnerDropped(queue[i])
           THEN /\ FreeDropped(queue[i])
                /\ UNCHANGED <<pc, victim>>
           ELSE /\ pc' = [pc EXCEPT ![r] = "evicting"]
                /\ victim' = queue[i]
                /\ UNCHANGED <<life, origin>>
    /\ UNCHANGED <<accepted, verdict, cell, sent, mutex, env, wvars>>

StoreEvicted(r) ==
    /\ pc[r] = "evicting"
    /\ SetCell(victim, "FAILED")
    /\ victim' = NoRequest
    /\ pc' = [pc EXCEPT ![r] = "locked"]
    /\ UNCHANGED <<accepted, verdict, life, frees, sent, qvars, mutex, env, wvars>>

InsertAnyone(r) ==
    /\ pc[r] = "locked"
    /\ ~MustEvict
    /\ QueueFull => count < ImportantMax
    /\ queue' = Append(queue, r)
    /\ CountInsert
    /\ accepted' = [accepted EXCEPT ![r] = TRUE]
    /\ GiveMutex(r)
    /\ pc' = [pc EXCEPT ![r] = "marking"]
    /\ UNCHANGED <<verdict, cvars, frees, sent, victim, env, wvars>>

Insert(r) ==
    /\ pc[r] = "locked"
    /\ ~MustEvict
    /\ QueueFull => r \in Important /\ count < ImportantMax
    /\ queue' = Append(queue, r)
    /\ CountInsert
    /\ accepted' = [accepted EXCEPT ![r] = TRUE]
    /\ GiveMutex(r)
    /\ pc' = [pc EXCEPT ![r] = "marking"]
    /\ UNCHANGED <<verdict, cvars, frees, sent, victim, env, wvars>>

RejectFull(r) ==
    /\ pc[r] = "locked"
    /\ ~MustEvict
    /\ QueueFull
    /\ r \in Important => count >= ImportantMax
    /\ GiveMutex(r)
    /\ pc' = [pc EXCEPT ![r] = "marking"]
    /\ UNCHANGED <<accepted, verdict, cvars, frees, sent, qvars, victim, env, wvars>>

MarkQueuedNever(r) ==
    /\ pc[r] = "marking"
    /\ accepted[r]
    /\ pc' = [pc EXCEPT ![r] = IF r \in Watched THEN "waiting" ELSE "done"]
    /\ UNCHANGED <<accepted, verdict, cvars, frees, sent, qvars, mutex, victim, env, wvars>>

(* The cell is marked AFTER the item became visible to the worker.          *)
MarkQueued(r) ==
    /\ pc[r] = "marking"
    /\ accepted[r]
    /\ SetCell(r, "QUEUED")
    /\ pc' = [pc EXCEPT ![r] = IF r \in Watched THEN "waiting" ELSE "done"]
    /\ UNCHANGED <<accepted, verdict, life, frees, sent, qvars, mutex, victim, env, wvars>>

MarkRejected(r) ==
    /\ pc[r] = "marking"
    /\ ~accepted[r]
    /\ SetCell(r, "QUEUEING_FAILED")
    /\ FreeBuffer(r)
    /\ pc' = [pc EXCEPT ![r] = IF r \in Watched THEN "releasing" ELSE "done"]
    /\ UNCHANGED <<accepted, verdict, life, sent, qvars, mutex, victim, env, wvars>>

(* robusto_waitfor_queue_state sees a final byte within the timeout ..      *)
SeeResult(r) ==
    /\ pc[r] = "waiting"
    /\ cell[r] \notin InProgress
    /\ verdict' = [verdict EXCEPT ![r] =
                      IF cell[r] = "SUCCEEDED" THEN "succeeded" ELSE "not_succeeded"]
    /\ pc' = [pc EXCEPT ![r] = "releasing"]
    /\ UNCHANGED <<accepted, cvars, frees, sent, qvars, mutex, victim, env, wvars>>

(* .. or the time is up, which prevails whatever the byte says.             *)
WaitTimesOut(r) ==
    /\ pc[r] = "waiting"
    /\ verdict' = [verdict EXCEPT ![r] = "not_succeeded"]
    /\ pc' = [pc EXCEPT ![r] = "releasing"]
    /\ UNCHANGED <<accepted, cvars, frees, sent, qvars, mutex, victim, env, wvars>>

(* robusto_free_queue_state: free a finished cell ..                        *)
Release(r) ==
    /\ pc[r] = "releasing"
    /\ IF cell[r] \in Terminal
       THEN FreeCell(r) /\ pc' = [pc EXCEPT ![r] = "done"]
       ELSE pc' = [pc EXCEPT ![r] = "dropping"] /\ UNCHANGED life
    /\ UNCHANGED <<accepted, verdict, cell, origin, frees, sent, qvars, mutex, victim, env, wvars>>

(* .. and leave any other to the worker.                                    *)
Drop(r) ==
    /\ pc[r] = "dropping"
    /\ SetCell(r, "DROPPED")
    /\ pc' = [pc EXCEPT ![r] = "done"]
    /\ UNCHANGED <<accepted, verdict, life, frees, sent, qvars, mutex, victim, env, wvars>>

-----------------------------------------------------------------------------
(* The worker task *)

DequeueOffByOne ==
    /\ wpc = "idle"
    /\ ~shutdown /\ ~blocked
    /\ mutex = "free"
    /\ Len(queue) > 1
    /\ cur' = Head(queue)
    /\ queue' = Tail(queue)
    /\ CountRemove
    /\ wpc' = "start"
    /\ UNCHANGED <<tvars, cvars, frees, sent, mutex, victim, env, retval>>

Dequeue ==
    /\ wpc = "idle"
    /\ ~shutdown /\ ~blocked
    /\ mutex = "free"
    /\ queue # <<>>
    /\ cur' = Head(queue)
    /\ queue' = Tail(queue)
    /\ CountRemove
    /\ wpc' = "start"
    /\ UNCHANGED <<tvars, cvars, frees, sent, mutex, victim, env, retval>>

(* send_work_item: on a recovering medium only recovery items are sent.     *)
SkipSend ==
    /\ wpc = "start"
    /\ recovering /\ cur \notin Recovery
    /\ retval' = FALSE
    /\ wpc' = "finish"
    /\ UNCHANGED <<tvars, cvars, frees, sent, qvars, mutex, victim, env, cur>>

StartSend ==
    /\ wpc = "start"
    /\ ~(recovering /\ cur \notin Recovery)
    /\ SetCell(cur, "RUNNING")
    /\ wpc' = "sending"
    /\ UNCHANGED <<tvars, life, frees, sent, qvars, mutex, victim, env, cur, retval>>

(* The attempts with the send callback, taken together.                     *)
Send ==
    /\ wpc = "sending"
    /\ \E ok \in BOOLEAN :
        /\ retval' = ok
        /\ sent' = [sent EXCEPT ![cur] = ok]
    /\ wpc' = "finish"
    /\ UNCHANGED <<tvars, cvars, frees, qvars, mutex, victim, env, cur>>

Finish ==
    /\ wpc = "finish"
    /\ IF OwnerDropped(cur)
       THEN FreeDropped(cur) /\ wpc' = "cleanup"
       ELSE UNCHANGED <<life, origin>> /\ wpc' = "store"
    /\ UNCHANGED <<tvars, cell, frees, sent, qvars, mutex, victim, env, cur, retval>>

StoreResult ==
    /\ wpc = "store"
    /\ SetCell(cur, IF retval THEN "SUCCEEDED" ELSE "FAILED")
    /\ wpc' = "cleanup"
    /\ UNCHANGED <<tvars, life, frees, sent, qvars, mutex, victim, env, cur, retval>>

CleanupLeaks ==
    /\ wpc = "cleanup"
    /\ IF retval THEN FreeBuffer(cur) ELSE UNCHANGED frees
    /\ cur' = NoRequest
    /\ wpc' = "idle"
    /\ UNCHANGED <<tvars, cvars, sent, qvars, mutex, victim, env, retval>>

Cleanup ==
    /\ wpc = "cleanup"
    /\ FreeBuffer(cur)
    /\ cur' = NoRequest
    /\ wpc' = "idle"
    /\ UNCHANGED <<tvars, cvars, sent, qvars, mutex, victim, env, retval>>

(* The loop ends between two items and deletes the mutex, held or not.      *)
WorkerExits ==
    /\ wpc = "idle"
    /\ shutdown
    /\ mutex' = "destroyed"
    /\ wpc' = "gone"
    /\ UNCHANGED <<tvars, cvars, frees, sent, qvars, victim, env, cur, retval>>

-----------------------------------------------------------------------------
(* The rest of the system *)

(* The medium is up: its init calls set_queue_blocked(false).               *)
Unblock ==
    /\ blocked
    /\ mutex = "free"
    /\ blocked' = FALSE
    /\ UNCHANGED <<tvars, cvars, frees, sent, qvars, mutex, victim, shutdown, recovering, wvars>>

Shutdown ==
    /\ ~shutdown
    /\ shutdown' = TRUE
    /\ UNCHANGED <<tvars, cvars, frees, sent, qvars, mutex, victim, blocked, recovering, wvars>>

(* QoS starts or ends the recovery of the medium at any time.               *)
QosChanges ==
    /\ recovering' = ~recovering
    /\ UNCHANGED <<tvars, cvars, frees, sent, qvars, mutex, victim, blocked, shutdown, wvars>>

Task(r) ==
    \/ Submit(r) \/ SubmitFails(r)
    \/ TakeMutex(r) \/ MutexUnavailable(r)
    \/ Evict(r) \/ StoreEvicted(r) \/ Insert(r) \/ RejectFull(r)
    \/ MarkQueued(r) \/ MarkRejected(r)
    \/ SeeResult(r) \/ WaitTimesOut(r)
    \/ Release(r) \/ Drop(r)

Worker == Dequeue \/ SkipSend \/ StartSend \/ Send \/ Finish \/ StoreResult
          \/ Cleanup \/ WorkerExits

Next == (\E r \in Requests : Task(r)) \/ Worker \/ Unblock \/ Shutdown \/ QosChanges

Spec == Init /\ [][Next]_vars

(* Tasks are scheduled, and so is the worker; each medium's init unblocks   *)
(* its queue.  No fairness on shutting down or on QoS.                      *)
Fairness ==
    /\ \A r \in Requests : WF_vars(Task(r))
    /\ WF_vars(Worker)
    /\ WF_vars(Unblock)

FairSpec == Spec /\ Fairness

-----------------------------------------------------------------------------
(* Properties *)

(* Positions from which the worker side may still read or write the cell    *)
(* of r: it is queued, it is the current work before its result is stored,  *)
(* or it is being evicted.                                                  *)
WorkerSideHolds(r) ==
    \/ r \in Range(queue)
    \/ cur = r /\ wpc \in {"start", "sending", "finish", "store"}
    \/ victim = r

(* Positions from which the task of r still reads or writes its cell.       *)
TaskHolds(r) ==
    pc[r] \in {"locking", "locked", "evicting", "marking", "waiting",
               "releasing", "dropping"}

(* A queue_state is allocated uninitialised.  The one mistake the worker    *)
(* side can make is to take what the heap has left in a cell for the mark   *)
(* of the owner, when it reads the cell before anybody has written to it;   *)
(* then memory in use is free, and nothing can be said any more.            *)
Misread == \E r \in Requests : origin[r] = "misread"

(* Whoever still has a step to take on a queue_state finds it allocated:    *)
(* but for that mistake, the hand-over by the DROPPED byte never frees a    *)
(* cell under the other side, and so no cell is freed twice.                *)
CellAccessSafe ==
    \/ Misread
    \/ \A r \in Watched : WorkerSideHolds(r) \/ TaskHolds(r) => life[r] = "live"

(* But for that mistake, robusto_waitfor_queue_state returns true only for  *)
(* a message whose send callback returned ROB_OK, whatever byte the heap or *)
(* a late write left in its queue_state.                                    *)
TruthfulVerdict ==
    \/ Misread
    \/ \A r \in Requests : verdict[r] = "succeeded" => sent[r]

(* The worker frees a cell when "No one is interested in the result, and    *)
(* asks for it to be freed" (robusto_queue.c): its task is done with it.    *)
FreedIsUnwanted == \A r \in Watched : life[r] = "freed" => pc[r] = "done"

(* A message buffer has one owner at a time, its task, the queue or the     *)
(* worker, and the last one frees it exactly once, on every path.           *)
OwnedByOne(r) ==
    \/ pc[r] \in {"new", "locking", "locked", "evicting"}
    \/ pc[r] = "marking" /\ ~accepted[r]
    \/ r \in Range(queue)
    \/ cur = r
BufferFreedExactlyOnce ==
    \A r \in Requests : frees[r] = IF OwnedByOne(r) THEN 0 ELSE 1

(* On a medium that counts and evicts (ESP-NOW) the places above NormalMax  *)
(* are a reserve: once the queue is longer than that nothing in it could    *)
(* have been dropped instead, and it never exceeds ImportantMax.            *)
ReserveIsImportant ==
    /\ Len(queue) <= ImportantMax
    /\ Len(queue) > NormalMax => \A r \in Range(queue) : ~Droppable(r)

(* An accepted message is sent or given up by the worker, or evicted, unless *)
(* the queue is shut down; none stays in the queue for ever.                *)
AcceptedIsSettled ==
    \A r \in Requests : accepted[r] ~> (frees[r] = 1 \/ shutdown)
=============================================================================
