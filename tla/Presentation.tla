---------------------------- MODULE Presentation ----------------------------
(***************************************************************************)
(* How two nodes come to know each other (robusto_presentation.c): one     *)
(* sends a HI, the other adds it to its peers and answers with a HIR.      *)
(* Both run the same code, in several threads that share the state of the  *)
(* peer without a lock: the repeater presents to a peer that is unknown    *)
(* (monitor), a task presents after every medium has failed (recovery),    *)
(* the application after adding the peer (app), and the incoming worker    *)
(* handles presentations and replies to them (worker).                     *)
(*                                                                         *)
(* The state of the media is abstracted: the recovery starts when nothing  *)
(* has been heard for long, because the other side sends no heartbeats or  *)
(* a fault makes it look so, and a presentation tries up to Tries media.   *)
(* What is sent arrives at once or is lost; it then waits in the queue of  *)
(* the incoming worker, where two equal presentations are one.  The faults *)
(* are restarts, lost and late presentations, and recoveries without a     *)
(* cause.                                                                  *)
(***************************************************************************)
EXTENDS TwoNodes

CONSTANTS
    Adder,          \* those whose application adds the other at a start
    Tries           \* media that the application has the presentation try

ASSUME PresentationAssumption ==
    /\ Adder \subseteq Node
    /\ Tries \in Nat \ {0}

Requester == {"monitor", "recovery", "app"}     \* threads that send a HI
Thread == Requester \cup {"worker"}
Kind == {"HI", "HIR"}                   \* HI asks for an answer, HIR is one

VARIABLES
    state,      \* of the other node in the list of peers: NONE, if it is not in it
    thread,     \* where each thread is in robusto_send_presentation
    inbox       \* presentations in the queue of the incoming worker

presentationVars == <<state, thread, inbox, faults>>

(* fail is the state to fall back to, left the media still to be tried.     *)
IdleThread == [at |-> "idle", fail |-> "UNKNOWN", left |-> 0]
Replying == [at |-> "check", fail |-> "UNKNOWN", left |-> 1]

(* Who sends a request has just read a state that passes the check: if the  *)
(* check refused it now, that would be as if it had not come.               *)
Asking(tries) == [at |-> "mark", fail |-> "UNKNOWN", left |-> tries]

(* A request that has marked the peer as being presented to.                *)
Requesting(n) == \E t \in Requester :
    thread[n][t].at \in {"send", "wait", "slow", "next"}

(* At a start the application adds the peer, or it is recovered from        *)
(* relations[] (recover_relations), or neither.                             *)
Start(n) == {"recovered", IF n \in Adder THEN "app" ELSE "alone"}
StateAt(start) == IF start = "alone" THEN "NONE" ELSE "UNKNOWN"
ThreadsAt(start) == [t \in Thread |->
    IF t = start THEN Asking(Tries) ELSE IdleThread]

PresentationInit ==
    /\ \E start \in [Node -> {"alone", "recovered", "app"}] :
        /\ \A n \in Node : start[n] \in Start(n)
        /\ state = [n \in Node |-> StateAt(start[n])]
        /\ thread = [n \in Node |-> ThreadsAt(start[n])]
    /\ inbox = [n \in Node |-> {}]
    /\ faults = 0

Fault == faults < MaxFaults /\ faults' = faults + 1

Moves(n, t, place) == thread' = [thread EXCEPT ![n][t].at = place]
Leaves(n, t) == thread' = [thread EXCEPT ![n][t] = IdleThread]
Becomes(n, s) == state' = [state EXCEPT ![n] = s]

-------------------------------------------------------------------------------
(* robusto_send_presentation, one action for each access to the state.      *)

(* A reply is refused while a presentation is going on.                     *)
Checks(n) ==
    /\ thread[n]["worker"].at = "check"
    /\ IF state[n] = "PRESENTING" THEN Leaves(n, "worker")
       ELSE Moves(n, "worker", "mark")
    /\ UNCHANGED <<state, inbox, faults>>

(* A fault: the state is read after the mark was set.                       *)
MarksFirst(n, t) ==
    /\ thread[n][t].at = "mark"
    /\ state' = IF t = "worker" THEN state
                ELSE [state EXCEPT ![n] = "PRESENTING"]
    /\ thread' = [thread EXCEPT ![n][t].at = "send", ![n][t].fail = state'[n]]
    /\ UNCHANGED <<inbox, faults>>

(* A request marks the peer and falls back to UNKNOWN, a reply falls back   *)
(* to the state it finds.                                                   *)
Marks(n, t) ==
    /\ thread[n][t].at = "mark"
    /\ IF t = "worker"
       THEN /\ thread' = [thread EXCEPT ![n][t] =
                    [@ EXCEPT !.at = "send", !.fail = state[n]]]
            /\ UNCHANGED state
       ELSE Becomes(n, "PRESENTING") /\ Moves(n, t, "send")
    /\ UNCHANGED <<inbox, faults>>

Message(t) == IF t = "worker" THEN "HIR" ELSE "HI"
Tried(n, t, place) == thread' =
    [thread EXCEPT ![n][t] =
        [@ EXCEPT !.at = place, !.left = thread[n][t].left - 1]]
FallBack(n, t) == Becomes(n, thread[n][t].fail)

(* It is sent, the state becomes own, and the receive callback of the other *)
(* side adds an unknown sender to its peers and queues what came.           *)
Reaches(n, t, own) ==
    /\ inbox' = [inbox EXCEPT ![Other(n)] = @ \cup {Message(t)}]
    /\ state' = [state EXCEPT ![Other(n)] = IF @ = "NONE" THEN "UNKNOWN" ELSE @,
                              ![n] = own]

(* The worker of the medium has sent it: a reply is done and writes the     *)
(* state, a request waits for the answer.  It arrives, or it is lost.       *)
Sent(n, t) ==
    /\ thread[n][t].at = "send"
    /\ Tried(n, t, IF t = "worker" THEN "next" ELSE "wait")
Own(n, t) == IF t = "worker" THEN thread[n][t].fail ELSE state[n]
SendPasses(n, t) ==
    /\ Sent(n, t) /\ Reaches(n, t, Own(n, t))
    /\ UNCHANGED faults
Loses(n, t) ==
    /\ Sent(n, t) /\ Becomes(n, Own(n, t))
    /\ Fault /\ UNCHANGED inbox

(* The queue refuses it, and the state is not written; or it is not sent,   *)
(* or only after PRESENTATION_QUEUE_WAIT_MS, and it is.                     *)
SendFails(n, t, why) ==
    /\ thread[n][t].at = "send"
    /\ Tried(n, t, "next")
    /\ CASE why = "refused" -> UNCHANGED <<state, inbox>>
         [] why = "failed"  -> FallBack(n, t) /\ UNCHANGED inbox
         [] why = "late"    -> Reaches(n, t, thread[n][t].fail)
    /\ Fault

(* Waiting 1500 ms for PEER_KNOWN_INSECURE.                                 *)
Answered(n, t) ==
    /\ thread[n][t].at = "wait" /\ state[n] = "KNOWN"
    /\ Leaves(n, t)
    /\ UNCHANGED <<state, inbox, faults>>

(* No answer came, and nothing that takes milliseconds is under way, unless *)
(* that takes too long.                                                     *)
Quiet ==
    /\ \A n \in Node : inbox[n] = {}
    /\ \A n \in Node, t \in Thread : thread[n][t].at \in {"idle", "wait"}
GivesUp(n, t) ==
    /\ thread[n][t].at = "wait" /\ state[n] # "KNOWN"
    /\ IF Quiet THEN UNCHANGED faults ELSE Fault
    /\ Moves(n, t, "slow")
    /\ UNCHANGED <<state, inbox>>

(* ..and the state is written after the time-out, whatever it is by then.   *)
FallsBack(n, t) ==
    /\ thread[n][t].at = "slow"
    /\ FallBack(n, t) /\ Moves(n, t, "next")
    /\ UNCHANGED <<inbox, faults>>

(* The next medium, or the end: a peer that is not known is left at the     *)
(* state to fall back to.                                                   *)
Unsettled(n) == state[n] \in {"UNKNOWN", "PRESENTING"}
GoesOn(n, t) ==
    /\ thread[n][t].at = "next"
    /\ thread[n][t].left > 0 /\ Unsettled(n)
    /\ Moves(n, t, "send")
    /\ UNCHANGED <<state, inbox, faults>>
Ends(n, t) ==
    /\ thread[n][t].at = "next"
    /\ thread[n][t].left = 0 \/ ~ Unsettled(n)
    /\ IF Unsettled(n) THEN FallBack(n, t) ELSE UNCHANGED state
    /\ Leaves(n, t)
    /\ UNCHANGED <<inbox, faults>>

Presents(n, t) ==
    \/ Marks(n, t) \/ SendPasses(n, t) \/ Answered(n, t) \/ GivesUp(n, t)
    \/ FallsBack(n, t) \/ GoesOn(n, t) \/ Ends(n, t)

-------------------------------------------------------------------------------
(* The incoming worker.                                                     *)

(* A fault: a peer that is known already gets no answer.                    *)
HandleNewcomer(n, k) ==
    /\ k \in inbox[n] /\ thread[n]["worker"].at = "idle"
    /\ inbox' = [inbox EXCEPT ![n] = @ \ {k}]
    /\ Becomes(n, "KNOWN")
    /\ thread' = IF k = "HI" /\ state[n] # "KNOWN"
                 THEN [thread EXCEPT ![n]["worker"] = Replying] ELSE thread
    /\ UNCHANGED faults

(* robusto_handle_presentation: the peer is known, and a HI is answered by  *)
(* the medium it came by.                                                   *)
Handle(n, k) ==
    /\ k \in inbox[n] /\ thread[n]["worker"].at = "idle"
    /\ inbox' = [inbox EXCEPT ![n] = @ \ {k}]
    /\ Becomes(n, "KNOWN")
    /\ thread' = IF k = "HI" THEN [thread EXCEPT ![n]["worker"] = Replying]
                 ELSE thread
    /\ UNCHANGED faults

-------------------------------------------------------------------------------
(* What makes a node present itself.                                        *)

(* qos_state_cb and any_state: the monitor presents to an unknown peer.     *)
FindsUnknown(n) ==
    /\ thread[n]["monitor"].at = "idle"
    /\ state[n] = "UNKNOWN"
    /\ thread' = [thread EXCEPT ![n]["monitor"] = Asking(1)]
    /\ UNCHANGED <<state, inbox, faults>>

(* The node has been left at PRESENTING: nobody will write the state, and   *)
(* peer_heartbeat and check_peer skip the peer.                             *)
Left(n) == state[n] = "PRESENTING" /\ ~ Requesting(n)

(* task_recover: nothing has been heard of a known peer by any medium, so   *)
(* we may be forgotten.  A peer is silent when it does not know the node or *)
(* is kept from sending heartbeats; it looks silent when they are lost.     *)
Silent(m) ==
    /\ state[m] = "NONE" \/ Left(m)
    /\ inbox[m] = {} /\ \A t \in Thread : thread[m][t].at = "idle"
Forsaken(n) ==
    /\ thread[n]["recovery"].at = "idle"
    /\ state[n] = "KNOWN"
    /\ thread' = [thread EXCEPT ![n]["recovery"] = Asking(1)]
    /\ UNCHANGED <<state, inbox>>
Recovers(n) == Forsaken(n) /\ Silent(Other(n)) /\ UNCHANGED faults
RecoversInVain(n) == Forsaken(n) /\ Fault

-------------------------------------------------------------------------------
Restarts(n, start) ==
    /\ Fault
    /\ Becomes(n, StateAt(start))
    /\ thread' = [thread EXCEPT ![n] = ThreadsAt(start)]
    /\ inbox' = [inbox EXCEPT ![n] = {}]

PresentationNext == \E n \in Node :
    \/ \E t \in Thread :
        \/ Presents(n, t) \/ Loses(n, t)
        \/ \E why \in {"refused", "failed", "late"} : SendFails(n, t, why)
    \/ Checks(n) \/ \E k \in Kind : Handle(n, k)
    \/ FindsUnknown(n) \/ Recovers(n) \/ RecoversInVain(n)
    \/ \E start \in Start(n) : Restarts(n, start)

(* Every thread is scheduled, the repeater and the checks come back, and    *)
(* what is not lost is sent.                                                *)
Worker(n) == Checks(n) \/ Presents(n, "worker") \/ \E k \in Kind : Handle(n, k)
MonitorThread(n) == Presents(n, "monitor") \/ FindsUnknown(n)
Recovery(n) == Presents(n, "recovery") \/ Recovers(n)
Fairness == \A n \in Node :
    /\ WF_presentationVars(Worker(n)) /\ WF_presentationVars(Presents(n, "app"))
    /\ WF_presentationVars(MonitorThread(n)) /\ WF_presentationVars(Recovery(n))

PresentationSpec == PresentationInit /\ [][PresentationNext]_presentationVars /\ Fairness

-------------------------------------------------------------------------------
PeerState == {"NONE", "UNKNOWN", "PRESENTING", "KNOWN"}
Place == {"idle", "check", "mark", "send", "wait", "slow", "next"}

(* Every variable keeps its shape.                                          *)
PresentationTypeOK ==
    /\ state \in [Node -> PeerState]
    /\ thread \in [Node -> [Thread ->
            [at : Place, fail : PeerState, left : 0..Tries]]]
    /\ inbox \in [Node -> SUBSET Kind]
    /\ faults \in 0..MaxFaults

(* Whatever was lost, late or restarted, the nodes end up knowing each      *)
(* other, unless both have lost the other or one has been left marked as    *)
(* presenting (any_state, task_recover, robusto_handle_presentation).       *)
AllIn(s) == \A n \in Node : state[n] = s
Reunited == <>[](AllIn("KNOWN") \/ AllIn("NONE") \/ \E n \in Node : Left(n))

(* A request never leaves the mark it has set, however it ends and whatever *)
(* other threads do meanwhile: the one step that leaves it is a reply that  *)
(* writes back what it read (robusto_send_presentation).                    *)
OnlyRepliesLeaveMarks == [][ \A n \in Node :
    Left(n)' /\ ~ Left(n) => thread[n]["worker"].fail = "PRESENTING" ]_presentationVars
===============================================================================
