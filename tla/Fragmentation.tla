---------------------------- MODULE Fragmentation ----------------------------
(***************************************************************************)
(* Sending one large message in fragments (robusto_message_fragment.c).    *)
(*                                                                         *)
(* Three threads take part.  On the sending node the worker of the medium  *)
(* runs send_message_fragmented (Main), and the receive callback of the    *)
(* medium handles the peer's requests to resend and its result (Handler);  *)
(* both read and write the fragmented_message_t tx WITHOUT a lock.  On the *)
(* receiving node the receive callback (Receiver) owns rx.  Every access   *)
(* that the other thread can come between is a step of its own.            *)
(*                                                                         *)
(* fwd and bwd are what is on the air: in order, but any message may be    *)
(* lost and any fragment corrupted.  A fragment has no checksum of its     *)
(* own; only the whole message has.  Sizes and headers are left out.       *)
(***************************************************************************)
EXTENDS Integers, Sequences, FiniteSets, FiniteSetsExt

CONSTANTS
    N,              \* number of fragments
    MaxAttempts,    \* calls of send_message_fragmented for the message
    AirMax,         \* bound: messages on the air in one direction
    Lossy,          \* kinds of messages that may be lost
    MaxLosses,      \* bound: losses, or Unbounded
    MaxCorrupted,   \* bound: corrupted fragments
    Patient,        \* waits are long compared with what is on the air, and the
                    \*   total time does not run out
    Unbounded

ASSUME FragmentationAssumption ==
    /\ N \in Nat \ {0} /\ MaxAttempts \in Nat \ {0} /\ AirMax \in Nat \ {0}
    /\ Lossy \subseteq {"request", "fragment", "check", "resend", "result"}
    /\ MaxLosses \in Nat \cup {Unbounded} /\ MaxCorrupted \in Nat
    /\ Patient \in BOOLEAN

Frags == 1..N

VARIABLES
    tx,         \* the sender's fragmented_message_t
    main,       \* send_message_fragmented: place, fragment index, rc
    handler,    \* the sender's receive callback: place, index, attempt it holds
    rx,         \* the receiver's fragmented_message_t
    fwd, bwd,   \* on the air to the receiver and to the sender
    expired,    \* FRAG_TOTAL_WAIT_MS have passed since start_time
    attempts,   \* calls of send_message_fragmented
    delivered,  \* calls of robusto_handle_incoming with the whole message
    outcome,    \* what send_message_fragmented returned last
    lost, corrupted

net    == <<lost, corrupted>>
counts == <<attempts, delivered, outcome>>
vars   == <<tx, main, handler, rx, fwd, bwd, expired, counts, net>>

(* e_rob_state_t, in order.                                                 *)
Rank == [RUNNING |-> 1, PAUSED |-> 2, RETRYING |-> 3, DONE |-> 4,
         SUCCEEDED |-> 5, FAILED |-> 6]

Request     == [kind |-> "request"]
Fragment(i) == [kind |-> "fragment", i |-> i, good |-> TRUE]
Check       == [kind |-> "check"]
Resend(map) == [kind |-> "resend", map |-> map]
Outcome(ok) == [kind |-> "result", ok |-> ok]

Nothing == {}   \* received_fragments: the set of indexes marked 1

Places == {"idle", "request", "sending", "ending", "marking", "top", "waiting",
           "look", "awaiting", "recheck", "pausing", "judge", "switch", "delay",
           "finish"}

(* whole: all fragments are there and the hash is right; it has answered so *)
(* and is about to hand the message over.                                   *)
Received == [live : BOOLEAN, got : SUBSET Frags, bad : SUBSET Frags, last : 0..N,
             whole : BOOLEAN]

TypeOK ==
    /\ tx \in [live : BOOLEAN, abort : BOOLEAN, state : DOMAIN Rank, map : SUBSET Frags]
    /\ main \in [at : Places, i : 1..(N + 1), rc : {"none", "ok", "failed"}]
    /\ handler \in [at : {"idle", "resending", "marking"}, i : 1..(N + 1),
                    held : 0..MaxAttempts]
    /\ rx \in Received
    /\ Len(fwd) <= AirMax /\ Len(bwd) <= AirMax
    /\ expired \in BOOLEAN
    /\ attempts \in 0..MaxAttempts /\ delivered \in Nat
    /\ outcome \in {"none", "ok", "failed"}

Init ==
    /\ tx = [live |-> FALSE, abort |-> FALSE, state |-> "RUNNING", map |-> Nothing]
    /\ main = [at |-> "idle", i |-> 1, rc |-> "none"]
    /\ handler = [at |-> "idle", i |-> 1, held |-> 0]
    /\ rx = [live |-> FALSE, got |-> Nothing, bad |-> Nothing, last |-> 0, whole |-> FALSE]
    /\ fwd = <<>> /\ bwd = <<>>
    /\ expired = FALSE
    /\ attempts = 0 /\ delivered = 0 /\ outcome = "none"
    /\ lost = 0 /\ corrupted = 0

-----------------------------------------------------------------------------
InProgress(s) == Rank[s] < Rank["DONE"]

(* What is sent while the air is full is lost.                              *)
MaySend(air) == Len(air) < AirMax \/ MaxLosses = Unbounded
Sent(air, m) == IF Len(air) < AirMax THEN Append(air, m) ELSE air

Transmit(m) == MaySend(fwd) /\ fwd' = Sent(fwd, m)

(* A thread may give up waiting at any time, or, if time-outs are long, only *)
(* when nothing that could end the wait is under way.                       *)
MayTimeOut == Patient => fwd = <<>> /\ bwd = <<>> /\ handler.at = "idle"

MainAt(place) == main.at = place
MainGo(place) == main' = [main EXCEPT !.at = place]
Finish(rc)    == main' = [main EXCEPT !.at = "finish", !.rc = rc]

-----------------------------------------------------------------------------
(* Main: the worker in send_message_fragmented                              *)

(* The send callback is called, once or again by the retries of             *)
(* send_work_item: set up the frag_msg and put it on the list.              *)
Start ==
    /\ MainAt("idle")
    /\ attempts < MaxAttempts /\ outcome # "ok"
    /\ attempts' = attempts + 1
    /\ outcome' = "none"
    /\ tx' = [live |-> TRUE, abort |-> FALSE, state |-> "RUNNING", map |-> Nothing]
    /\ main' = [at |-> "request", i |-> 1, rc |-> "none"]
    /\ expired' = FALSE
    /\ UNCHANGED <<handler, rx, fwd, bwd, delivered, net>>

SendRequest ==
    /\ MainAt("request")
    /\ Transmit(Request)
    /\ \/ MainGo("sending")
       \/ "request" \in Lossy /\ Finish("failed")   \* it may have arrived even so
    /\ UNCHANGED <<tx, handler, rx, bwd, expired, counts, net>>

(* send_fragments, shared by both threads: one fragment of the message,     *)
(* skipped if the map says that the receiver has it.                        *)
NextFragment(i) ==
    IF i \in tx.map THEN UNCHANGED fwd ELSE Transmit(Fragment(i))

SendFragment ==
    /\ MainAt("sending")
    /\ NextFragment(main.i)
    /\ main' = [main EXCEPT !.i = @ + 1, !.at = IF main.i = N THEN "ending" ELSE @]
    /\ UNCHANGED <<tx, handler, rx, bwd, expired, counts, net>>

(* "We only set to done if none of the result states are set": a read ..    *)
EndSending ==
    /\ MainAt("ending")
    /\ MainGo(IF InProgress(tx.state) THEN "marking" ELSE "top")
    /\ UNCHANGED <<tx, handler, rx, fwd, bwd, expired, counts, net>>

(* .. and then a write.                                                     *)
MarkDone ==
    /\ MainAt("marking")
    /\ tx' = [tx EXCEPT !.state = "DONE"]
    /\ MainGo("top")
    /\ UNCHANGED <<handler, rx, fwd, bwd, expired, counts, net>>

NeverUp == FALSE

(* The loop is entered with the total time used up, or not.                 *)
TotalTimeUp == expired

GiveUp ==
    /\ MainAt("top")
    /\ TotalTimeUp
    /\ tx' = [tx EXCEPT !.abort = TRUE]
    /\ Finish("failed")
    /\ UNCHANGED <<handler, rx, fwd, bwd, expired, counts, net>>

StartWaiting ==
    /\ MainAt("top")
    /\ ~TotalTimeUp
    /\ MainGo("waiting")
    /\ UNCHANGED <<tx, handler, rx, fwd, bwd, expired, counts, net>>

(* FRAG_RUNNING_WAIT_MS, or FRAG_STATUS_WAIT_MS after a check, without       *)
(* becoming done: abort, and wait 1000 ms for the handler to notice.  The    *)
(* time that is up prevails over a state that changes just then.            *)
WaitTimesOut ==
    /\ MainAt("waiting")
    /\ Patient => InProgress(tx.state)
    /\ MayTimeOut
    /\ tx' = [tx EXCEPT !.abort = TRUE]
    /\ MainGo("delay")
    /\ UNCHANGED <<handler, rx, fwd, bwd, expired, counts, net>>

(* Those 1000 ms are longer than the sending of one fragment.               *)
Delayed ==
    /\ MainAt("delay")
    /\ handler.at = "idle"
    /\ Finish("failed")
    /\ UNCHANGED <<tx, handler, rx, fwd, bwd, expired, counts, net>>

(* From here on the state is read five times, and the handler may change it *)
(* before each of them.                                                     *)
WaitOver ==
    /\ MainAt("waiting")
    /\ ~InProgress(tx.state)
    /\ MainGo("look")
    /\ UNCHANGED <<tx, handler, rx, fwd, bwd, expired, counts, net>>

(* All fragments are sent: wait for the result ..                           *)
Look ==
    /\ MainAt("look")
    /\ MainGo(IF tx.state = "DONE" THEN "awaiting" ELSE "judge")
    /\ UNCHANGED <<tx, handler, rx, fwd, bwd, expired, counts, net>>

(* .. until there is one, or FRAG_RESULT_WAIT_MS are over ..                *)
AwaitResult ==
    /\ MainAt("awaiting")
    /\ tx.state # "DONE" \/ MayTimeOut
    /\ MainGo("recheck")
    /\ UNCHANGED <<tx, handler, rx, fwd, bwd, expired, counts, net>>

Recheck ==
    /\ MainAt("recheck")
    /\ MainGo(IF tx.state = "DONE" THEN "pausing" ELSE "judge")
    /\ UNCHANGED <<tx, handler, rx, fwd, bwd, expired, counts, net>>

(* .. and ask for it.  PAUSED is written whatever the state is by now.      *)
SendCheck ==
    /\ MainAt("pausing")
    /\ tx' = [tx EXCEPT !.state = "PAUSED"]
    /\ Transmit(Check)
    /\ MainGo("top")
    /\ UNCHANGED <<handler, rx, bwd, expired, counts, net>>

Judge ==
    /\ MainAt("judge")
    /\ IF tx.state = "SUCCEEDED" THEN Finish("ok") ELSE MainGo("switch")
    /\ UNCHANGED <<tx, handler, rx, fwd, bwd, expired, counts, net>>

(* The handler resends: keep waiting.  Anything else is a failure, also a   *)
(* state that the switch does not expect.                                   *)
Switch ==
    /\ MainAt("switch")
    /\ IF tx.state \in {"RETRYING", "PAUSED"} THEN MainGo("top") ELSE Finish("failed")
    /\ UNCHANGED <<tx, handler, rx, fwd, bwd, expired, counts, net>>

(* remove_fragmented_message, whoever still uses it, and return rc.         *)
Remove ==
    /\ MainAt("finish")
    /\ tx' = [tx EXCEPT !.live = FALSE]
    /\ outcome' = main.rc
    /\ MainGo("idle")
    /\ UNCHANGED <<handler, rx, fwd, bwd, expired, attempts, delivered, net>>

Expire ==
    /\ ~Patient /\ main.at # "idle" /\ ~expired
    /\ expired' = TRUE
    /\ UNCHANGED <<tx, main, handler, rx, fwd, bwd, counts, net>>

Main ==
    \/ Start \/ SendRequest \/ SendFragment \/ EndSending \/ MarkDone
    \/ GiveUp \/ StartWaiting \/ WaitTimesOut \/ Delayed \/ WaitOver \/ Look
    \/ AwaitResult \/ Recheck \/ SendCheck \/ Judge \/ Switch \/ Remove

-----------------------------------------------------------------------------
(* Handler: the receive callback on the sending node                        *)

Found == tx.live /\ ~tx.abort
Holds == tx.live /\ handler.held = attempts

Ignored ==
    /\ handler.at = "idle" /\ bwd # <<>>
    /\ ~Found
    /\ bwd' = Tail(bwd)
    /\ UNCHANGED <<tx, main, handler, rx, fwd, expired, counts, net>>

HandleAnyResult ==
    /\ handler.at = "idle" /\ bwd # <<>>
    /\ Found /\ Head(bwd).kind = "result"
    /\ tx' = [tx EXCEPT !.state = "SUCCEEDED"]
    /\ bwd' = Tail(bwd)
    /\ UNCHANGED <<main, handler, rx, fwd, expired, counts, net>>

HandleFragResult ==
    /\ handler.at = "idle" /\ bwd # <<>>
    /\ Found /\ Head(bwd).kind = "result"
    /\ tx' = [tx EXCEPT !.state = IF Head(bwd).ok THEN "SUCCEEDED" ELSE "FAILED"]
    /\ bwd' = Tail(bwd)
    /\ UNCHANGED <<main, handler, rx, fwd, expired, counts, net>>

HandleFragResend ==
    /\ handler.at = "idle" /\ bwd # <<>>
    /\ Found /\ Head(bwd).kind = "resend"
    /\ tx' = [tx EXCEPT !.state = "RETRYING", !.map = Head(bwd).map]
    /\ handler' = [at |-> "resending", i |-> 1, held |-> attempts]
    /\ bwd' = Tail(bwd)
    /\ UNCHANGED <<main, rx, fwd, expired, counts, net>>

HandlerIdle == handler' = [at |-> "idle", i |-> 1, held |-> 0]

ResendFragment ==
    /\ handler.at = "resending" /\ handler.i <= N
    /\ Holds /\ ~tx.abort
    /\ NextFragment(handler.i)
    /\ handler' = [handler EXCEPT !.i = @ + 1]
    /\ UNCHANGED <<tx, main, rx, bwd, expired, counts, net>>

ResendAborted ==
    /\ handler.at = "resending" /\ handler.i <= N
    /\ Holds /\ tx.abort
    /\ HandlerIdle
    /\ UNCHANGED <<tx, main, rx, fwd, bwd, expired, counts, net>>

EndResending ==
    /\ handler.at = "resending" /\ handler.i = N + 1
    /\ Holds
    /\ IF InProgress(tx.state) THEN handler' = [handler EXCEPT !.at = "marking"]
                               ELSE HandlerIdle
    /\ UNCHANGED <<tx, main, rx, fwd, bwd, expired, counts, net>>

ResendDone ==
    /\ handler.at = "marking"
    /\ Holds
    /\ tx' = [tx EXCEPT !.state = "DONE"]
    /\ HandlerIdle
    /\ UNCHANGED <<main, rx, fwd, bwd, expired, counts, net>>

(* Its frag_msg was freed: undefined behaviour, of which the model only     *)
(* follows the outcome that the handler stops.                              *)
UseAfterFree ==
    /\ handler.at # "idle"
    /\ ~Holds
    /\ HandlerIdle
    /\ UNCHANGED <<tx, main, rx, fwd, bwd, expired, counts, net>>

Handler == Ignored \/ HandleFragResult \/ HandleFragResend \/ ResendFragment
           \/ ResendAborted \/ EndResending \/ ResendDone \/ UseAfterFree

-----------------------------------------------------------------------------
(* Receiver: the receive callback on the receiving node                     *)

Reply(m) == MaySend(bwd) /\ bwd' = Sent(bwd, m)
Forget   == rx' = [live |-> FALSE, got |-> Nothing, bad |-> Nothing, last |-> 0,
                   whole |-> FALSE]

(* It is one thread: while it hands a message over it handles nothing else. *)
Arrives(kind) == fwd # <<>> /\ Head(fwd).kind = kind /\ ~rx.whole

(* A repeated request starts over in the same frag_msg, and keeps           *)
(* last_requested.                                                          *)
HandleFragRequest ==
    /\ Arrives("request")
    /\ rx' = [live |-> TRUE, got |-> Nothing, bad |-> Nothing, last |-> rx.last,
              whole |-> FALSE]
    /\ fwd' = Tail(fwd)
    /\ UNCHANGED <<tx, main, handler, bwd, expired, counts, net>>

(* check_fragments on the frag_msg r.  The good result goes out BEFORE the  *)
(* message is handed over.                                                  *)
CheckFragmentsQuiet(r, resend) ==
    LET missing == Frags \ r.got IN
    IF missing # {}
    THEN rx' = [r EXCEPT !.last = IF resend THEN @ ELSE Max(missing)] /\ UNCHANGED bwd
    ELSE /\ Reply(Outcome(r.bad = {}))
         /\ IF r.bad = {} THEN rx' = [r EXCEPT !.whole = TRUE] ELSE Forget

CheckFragments(r, resend) ==
    LET missing == Frags \ r.got IN
    IF missing # {}
    THEN /\ rx' = [r EXCEPT !.last = Max(missing)]
         /\ IF resend THEN Reply(Resend(r.got)) ELSE UNCHANGED bwd
    ELSE /\ Reply(Outcome(r.bad = {}))
         /\ IF r.bad = {} THEN rx' = [r EXCEPT !.whole = TRUE] ELSE Forget

HandOverKeeps ==
    /\ rx.whole
    /\ delivered' = delivered + 1
    /\ rx' = [rx EXCEPT !.whole = FALSE]
    /\ UNCHANGED <<tx, main, handler, fwd, bwd, expired, attempts, outcome, net>>

(* The call of robusto_handle_incoming, which may still refuse the message, *)
(* and remove_fragmented_message.                                           *)
HandOver ==
    /\ rx.whole
    /\ delivered' = delivered + 1
    /\ Forget
    /\ UNCHANGED <<tx, main, handler, fwd, bwd, expired, attempts, outcome, net>>

Store(f) == [rx EXCEPT !.got = @ \cup {f.i},
                       !.bad = IF f.good THEN @ \ {f.i} ELSE @ \cup {f.i}]

(* The last fragment, or the last one asked for, makes the receiver look    *)
(* for missing ones; only the latter makes it ask for them.                 *)
HandleFragMessage ==
    /\ Arrives("fragment") /\ rx.live
    /\ LET f == Head(fwd) IN
       IF f.i \in {rx.last, N}
       THEN CheckFragments(Store(f), f.i = rx.last)
       ELSE rx' = Store(f) /\ UNCHANGED bwd
    /\ fwd' = Tail(fwd)
    /\ UNCHANGED <<tx, main, handler, expired, counts, net>>

HandleFragCheck ==
    /\ Arrives("check") /\ rx.live
    /\ CheckFragments(rx, TRUE)
    /\ fwd' = Tail(fwd)
    /\ UNCHANGED <<tx, main, handler, expired, counts, net>>

InvalidReference ==
    /\ Arrives("fragment") \/ Arrives("check")
    /\ ~rx.live
    /\ fwd' = Tail(fwd)
    /\ UNCHANGED <<tx, main, handler, rx, bwd, expired, counts, net>>

Receiver == HandleFragRequest \/ HandleFragMessage \/ HandleFragCheck
            \/ InvalidReference \/ HandOver

-----------------------------------------------------------------------------
(* The air *)

CountLoss ==
    IF MaxLosses = Unbounded THEN UNCHANGED lost
    ELSE lost < MaxLosses /\ lost' = lost + 1

Lose ==
    /\ CountLoss
    /\ \/ fwd # <<>> /\ Head(fwd).kind \in Lossy /\ fwd' = Tail(fwd) /\ UNCHANGED bwd
       \/ bwd # <<>> /\ Head(bwd).kind \in Lossy /\ bwd' = Tail(bwd) /\ UNCHANGED fwd
    /\ UNCHANGED <<tx, main, handler, rx, expired, counts, corrupted>>

Corrupt ==
    /\ corrupted < MaxCorrupted
    /\ corrupted' = corrupted + 1
    /\ fwd # <<>> /\ Head(fwd).kind = "fragment" /\ Head(fwd).good
    /\ fwd' = [fwd EXCEPT ![1].good = FALSE]
    /\ UNCHANGED <<tx, main, handler, rx, bwd, expired, counts, lost>>

Next == Main \/ Expire \/ Handler \/ Receiver \/ Lose \/ Corrupt

Spec == Init /\ [][Next]_vars

(* The threads are scheduled and time passes; the air owes nothing.         *)
FairSpec == Spec /\ WF_vars(Main) /\ WF_vars(Handler) /\ WF_vars(Receiver)
                 /\ WF_vars(Expire)

-----------------------------------------------------------------------------
(* Properties *)

(* The whole message, checked, is with the peer: on its way into            *)
(* robusto_handle_incoming, or handed to it.                                *)
PeerHasIt == rx.whole \/ delivered > 0

(* However the two threads overwrite each other's states, and however late  *)
(* a result arrives: the sender is told of success only if the peer has     *)
(* the whole message.  That the peer's application was handed it would be   *)
(* too much: ROB_OK leaves before the call of robusto_handle_incoming.      *)
OkMeansThePeerHasIt == outcome = "ok" => PeerHasIt

(* Fragmented sending implements Transfer; beyond OkMeansThePeerHasIt: the  *)
(* peer completes and hands over the message at most once per attempt,      *)
(* whatever is lost, asked for again or late.                               *)
Promise == INSTANCE Transfer WITH complete <- delivered + (IF rx.whole THEN 1 ELSE 0)
ImplementsTransfer == Promise!TSpec

(* send_message_fragmented always returns, whatever is lost and however the *)
(* two threads of the sender interfere.                                     *)
AlwaysReturns == main.at # "idle" ~> main.at = "idle"

(* send_message_fragmented ends without success, time-out or result.        *)
EndedUnexpectedly ==
    MainAt("finish") /\ main.rc = "failed" /\ ~tx.abort /\ tx.state # "FAILED"

(* If only fragments are lost, a few of them, and time-outs are long, the   *)
(* message is delivered: the receiver asks again, or is asked.  No time-out *)
(* stops it; only the race between the reads of the state in Judge and in   *)
(* Switch can, with the "Internal error: .. unexpected state".              *)
LostFragmentsAreRecovered == <>(delivered > 0 \/ EndedUnexpectedly)
=============================================================================
