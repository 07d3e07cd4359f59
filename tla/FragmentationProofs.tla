------------------------ MODULE FragmentationProofs ------------------------
(* Proofs about Fragmentation for any number of fragments and attempts, any *)
(* bounds on the air and any losses and corruption.                         *)
EXTENDS Fragmentation, SequenceTheorems, FiniteSetTheorems, WellFoundedInduction, TLAPS

(* What may be on the air to the receiver and back.                         *)
ToReceiver == {Request, Check} \cup [kind : {"fragment"}, i : Frags, good : BOOLEAN]
ToSender   == [kind : {"resend"}, map : SUBSET Frags]
              \cup [kind : {"result"}, ok : BOOLEAN]

AirOK ==
    /\ fwd \in Seq(ToReceiver) /\ bwd \in Seq(ToSender)
    /\ main.at = "request" => main.i = 1
    /\ main.at = "sending" => main.i \in Frags
    /\ handler.at = "marking" => handler.i = N + 1

ResultsOnAir ==
    \A j \in 1..Len(bwd) : bwd[j].kind = "result" /\ bwd[j].ok => PeerHasIt

(* Success stands in four places on its way from the receiver to the caller: *)
(* none of them shows it before the peer has the whole message.             *)
SuccessIsTrue ==
    /\ outcome = "ok" => PeerHasIt
    /\ main.rc = "ok" => PeerHasIt
    /\ tx.state = "SUCCEEDED" => PeerHasIt
    /\ ResultsOnAir

FragInv == TypeOK /\ AirOK /\ SuccessIsTrue

(* A set of fragment indexes has a last one.                                *)
LEMMA LastFragment ==
    ASSUME NEW S \in SUBSET Frags, S # {}
    PROVE  Max(S) \in S
  <1> USE FragmentationAssumption DEF Frags
  <1> DEFINE T == {n \in Nat : N - n \in S}
             R == OpToRel(<, Nat)
  <1>1. T \subseteq Nat /\ T # {}
    <2>1. PICK x \in S : TRUE
      OBVIOUS
    <2>2. N - x \in Nat /\ N - (N - x) = x
      OBVIOUS
    <2> QED BY <2>2
  <1>2. PICK n \in T : \A m \in T : ~ (<<m, n>> \in R)
    <2> HIDE DEF T, R
    <2> QED BY <1>1, NatLessThanWellFounded, WFMin, Zenon DEF R
  <1>3. \A m \in T : ~ (m < n)
    BY <1>1, <1>2 DEF OpToRel
  <1>4. N - n \in S /\ \A y \in S : N - n >= y
    <2>1. ASSUME NEW y \in S PROVE N - n >= y
      <3>1. N - y \in T
        BY N - y \in Nat, N - (N - y) = y
      <3>2. n \in Nat /\ ~ (N - y < n)
        BY <1>3, <3>1
      <3> QED BY <3>2, y \in Int
    <2> QED BY <2>1
  <1> QED BY <1>4, Zenon DEF Max

(* What happens to the air: sending, receiving and losing.                  *)
LEMMA AirSent ==
    ASSUME NEW S, NEW air \in Seq(S), NEW m \in S, Len(air) <= AirMax
    PROVE  /\ Sent(air, m) \in Seq(S) /\ Len(Sent(air, m)) <= AirMax
           /\ \A j \in 1..Len(Sent(air, m)) :
                 \/ Sent(air, m)[j] = m
                 \/ j \in 1..Len(air) /\ Sent(air, m)[j] = air[j]
  BY FragmentationAssumption DEF Sent

LEMMA AirReceived ==
    ASSUME NEW S, NEW air \in Seq(S), air # <<>>, Len(air) <= AirMax
    PROVE  /\ Tail(air) \in Seq(S) /\ Len(Tail(air)) <= AirMax
           /\ Head(air) \in S /\ Len(air) >= 1 /\ Head(air) = air[1]
           /\ \A j \in 1..Len(Tail(air)) :
                 j + 1 \in 1..Len(air) /\ Tail(air)[j] = air[j + 1]
  BY FragmentationAssumption

LEMMA FragInit == Init => FragInv
  <1> SUFFICES ASSUME Init PROVE FragInv
    OBVIOUS
  <1> USE FragmentationAssumption
  <1>1. "RUNNING" \in DOMAIN Rank
    BY DEF Rank
  <1>2. TypeOK
    <2>1. tx \in [live : BOOLEAN, abort : BOOLEAN, state : DOMAIN Rank, map : SUBSET Frags]
      BY <1>1 DEF Init, Nothing
    <2>2. main \in [at : Places, i : 1..(N + 1), rc : {"none", "ok", "failed"}]
      BY DEF Init, Places
    <2>3. handler \in [at : {"idle", "resending", "marking"}, i : 1..(N + 1),
                      held : 0..MaxAttempts]
      BY DEF Init
    <2>4. rx \in Received
      BY DEF Init, Received, Nothing
    <2>5. Len(fwd) <= AirMax /\ Len(bwd) <= AirMax
      BY DEF Init
    <2> QED BY <2>1, <2>2, <2>3, <2>4, <2>5 DEF Init, TypeOK
  <1>3. fwd \in Seq(ToReceiver) /\ bwd \in Seq(ToSender) /\ Len(bwd) = 0
    BY DEF Init
  <1>4. AirOK /\ SuccessIsTrue
    BY <1>3 DEF Init, AirOK, SuccessIsTrue, ResultsOnAir
  <1> QED BY <1>2, <1>4 DEF FragInv

(* A reply goes on the air: a good result only if the peer has the message. *)
LEMMA ReplyFacts ==
    ASSUME bwd \in Seq(ToSender), Len(bwd) <= AirMax, ResultsOnAir, PeerHasIt => PeerHasIt',
           NEW m \in ToSender, bwd' = Sent(bwd, m), m.kind = "result" /\ m.ok => PeerHasIt'
    PROVE  bwd' \in Seq(ToSender) /\ Len(bwd') <= AirMax /\ ResultsOnAir'
  <1>1. /\ Sent(bwd, m) \in Seq(ToSender) /\ Len(Sent(bwd, m)) <= AirMax
        /\ \A j \in 1..Len(Sent(bwd, m)) :
              \/ Sent(bwd, m)[j] = m
              \/ j \in 1..Len(bwd) /\ Sent(bwd, m)[j] = bwd[j]
    BY FragmentationAssumption DEF Sent
  <1> QED BY <1>1 DEF ResultsOnAir

(* What check_fragments does to the receiver and to the air towards the     *)
(* sender, whichever of its callers calls it.                               *)
LEMMA CheckFragmentsFacts ==
    ASSUME bwd \in Seq(ToSender), Len(bwd) <= AirMax, delivered' = delivered, ResultsOnAir,
           ~rx.whole,
           NEW r \in Received, ~r.whole, NEW resend \in BOOLEAN, CheckFragments(r, resend)
    PROVE  /\ rx' \in Received
           /\ PeerHasIt => PeerHasIt'
           /\ bwd' \in Seq(ToSender) /\ Len(bwd') <= AirMax
           /\ ResultsOnAir'
  <1> DEFINE missing == Frags \ r.got
  <1>0. PeerHasIt => PeerHasIt'
    BY DEF PeerHasIt
  <1>1. CASE missing # {}
    <2> DEFINE last == Max(missing)
    <2>1. last \in Frags
      BY <1>1, LastFragment
    <2>2. rx' = [r EXCEPT !.last = last]
      BY <1>1, Zenon DEF CheckFragments
    <2> HIDE DEF last
    <2>3. rx' \in Received
      BY <2>1, <2>2, FragmentationAssumption DEF Received, Frags
    <2>4. CASE resend
      <3> DEFINE m == Resend(r.got)
      <3>1. m \in ToSender /\ m.kind = "resend"
        BY DEF Resend, ToSender, Received
      <3>2. bwd' = Sent(bwd, m)
        BY <1>1, <2>4 DEF CheckFragments, Reply
      <3> HIDE DEF m
      <3>3. bwd' \in Seq(ToSender) /\ Len(bwd') <= AirMax /\ ResultsOnAir'
        BY <1>0, <3>1, <3>2, ReplyFacts
      <3> QED BY <1>0, <2>3, <3>3
    <2>5. CASE ~resend
      <3>1. bwd' = bwd
        BY <1>1, <2>5 DEF CheckFragments
      <3> QED BY <1>0, <2>3, <3>1 DEF ResultsOnAir
    <2> QED BY <2>4, <2>5
  <1>2. CASE missing = {}
    <2> DEFINE m == Outcome(r.bad = {})
    <2>1. m \in ToSender /\ (m.ok => r.bad = {})
      BY DEF Outcome, ToSender
    <2>2. /\ bwd' = Sent(bwd, m)
          /\ IF r.bad = {} THEN rx' = [r EXCEPT !.whole = TRUE] ELSE Forget
      BY <1>2 DEF CheckFragments, Reply
    <2>3. rx' \in Received /\ (r.bad = {} => rx'.whole)
      <3>1. CASE r.bad = {}
        <4>1. rx' = [r EXCEPT !.whole = TRUE]
          BY <2>2, <3>1
        <4> QED BY <4>1 DEF Received
      <3>2. CASE r.bad # {}
        <4>1. Forget
          BY <2>2, <3>2
        <4>2. rx' \in Received
          BY <4>1, FragmentationAssumption DEF Forget, Nothing, Received
        <4> QED BY <3>2, <4>2
      <3> QED BY <3>1, <3>2
    <2> HIDE DEF m
    <2>4. m.ok => PeerHasIt'
      BY <2>1, <2>3 DEF PeerHasIt
    <2>5. bwd' \in Seq(ToSender) /\ Len(bwd') <= AirMax /\ ResultsOnAir'
      BY <1>0, <2>1, <2>2, <2>4, ReplyFacts
    <2> QED BY <1>0, <2>3, <2>5
  <1> QED BY <1>1, <1>2

FwdOK == fwd \in Seq(ToReceiver) /\ Len(fwd) <= AirMax
BwdOK == bwd \in Seq(ToSender) /\ Len(bwd) <= AirMax /\ ResultsOnAir

LEMMA TransmitFacts ==
    ASSUME FwdOK, NEW m \in ToReceiver, Transmit(m)
    PROVE  FwdOK'
  <1>1. Sent(fwd, m) \in Seq(ToReceiver) /\ Len(Sent(fwd, m)) <= AirMax
    BY AirSent DEF FwdOK
  <1> QED BY <1>1 DEF Transmit, FwdOK

LEMMA NextFragmentFacts ==
    ASSUME FwdOK, NEW i \in Frags, NextFragment(i)
    PROVE  FwdOK'
  <1>1. Fragment(i) \in ToReceiver
    BY DEF Fragment, ToReceiver
  <1>2. CASE Transmit(Fragment(i))
    BY <1>1, <1>2, TransmitFacts
  <1>3. CASE UNCHANGED fwd
    BY <1>3 DEF FwdOK
  <1> QED BY <1>2, <1>3 DEF NextFragment

LEMMA FwdReceived ==
    ASSUME FwdOK, fwd # <<>>, fwd' = Tail(fwd)
    PROVE  FwdOK' /\ Head(fwd) \in ToReceiver
  BY AirReceived DEF FwdOK

LEMMA BwdReceived ==
    ASSUME BwdOK, bwd # <<>>, bwd' = Tail(bwd), PeerHasIt => PeerHasIt'
    PROVE  /\ BwdOK' /\ Head(bwd) \in ToSender
           /\ Head(bwd).kind = "result" /\ Head(bwd).ok => PeerHasIt
  <1>1. /\ Tail(bwd) \in Seq(ToSender) /\ Len(Tail(bwd)) <= AirMax
        /\ Head(bwd) \in ToSender /\ Len(bwd) >= 1 /\ Head(bwd) = bwd[1]
        /\ \A j \in 1..Len(Tail(bwd)) :
              j + 1 \in 1..Len(bwd) /\ Tail(bwd)[j] = bwd[j + 1]
    BY AirReceived DEF BwdOK
  <1>2. ResultsOnAir'
    BY <1>1 DEF BwdOK, ResultsOnAir
  <1>3. 1 \in 1..Len(bwd)
    BY <1>1
  <1> QED BY <1>1, <1>2, <1>3 DEF BwdOK, ResultsOnAir

-----------------------------------------------------------------------------
(* The state of the three threads, apart from the air.                      *)
ThreadsOK ==
    /\ tx \in [live : BOOLEAN, abort : BOOLEAN, state : DOMAIN Rank, map : SUBSET Frags]
    /\ main \in [at : Places, i : 1..(N + 1), rc : {"none", "ok", "failed"}]
    /\ handler \in [at : {"idle", "resending", "marking"}, i : 1..(N + 1),
                    held : 0..MaxAttempts]
    /\ rx \in Received
    /\ expired \in BOOLEAN /\ attempts \in 0..MaxAttempts /\ delivered \in Nat
    /\ outcome \in {"none", "ok", "failed"}
    /\ main.at = "request" => main.i = 1
    /\ main.at = "sending" => main.i \in Frags
    /\ handler.at = "marking" => handler.i = N + 1
    /\ outcome = "ok" => PeerHasIt
    /\ main.rc = "ok" => PeerHasIt
    /\ tx.state = "SUCCEEDED" => PeerHasIt

LEMMA Parts == /\ FragInv <=> ThreadsOK /\ FwdOK /\ BwdOK
               /\ FragInv' <=> ThreadsOK' /\ FwdOK' /\ BwdOK'
  BY DEF FragInv, TypeOK, AirOK, SuccessIsTrue, ThreadsOK, FwdOK, BwdOK

(* The worker goes to another place, or to the end with a verdict.          *)
LEMMA Goes ==
    ASSUME ThreadsOK, NEW p \in Places, p \notin {"request", "sending"},
           main' = [main EXCEPT !.at = p], UNCHANGED <<tx, handler, rx, expired, counts>>
    PROVE  ThreadsOK'
  <1>1. /\ main' \in [at : Places, i : 1..(N + 1), rc : {"none", "ok", "failed"}]
        /\ main'.at = p /\ main'.rc = main.rc
    BY DEF ThreadsOK
  <1> QED BY <1>1 DEF ThreadsOK, counts, PeerHasIt

LEMMA Finishes ==
    ASSUME ThreadsOK, NEW r \in {"ok", "failed"}, r = "ok" => PeerHasIt,
           main' = [main EXCEPT !.at = "finish", !.rc = r],
           UNCHANGED <<tx, handler, rx, expired, counts>>
    PROVE  ThreadsOK'
  <1>1. /\ main' \in [at : Places, i : 1..(N + 1), rc : {"none", "ok", "failed"}]
        /\ main'.at = "finish" /\ main'.rc = r
    BY DEF ThreadsOK, Places
  <1> QED BY <1>1 DEF ThreadsOK, counts, PeerHasIt

(* A step of the worker.                                                    *)
LEMMA MainStep == ASSUME FragInv, Main PROVE FragInv'
  <1>0. ThreadsOK /\ FwdOK /\ BwdOK
    BY Parts
  <1> USE FragmentationAssumption DEF MainAt, MainGo, Finish, Places, Frags, net, counts, PeerHasIt
  <1>1. ASSUME UNCHANGED <<fwd, bwd, rx, delivered>>, ThreadsOK' PROVE FragInv'
    BY <1>0, <1>1, Parts DEF FwdOK, BwdOK, ResultsOnAir
  <1>2. ASSUME UNCHANGED <<bwd, rx, delivered>>, FwdOK', ThreadsOK' PROVE FragInv'
    BY <1>0, <1>2, Parts DEF BwdOK, ResultsOnAir
  <1>3. CASE Start
    <2>1. /\ tx' \in [live : BOOLEAN, abort : BOOLEAN, state : DOMAIN Rank, map : SUBSET Frags]
          /\ tx'.state # "SUCCEEDED"
      BY <1>3 DEF Start, Nothing, Rank
    <2>2. /\ main' \in [at : Places, i : 1..(N + 1), rc : {"none", "ok", "failed"}]
          /\ main'.at = "request" /\ main'.i = 1 /\ main'.rc = "none"
      BY <1>3 DEF Start
    <2>3. attempts' \in 0..MaxAttempts
      BY <1>0, <1>3 DEF Start, ThreadsOK
    <2>4. ThreadsOK'
      BY <1>0, <1>3, <2>1, <2>2, <2>3 DEF Start, ThreadsOK
    <2> QED BY <1>1, <1>3, <2>4 DEF Start
  <1>4. CASE SendRequest
    <2>1. FwdOK'
      BY <1>0, <1>4, TransmitFacts, Request \in ToReceiver DEF SendRequest, ToReceiver, Request
    <2>2. /\ main' \in [at : Places, i : 1..(N + 1), rc : {"none", "ok", "failed"}]
          /\ main'.at \in {"sending", "finish"} /\ main'.i = 1
          /\ main'.rc = "ok" => main.rc = "ok"
      <3>1. CASE MainGo("sending")
        BY <1>0, <1>4, <3>1 DEF SendRequest, ThreadsOK
      <3>2. CASE Finish("failed")
        BY <1>0, <1>4, <3>2 DEF SendRequest, ThreadsOK
      <3> QED BY <1>4, <3>1, <3>2 DEF SendRequest
    <2>3. ThreadsOK'
      BY <1>0, <1>4, <2>2 DEF SendRequest, ThreadsOK
    <2> QED BY <1>2, <1>4, <2>1, <2>3 DEF SendRequest
  <1>5. CASE SendFragment
    <2>1. FwdOK'
      BY <1>0, <1>5, NextFragmentFacts DEF SendFragment, ThreadsOK
    <2>2. /\ main' \in [at : Places, i : 1..(N + 1), rc : {"none", "ok", "failed"}]
          /\ main'.at = "sending" => main'.i \in Frags
          /\ main'.at # "request" /\ main'.rc = main.rc
      <3> DEFINE at == IF main.i = N THEN "ending" ELSE main.at
      <3>1. main' = [main EXCEPT !.i = main.i + 1, !.at = at]
        BY <1>5 DEF SendFragment
      <3>2. /\ main.at = "sending" /\ main.i \in 1..N /\ N \in Nat
            /\ main \in [at : Places, i : 1..(N + 1), rc : {"none", "ok", "failed"}]
        BY <1>0, <1>5 DEF SendFragment, ThreadsOK
      <3>3. /\ at \in {"sending", "ending"} /\ main.i + 1 \in 1..(N + 1)
            /\ at = "sending" => main.i + 1 \in 1..N
        BY <3>2
      <3> HIDE DEF at
      <3> QED BY <3>1, <3>2, <3>3
    <2>3. ThreadsOK'
      BY <1>0, <1>5, <2>2 DEF SendFragment, ThreadsOK
    <2> QED BY <1>2, <1>5, <2>1, <2>3 DEF SendFragment
  <1>6. CASE EndSending
    <2>1. PICK p \in {"marking", "top"} : main' = [main EXCEPT !.at = p]
      BY <1>6 DEF EndSending
    <2> QED BY <1>0, <1>1, <1>6, <2>1, Goes DEF EndSending
  <1>7. CASE MarkDone
    BY <1>0, <1>1, <1>7 DEF MarkDone, ThreadsOK, Rank
  <1>8. CASE GiveUp
    BY <1>0, <1>1, <1>8 DEF GiveUp, ThreadsOK
  <1>9. CASE StartWaiting
    BY <1>0, <1>1, <1>9, Goes DEF StartWaiting
  <1>10. CASE WaitTimesOut
    BY <1>0, <1>1, <1>10 DEF WaitTimesOut, ThreadsOK
  <1>11. CASE Delayed
    BY <1>0, <1>1, <1>11, Finishes DEF Delayed
  <1>12. CASE WaitOver
    BY <1>0, <1>1, <1>12, Goes DEF WaitOver
  <1>13. CASE Look
    <2>1. PICK p \in {"awaiting", "judge"} : main' = [main EXCEPT !.at = p]
      BY <1>13 DEF Look
    <2> QED BY <1>0, <1>1, <1>13, <2>1, Goes DEF Look
  <1>14. CASE AwaitResult
    BY <1>0, <1>1, <1>14, Goes DEF AwaitResult
  <1>15. CASE Recheck
    <2>1. PICK p \in {"pausing", "judge"} : main' = [main EXCEPT !.at = p]
      BY <1>15 DEF Recheck
    <2> QED BY <1>0, <1>1, <1>15, <2>1, Goes DEF Recheck
  <1>16. CASE SendCheck
    <2>1. FwdOK'
      <3>1. Check \in ToReceiver
        BY DEF ToReceiver
      <3>2. CASE Transmit(Check)
        BY <1>0, <3>1, <3>2, TransmitFacts, Zenon
      <3>3. CASE UNCHANGED fwd
        BY <1>0, <3>3 DEF FwdOK
      <3> QED BY <1>16, <3>2, <3>3 DEF SendCheck
    <2>2. ThreadsOK'
      BY <1>0, <1>16 DEF SendCheck, ThreadsOK, Rank
    <2> QED BY <1>2, <1>16, <2>1, <2>2 DEF SendCheck
  <1>17. CASE Judge
    <2>1. UNCHANGED <<tx, handler, rx, fwd, bwd, expired, counts>>
      BY <1>17 DEF Judge
    <2>2. CASE tx.state = "SUCCEEDED"
      <3>1. PeerHasIt /\ main' = [main EXCEPT !.at = "finish", !.rc = "ok"]
        BY <1>0, <1>17, <2>2 DEF Judge, ThreadsOK
      <3> QED BY <1>0, <1>1, <2>1, <3>1, Finishes
    <2>3. CASE tx.state # "SUCCEEDED"
      <3>1. main' = [main EXCEPT !.at = "switch"]
        BY <1>17, <2>3 DEF Judge
      <3> QED BY <1>0, <1>1, <2>1, <3>1, Goes
    <2> QED BY <2>2, <2>3
  <1>18. CASE Switch
    <2>1. UNCHANGED <<tx, handler, rx, fwd, bwd, expired, counts>>
      BY <1>18 DEF Switch
    <2>2. \/ main' = [main EXCEPT !.at = "top"]
          \/ main' = [main EXCEPT !.at = "finish", !.rc = "failed"]
      BY <1>18 DEF Switch
    <2>3. CASE main' = [main EXCEPT !.at = "top"]
      BY <1>0, <1>1, <2>1, <2>3, Goes
    <2>4. CASE main' = [main EXCEPT !.at = "finish", !.rc = "failed"]
      BY <1>0, <1>1, <2>1, <2>4, Finishes
    <2> QED BY <2>2, <2>3, <2>4
  <1>19. CASE Remove
    BY <1>0, <1>1, <1>19 DEF Remove, ThreadsOK
  <1> QED BY <1>3, <1>4, <1>5, <1>6, <1>7, <1>8, <1>9, <1>10, <1>11, <1>12, <1>13,
             <1>14, <1>15, <1>16, <1>17, <1>18, <1>19 DEF Main

(* A step of the receive callback on the sending node.                      *)
LEMMA HandlerStep == ASSUME FragInv, Handler PROVE FragInv'
  <1>0. ThreadsOK /\ FwdOK /\ BwdOK
    BY Parts
  <1> USE FragmentationAssumption DEF HandlerIdle, Frags, net, counts, Holds, Found, PeerHasIt
  <1>1. ASSUME UNCHANGED <<fwd, bwd, rx, delivered>>, ThreadsOK' PROVE FragInv'
    BY <1>0, <1>1, Parts DEF FwdOK, BwdOK, ResultsOnAir
  <1>2. ASSUME bwd # <<>>, bwd' = Tail(bwd), UNCHANGED <<fwd, rx, delivered>>, ThreadsOK'
        PROVE  FragInv'
    <2>1. BwdOK'
      BY <1>0, <1>2, BwdReceived
    <2> QED BY <1>0, <1>2, <2>1, Parts DEF FwdOK
  <1>3. CASE Ignored
    BY <1>0, <1>2, <1>3 DEF Ignored, ThreadsOK
  <1>4. CASE HandleFragResult
    <2>1. Head(bwd).ok => PeerHasIt
      BY <1>0, <1>4, BwdReceived DEF HandleFragResult
    <2>2. ThreadsOK'
      BY <1>0, <1>4, <2>1 DEF HandleFragResult, ThreadsOK, Rank
    <2> QED BY <1>2, <1>4, <2>2 DEF HandleFragResult
  <1>5. CASE HandleFragResend
    <2>1. Head(bwd).map \in SUBSET Frags
      BY <1>0, <1>5, BwdReceived DEF HandleFragResend, ToSender
    <2>2. /\ tx' \in [live : BOOLEAN, abort : BOOLEAN, state : DOMAIN Rank, map : SUBSET Frags]
          /\ tx'.state # "SUCCEEDED"
      BY <1>0, <1>5, <2>1 DEF HandleFragResend, ThreadsOK, Rank
    <2>3. handler' \in [at : {"idle", "resending", "marking"}, i : 1..(N + 1),
                       held : 0..MaxAttempts] /\ handler'.at # "marking"
      BY <1>0, <1>5 DEF HandleFragResend, ThreadsOK
    <2>4. ThreadsOK'
      BY <1>0, <1>5, <2>2, <2>3 DEF HandleFragResend, ThreadsOK
    <2> QED BY <1>2, <1>5, <2>4 DEF HandleFragResend
  <1>6. CASE ResendFragment
    <2>1. FwdOK'
      <3>1. handler.i \in Frags
        BY <1>0, <1>6 DEF ResendFragment, ThreadsOK
      <3> QED BY <1>0, <1>6, <3>1, NextFragmentFacts DEF ResendFragment
    <2>2. ThreadsOK'
      BY <1>0, <1>6 DEF ResendFragment, ThreadsOK
    <2> QED BY <1>0, <1>6, <2>1, <2>2, Parts DEF ResendFragment, BwdOK, ResultsOnAir
  <1>7. CASE ResendAborted
    BY <1>0, <1>1, <1>7 DEF ResendAborted, ThreadsOK
  <1>8. CASE EndResending
    BY <1>0, <1>1, <1>8 DEF EndResending, ThreadsOK
  <1>9. CASE ResendDone
    BY <1>0, <1>1, <1>9 DEF ResendDone, ThreadsOK, Rank
  <1>10. CASE UseAfterFree
    BY <1>0, <1>1, <1>10 DEF UseAfterFree, ThreadsOK
  <1> QED BY <1>3, <1>4, <1>5, <1>6, <1>7, <1>8, <1>9, <1>10 DEF Handler

(* What check_fragments does suffices for the receiver's steps.             *)
LEMMA CheckStep ==
    ASSUME FragInv, fwd # <<>>, fwd' = Tail(fwd), ~rx.whole,
           NEW r \in Received, ~r.whole, NEW resend \in BOOLEAN, CheckFragments(r, resend),
           UNCHANGED <<tx, main, handler, expired, counts, net>>
    PROVE  FragInv'
  <1>1. ThreadsOK /\ FwdOK /\ BwdOK /\ delivered' = delivered
    BY Parts DEF counts
  <1>2. FwdOK'
    BY <1>1, FwdReceived
  <1>3. /\ rx' \in Received
        /\ PeerHasIt => PeerHasIt'
        /\ bwd' \in Seq(ToSender) /\ Len(bwd') <= AirMax
        /\ ResultsOnAir'
    BY <1>1, CheckFragmentsFacts DEF ThreadsOK, BwdOK
  <1>4. ThreadsOK'
    BY <1>1, <1>3 DEF ThreadsOK, counts
  <1> QED BY <1>2, <1>3, <1>4, Parts DEF BwdOK

(* A step of the receive callback on the receiving node.                    *)
LEMMA ReceiverStep == ASSUME FragInv, Receiver PROVE FragInv'
  <1>0. ThreadsOK /\ FwdOK /\ BwdOK
    BY Parts
  <1>1. ASSUME fwd # <<>>, fwd' = Tail(fwd), ~rx.whole, rx' \in Received,
               UNCHANGED <<tx, main, handler, bwd, expired, counts, net>>
        PROVE  FragInv'
    <2>1. FwdOK'
      BY <1>0, <1>1, FwdReceived
    <2>2. PeerHasIt => PeerHasIt'
      BY <1>1 DEF PeerHasIt, counts
    <2>3. ThreadsOK' /\ BwdOK'
      BY <1>0, <1>1, <2>2 DEF ThreadsOK, BwdOK, ResultsOnAir, counts
    <2> QED BY <2>1, <2>3, Parts
  <1>2. CASE HandleFragRequest
    <2>1. rx' \in Received
      BY <1>0, <1>2 DEF HandleFragRequest, ThreadsOK, Received, Nothing
    <2> QED BY <1>1, <1>2, <2>1 DEF HandleFragRequest, Arrives
  <1>3. CASE HandleFragMessage
    <2> DEFINE f == Head(fwd)
               r == Store(f)
    <2>1. /\ f \in ToReceiver /\ f.kind = "fragment" /\ ~rx.whole
          /\ fwd # <<>> /\ fwd' = Tail(fwd)
      BY <1>0, <1>3, AirReceived DEF HandleFragMessage, Arrives, FwdOK
    <2>2. f.i \in Frags /\ f.good \in BOOLEAN
      BY <2>1 DEF ToReceiver, Request, Check
    <2> HIDE DEF f
    <2>3. r \in Received /\ ~r.whole
      BY <1>0, <2>1, <2>2 DEF Store, ThreadsOK, Received
    <2> HIDE DEF r
    <2>4. CASE CheckFragments(r, f.i = rx.last)
      <3>1. (f.i = rx.last) \in BOOLEAN
        OBVIOUS
      <3> QED BY <1>3, <2>1, <2>3, <2>4, <3>1, CheckStep DEF HandleFragMessage
    <2>5. CASE rx' = r /\ UNCHANGED bwd
      BY <1>1, <1>3, <2>1, <2>3, <2>5 DEF HandleFragMessage
    <2> QED BY <1>3, <2>4, <2>5 DEF HandleFragMessage, f, r
  <1>4. CASE HandleFragCheck
    <2>1. rx \in Received /\ TRUE \in BOOLEAN
      BY <1>0 DEF ThreadsOK
    <2> QED BY <1>4, <2>1, CheckStep DEF HandleFragCheck, Arrives
  <1>5. CASE InvalidReference
    BY <1>0, <1>1, <1>5 DEF InvalidReference, Arrives, ThreadsOK
  <1>6. CASE HandOver
    <2>1. rx' \in Received
      BY <1>6, FragmentationAssumption DEF HandOver, Forget, Nothing, Received
    <2>2. delivered' \in Nat /\ delivered' > 0
      BY <1>0, <1>6 DEF HandOver, ThreadsOK
    <2>3. PeerHasIt'
      BY <2>2 DEF PeerHasIt
    <2>4. ThreadsOK' /\ FwdOK' /\ BwdOK'
      BY <1>0, <1>6, <2>1, <2>2, <2>3 DEF HandOver, ThreadsOK, FwdOK, BwdOK, ResultsOnAir
    <2> QED BY <2>4, Parts
  <1> QED BY <1>2, <1>3, <1>4, <1>5, <1>6 DEF Receiver

(* Time passes; a message is lost; a fragment is corrupted.                 *)
LEMMA AirStep == ASSUME FragInv, Expire \/ Lose \/ Corrupt PROVE FragInv'
  <1>0. ThreadsOK /\ FwdOK /\ BwdOK
    BY Parts
  <1>1. CASE Expire
    BY <1>0, <1>1, Parts DEF Expire, ThreadsOK, FwdOK, BwdOK, ResultsOnAir, PeerHasIt, counts
  <1>2. CASE Lose
    <2>1. ThreadsOK' /\ delivered' = delivered /\ rx' = rx
      BY <1>0, <1>2 DEF Lose, ThreadsOK, counts, PeerHasIt
    <2>2. CASE fwd # <<>> /\ fwd' = Tail(fwd) /\ UNCHANGED bwd
      BY <1>0, <2>1, <2>2, FwdReceived, Parts DEF BwdOK, ResultsOnAir, PeerHasIt
    <2>3. CASE bwd # <<>> /\ bwd' = Tail(bwd) /\ UNCHANGED fwd
      BY <1>0, <2>1, <2>3, BwdReceived, Parts DEF FwdOK, PeerHasIt
    <2> QED BY <1>2, <2>2, <2>3 DEF Lose
  <1>3. CASE Corrupt
    <2>1. Head(fwd) \in ToReceiver /\ Head(fwd).kind = "fragment" /\ Head(fwd) = fwd[1]
      BY <1>0, <1>3, AirReceived DEF Corrupt, FwdOK
    <2> DEFINE bad == [fwd[1] EXCEPT !.good = FALSE]
    <2>2. bad \in ToReceiver
      BY <2>1 DEF ToReceiver, Request, Check
    <2>3. fwd' = [fwd EXCEPT ![1] = bad]
      BY <1>3 DEF Corrupt
    <2> HIDE DEF bad
    <2>4. FwdOK'
      <3>1. 1 \in 1..Len(fwd)
        BY <1>0, <1>3 DEF Corrupt, FwdOK
      <3>2. fwd' \in Seq(ToReceiver) /\ Len(fwd') = Len(fwd)
        BY <1>0, <2>2, <2>3, <3>1, ExceptSeq DEF FwdOK
      <3> QED BY <1>0, <3>2 DEF FwdOK
    <2>5. ThreadsOK' /\ BwdOK'
      BY <1>0, <1>3 DEF Corrupt, ThreadsOK, BwdOK, ResultsOnAir, PeerHasIt, counts
    <2> QED BY <2>4, <2>5, Parts
  <1> QED BY <1>1, <1>2, <1>3

(* Nothing happens.                                                         *)
LEMMA StutterStep == ASSUME FragInv, UNCHANGED vars PROVE FragInv'
  BY Parts DEF vars, counts, net, ThreadsOK, FwdOK, BwdOK, ResultsOnAir, PeerHasIt

-----------------------------------------------------------------------------
(* For any number of fragments, any losses, corruption and time-outs, and   *)
(* any interleaving of the two unsynchronised threads of the sender: the    *)
(* states stay within their types, and success is only reported of a        *)
(* message that the peer has whole: ROB_OK leaves before the peer hands the *)
(* message over, and the sender may read it first.                          *)
THEOREM Safety == Spec => [](TypeOK /\ OkMeansThePeerHasIt)
  <1>1. FragInv /\ [Next]_vars => FragInv'
    BY MainStep, HandlerStep, ReceiverStep, AirStep, StutterStep DEF Next
  <1>2. FragInv => TypeOK /\ OkMeansThePeerHasIt
    BY DEF FragInv, SuccessIsTrue, OkMeansThePeerHasIt
  <1> QED BY FragInit, <1>1, <1>2, PTL DEF Spec

-----------------------------------------------------------------------------
(* The peer is handed the message once per request                          *)

(* The requests on the air.                                                 *)
Asking(air) == {j \in 1..Len(air) : air[j] = Request}
Requests == Cardinality(Asking(fwd))

One(b) == IF b THEN 1 ELSE 0

(* While send_message_fragmented runs it has not reported, and when it ends *)
(* it has something to report.                                              *)
ReportOK ==
    /\ main.at # "idle" => outcome = "none"
    /\ main.at = "finish" => main.rc \in {"ok", "failed"}

(* Every attempt pays for one request, and every request for one delivery:  *)
(* a receiver forgets the message when it has handed it over.  A request    *)
(* may be still to send, on the air, or open at the receiver.               *)
PaidFor ==
    /\ delivered + Requests + One(rx.live) + One(main.at = "request") <= attempts
    /\ rx.whole => rx.live

TransferInv == FragInv /\ ReportOK /\ PaidFor

(* Counting what is on the air: nothing, something more, or less.           *)
LEMMA AskingFinite ==
    ASSUME NEW S, NEW air \in Seq(S)
    PROVE  IsFiniteSet(Asking(air)) /\ Cardinality(Asking(air)) \in Nat
  <1>1. IsFiniteSet(1..Len(air)) /\ Asking(air) \in SUBSET (1..Len(air))
    BY FS_Interval DEF Asking
  <1> QED BY <1>1, FS_Subset, FS_CardinalityType

LEMMA AskingAppended ==
    ASSUME NEW S, NEW air \in Seq(S), NEW m \in S
    PROVE  Cardinality(Asking(Append(air, m))) = Cardinality(Asking(air)) + One(m = Request)
  <1> DEFINE n == Len(air) + 1
             t == Append(air, m)
  <1>1. /\ Len(t) = n /\ t[n] = m /\ n \in Nat /\ n \notin 1..Len(air)
        /\ 1..n = (1..Len(air)) \cup {n}
        /\ \A j \in 1..Len(air) : t[j] = air[j]
    OBVIOUS
  <1> HIDE DEF t, n
  <1>2. CASE m = Request
    <2>1. Asking(t) = Asking(air) \cup {n} /\ n \notin Asking(air)
      BY <1>1, <1>2 DEF Asking
    <2> QED BY <2>1, <1>2, FS_AddElement, AskingFinite DEF One, t
  <1>3. CASE m # Request
    <2>1. Asking(t) = Asking(air)
      BY <1>1, <1>3 DEF Asking
    <2> QED BY <2>1, <1>3, AskingFinite DEF One, t
  <1> QED BY <1>2, <1>3

LEMMA AskingReceived ==
    ASSUME NEW S, NEW air \in Seq(S), air # <<>>
    PROVE  Cardinality(Asking(air)) =
               Cardinality(Asking(Tail(air))) + One(Head(air) = Request)
  <1> DEFINE t == Tail(air)
             U == Asking(air) \ {1}
  <1>1. /\ t \in Seq(S) /\ Len(air) > 0 /\ Len(t) = Len(air) - 1 /\ Len(air) \in Nat
        /\ Head(air) = air[1]
        /\ \A j \in 1..Len(t) : t[j] = air[j + 1]
    OBVIOUS
  <1>2. /\ IsFiniteSet(Asking(t)) /\ Cardinality(Asking(t)) \in Nat
        /\ IsFiniteSet(Asking(air)) /\ Cardinality(Asking(air)) \in Nat
    BY <1>1, AskingFinite
  <1> HIDE DEF t
  <1>3. Cardinality(U) = Cardinality(Asking(t))
    <2> DEFINE f == [j \in Asking(t) |-> j + 1]
    <2>1. \A j \in Asking(t) : j + 1 \in U
      BY <1>1 DEF Asking
    <2>2. \A k \in U : k - 1 \in Asking(t) /\ (k - 1) + 1 = k
      BY <1>1 DEF Asking
    <2>3. \A i, j \in Asking(t) : i + 1 = j + 1 => i = j
      BY DEF Asking
    <2>4. f \in Bijection(Asking(t), U)
      <3> HIDE DEF U
      <3>1. f \in [Asking(t) -> U]
        BY <2>1
      <3>2. f \in Injection(Asking(t), U)
        BY <2>3, <3>1 DEF Injection, IsInjective
      <3>3. f \in Surjection(Asking(t), U)
        BY <2>2, <3>1 DEF Surjection
      <3> QED BY <3>2, <3>3 DEF Bijection
    <2>5. ExistsBijection(Asking(t), U)
      BY <2>4 DEF ExistsBijection
    <2> QED BY <2>5, <1>2, FS_Bijection
  <1>4. Cardinality(Asking(air)) = Cardinality(U) + One(Head(air) = Request)
    <2>1. CASE Head(air) = Request
      <3>1. 1 \in Asking(air)
        BY <1>1, <2>1 DEF Asking
      <3>2. Cardinality(U) = Cardinality(Asking(air)) - 1
        BY <3>1, <1>2, FS_RemoveElement
      <3> HIDE DEF U
      <3> QED BY <1>2, <2>1, <3>2 DEF One
    <2>2. CASE Head(air) # Request
      <3>1. U = Asking(air)
        BY <1>1, <2>2 DEF Asking
      <3> HIDE DEF U
      <3> QED BY <1>2, <2>2, <3>1 DEF One
    <2> QED BY <2>1, <2>2
  <1> HIDE DEF U
  <1> QED BY <1>3, <1>4 DEF t

(* The requests on the air when something is sent, received or lost.        *)
LEMMA RequestsCounted ==
    ASSUME FwdOK
    PROVE  /\ Requests \in Nat
           /\ \A m \in ToReceiver : fwd' = Sent(fwd, m) =>
                  Requests' \in Nat /\ Requests' <= Requests + One(m = Request)
           /\ fwd # <<>> /\ fwd' = Tail(fwd) =>
                  Requests' \in Nat /\ Requests = Requests' + One(Head(fwd) = Request)
           /\ fwd' = fwd => Requests' = Requests
  <1>1. Requests \in Nat
    BY AskingFinite DEF FwdOK, Requests
  <1>2. ASSUME NEW m \in ToReceiver, fwd' = Sent(fwd, m)
        PROVE  Requests' \in Nat /\ Requests' <= Requests + One(m = Request)
    <2>1. CASE fwd' = Append(fwd, m)
      BY <1>1, <2>1, AskingAppended DEF FwdOK, Requests, One
    <2>2. CASE fwd' = fwd
      BY <1>1, <2>2 DEF Requests, One
    <2> QED BY <1>2, <2>1, <2>2 DEF Sent
  <1>3. ASSUME fwd # <<>>, fwd' = Tail(fwd)
        PROVE  Requests' \in Nat /\ Requests = Requests' + One(Head(fwd) = Request)
    <2>1. fwd' \in Seq(ToReceiver)
      BY <1>3 DEF FwdOK
    <2> QED BY <1>3, <2>1, AskingReceived, AskingFinite DEF FwdOK, Requests
  <1> QED BY <1>1, <1>2, <1>3 DEF Requests

(* What is sent is a request only by its kind.                              *)
LEMMA RequestIsAKind ==
    /\ Request \in ToReceiver /\ Check \in ToReceiver /\ Check # Request
    /\ \A i \in Frags : Fragment(i) \in ToReceiver /\ Fragment(i) # Request
    /\ \A m \in ToReceiver : m.kind = "request" <=> m = Request
  BY DEF ToReceiver, Request, Check, Fragment

(* A step that the caller of Transfer does not see.                         *)
LEMMA Unseen ==
    ASSUME TransferInv, Requests' \in Nat, Requests' <= Requests,
           UNCHANGED <<rx, counts>>,
           \/ main' = main
           \/ /\ main.at \notin {"idle", "request"} /\ main'.at \notin {"idle", "request"}
              /\ main'.at = "finish" => main'.rc \in {"ok", "failed"}
    PROVE  ReportOK' /\ PaidFor' /\ UNCHANGED Promise!tvars
  <1>1. attempts \in Nat /\ delivered \in Nat /\ Requests \in Nat
    BY FragmentationAssumption, Parts, RequestsCounted DEF TransferInv, ThreadsOK
  <1>2. main'.at = "request" <=> main.at = "request"
    OBVIOUS
  <1>3. ReportOK'
    BY DEF TransferInv, ReportOK, counts
  <1>4. PaidFor'
    <2>1. /\ One(rx.live) \in {0, 1} /\ One(rx.live)' = One(rx.live)
          /\ One(main.at = "request") \in {0, 1}
          /\ One(main.at = "request")' = One(main.at = "request")
      BY <1>2 DEF One
    <2> QED BY <1>1, <2>1 DEF TransferInv, PaidFor, counts
  <1> QED BY <1>3, <1>4 DEF counts, Promise!tvars

(* Starting an attempt, and sending its request.                            *)
LEMMA StartIsPaid ==
    ASSUME TransferInv, Start \/ SendRequest
    PROVE  ReportOK' /\ PaidFor' /\ (Promise!Start \/ UNCHANGED Promise!tvars)
  <1>1. FwdOK /\ attempts \in Nat /\ delivered \in Nat
    BY FragmentationAssumption, Parts DEF TransferInv, ThreadsOK
  <1>2. CASE Start
    <2>1. main.at = "idle" /\ main'.at = "request" /\ main'.rc = "none"
      BY <1>2 DEF Start, MainAt
    <2>2. /\ attempts' = attempts + 1 /\ outcome' = "none" /\ delivered' = delivered
          /\ rx' = rx /\ fwd' = fwd /\ outcome # "ok" /\ attempts < MaxAttempts
      BY <1>2 DEF Start
    <2>3. Requests \in Nat /\ Requests' = Requests
      BY <1>1, <2>2, RequestsCounted
    <2>4. ReportOK'
      BY <2>1, <2>2 DEF ReportOK
    <2>5. PaidFor'
      BY <1>1, <2>1, <2>2, <2>3 DEF TransferInv, PaidFor, One
    <2> QED BY <2>2, <2>4, <2>5 DEF Promise!Start
  <1>3. CASE SendRequest
    <2>1. /\ main.at = "request" /\ UNCHANGED <<rx, counts>>
          /\ \/ main' = [main EXCEPT !.at = "sending"]
             \/ main' = [main EXCEPT !.at = "finish", !.rc = "failed"]
      BY <1>3 DEF SendRequest, MainAt, MainGo, Finish
    <2>2. /\ main'.at \in {"sending", "finish"}
          /\ main'.at = "finish" => main'.rc = "failed"
      BY <2>1, Parts DEF TransferInv, ThreadsOK
    <2>3. fwd' = Sent(fwd, Request)
      BY <1>3 DEF SendRequest, Transmit
    <2>4. Requests' \in Nat /\ Requests \in Nat /\ Requests' <= Requests + 1
      BY <1>1, <2>3, RequestsCounted, RequestIsAKind DEF One
    <2>5. ReportOK'
      BY <2>1, <2>2 DEF TransferInv, ReportOK, counts
    <2>6. PaidFor'
      BY <1>1, <2>1, <2>2, <2>4 DEF TransferInv, PaidFor, One, counts
    <2> QED BY <2>1, <2>5, <2>6 DEF counts, Promise!tvars
  <1> QED BY <1>2, <1>3

(* The other steps of the worker: the last one reports.                     *)
LEMMA MainPromises ==
    ASSUME TransferInv, Main, ~Start, ~SendRequest
    PROVE  ReportOK' /\ PaidFor' /\ (Promise!Report \/ UNCHANGED Promise!tvars)
  <1>1. ThreadsOK /\ FwdOK /\ Requests \in Nat
    BY Parts, RequestsCounted DEF TransferInv
  <1> USE DEF MainAt, MainGo, Finish, counts
  <1>2. ASSUME UNCHANGED fwd \/ \E m \in ToReceiver \ {Request} : fwd' = Sent(fwd, m)
        PROVE  Requests' \in Nat /\ Requests' <= Requests
    BY <1>1, <1>2, RequestsCounted DEF One
  <1>3. CASE SendFragment \/ SendCheck
    <2>1. UNCHANGED fwd \/ \E m \in ToReceiver \ {Request} : fwd' = Sent(fwd, m)
      <3>1. CASE SendFragment
        <4>1. main.i \in Frags
          BY <1>1, <3>1 DEF SendFragment, ThreadsOK
        <4> QED BY <3>1, <4>1, RequestIsAKind DEF SendFragment, NextFragment, Transmit
      <3>2. CASE SendCheck
        BY <3>2, RequestIsAKind DEF SendCheck, Transmit
      <3> QED BY <1>3, <3>1, <3>2
    <2>2. /\ main.at \in {"sending", "pausing"} /\ main'.at \in {"sending", "ending", "top"}
          /\ UNCHANGED <<rx, counts>>
      BY <1>1, <1>3 DEF SendFragment, SendCheck, ThreadsOK
    <2> QED BY <1>2, <2>1, <2>2, Unseen
  <1>4. CASE Remove
    <2>1. /\ main.at = "finish" /\ main' = [main EXCEPT !.at = "idle"] /\ outcome' = main.rc
          /\ UNCHANGED <<rx, fwd, attempts, delivered>>
      BY <1>4 DEF Remove
    <2>2. main'.at = "idle"
      BY <1>1, <2>1 DEF ThreadsOK
    <2>3. outcome = "none" /\ main.rc \in {"ok", "failed"} /\ (main.rc = "ok" => PeerHasIt)
      BY <1>1, <2>1 DEF TransferInv, ReportOK, ThreadsOK
    <2> DEFINE c == delivered + (IF rx.whole THEN 1 ELSE 0)
    <2>6. (main.rc = "ok" => c > 0) /\ c' = c
      BY <1>1, <2>1, <2>3 DEF PeerHasIt, ThreadsOK
    <2> HIDE DEF c
    <2>4. ReportOK'
      BY <2>2 DEF ReportOK
    <2>5. PaidFor'
      BY <2>1, <2>2, RequestsCounted, <1>1 DEF TransferInv, PaidFor, One
    <2> QED BY <2>1, <2>3, <2>4, <2>5, <2>6 DEF Promise!Report, c
  <1>5. CASE \/ EndSending \/ MarkDone \/ GiveUp \/ StartWaiting \/ WaitTimesOut \/ Delayed
             \/ WaitOver \/ Look \/ AwaitResult \/ Recheck \/ Judge \/ Switch
    <2>1. main.at \notin {"idle", "request"} /\ UNCHANGED <<rx, counts, fwd>>
      BY <1>5 DEF EndSending, MarkDone, GiveUp, StartWaiting, WaitTimesOut, Delayed,
                  WaitOver, Look, AwaitResult, Recheck, Judge, Switch
    <2>2. \/ \E p \in Places \ {"idle", "request", "finish"} : main' = [main EXCEPT !.at = p]
          \/ \E r \in {"ok", "failed"} : main' = [main EXCEPT !.at = "finish", !.rc = r]
      BY <1>5 DEF EndSending, MarkDone, GiveUp, StartWaiting, WaitTimesOut, Delayed,
                  WaitOver, Look, AwaitResult, Recheck, Judge, Switch, Places
    <2>3. /\ main'.at \notin {"idle", "request"}
          /\ main'.at = "finish" => main'.rc \in {"ok", "failed"}
      BY <1>1, <2>2 DEF ThreadsOK
    <2> QED BY <1>2, <2>1, <2>3, Unseen
  <1> QED BY <1>3, <1>4, <1>5 DEF Main

(* The receive callback of the sender never sends a request.                *)
LEMMA HandlerPromises ==
    ASSUME TransferInv, Handler
    PROVE  ReportOK' /\ PaidFor' /\ UNCHANGED Promise!tvars
  <1>1. ThreadsOK /\ FwdOK /\ Requests \in Nat
    BY Parts, RequestsCounted DEF TransferInv
  <1>2. Requests' \in Nat /\ Requests' <= Requests
    <2>1. UNCHANGED fwd \/ \E m \in ToReceiver \ {Request} : fwd' = Sent(fwd, m)
      <3>1. CASE ResendFragment
        <4>1. handler.i \in Frags
          BY <1>1, <3>1, FragmentationAssumption DEF ResendFragment, ThreadsOK, Frags
        <4> QED BY <3>1, <4>1, RequestIsAKind DEF ResendFragment, NextFragment, Transmit
      <3>2. CASE ~ResendFragment
        BY <3>2 DEF Handler, Ignored, HandleFragResult, HandleFragResend, ResendAborted,
                    EndResending, ResendDone, UseAfterFree
      <3> QED BY <3>1, <3>2
    <2> QED BY <1>1, <2>1, RequestsCounted DEF One
  <1>3. UNCHANGED <<main, rx, counts>>
    BY DEF Handler, Ignored, HandleFragResult, HandleFragResend, ResendFragment,
           ResendAborted, EndResending, ResendDone, UseAfterFree
  <1> QED BY <1>2, <1>3, Unseen

(* The receiver completes what it was asked to receive ..                   *)
LEMMA CompletesWhatIsAsked ==
    ASSUME TransferInv, Receiver, ~HandOver
    PROVE  ReportOK' /\ PaidFor' /\ (Promise!Complete \/ UNCHANGED Promise!tvars)
  <1>1. /\ ThreadsOK /\ FwdOK /\ attempts \in Nat /\ delivered \in Nat /\ ~rx.whole
        /\ fwd # <<>> /\ fwd' = Tail(fwd) /\ Head(fwd) \in ToReceiver
        /\ UNCHANGED <<main, counts>>
    <2>1. ThreadsOK /\ FwdOK /\ attempts \in Nat /\ delivered \in Nat
      BY FragmentationAssumption, Parts DEF TransferInv, ThreadsOK
    <2>2. fwd # <<>> /\ fwd' = Tail(fwd) /\ ~rx.whole /\ UNCHANGED <<main, counts>>
      BY DEF Receiver, HandleFragRequest, HandleFragMessage, HandleFragCheck,
             InvalidReference, Arrives
    <2> QED BY <2>1, <2>2, FwdReceived
  <1>2. Requests \in Nat /\ Requests' \in Nat /\ Requests = Requests' + One(Head(fwd) = Request)
    BY <1>1, RequestsCounted
  <1>3. ReportOK'
    BY <1>1 DEF TransferInv, ReportOK, counts
  <1>4. ASSUME rx'.live => rx.live \/ Head(fwd) = Request, rx'.whole => rx'.live
        PROVE  PaidFor'
    <2>1. /\ One(rx.live)' <= One(rx.live) + One(Head(fwd) = Request)
          /\ One(rx.live) \in {0, 1} /\ One(rx.live)' \in {0, 1}
          /\ One(Head(fwd) = Request) \in {0, 1}
      BY <1>4 DEF One
    <2>2. /\ One(main.at = "request")' = One(main.at = "request")
          /\ One(main.at = "request") \in {0, 1}
      <3>1. main' = main
        BY <1>1
      <3> QED BY <3>1 DEF One
    <2> QED BY <1>1, <1>2, <1>4, <2>1, <2>2 DEF TransferInv, PaidFor, counts
  <1>5. ASSUME ~rx'.whole PROVE UNCHANGED Promise!tvars
    BY <1>1, <1>5 DEF Promise!tvars, counts
  <1>6. ASSUME rx'.whole, rx.live PROVE Promise!Complete
    <2>1. delivered < attempts
      <3>1. One(rx.live) = 1 /\ One(main.at = "request") \in {0, 1}
        BY <1>6 DEF One
      <3> QED BY <1>1, <1>2, <3>1 DEF TransferInv, PaidFor
    <2> DEFINE c == delivered + (IF rx.whole THEN 1 ELSE 0)
    <2>2. c = delivered /\ c' = c + 1
      BY <1>1, <1>6 DEF counts
    <2> HIDE DEF c
    <2> QED BY <1>1, <2>1, <2>2 DEF Promise!Complete, counts, c
  <1>7. ASSUME NEW r, NEW resend, CheckFragments(r, resend), r.live = rx.live,
               r \in Received, ~r.whole, rx.live
        PROVE  PaidFor' /\ (Promise!Complete \/ UNCHANGED Promise!tvars)
    <2>1. \/ \E last : rx' = [r EXCEPT !.last = last]
          \/ rx' = [r EXCEPT !.whole = TRUE]
          \/ Forget
      BY <1>7, Zenon DEF CheckFragments
    <2>2. rx'.live => rx.live
      BY <1>7
    <2>3. CASE \E last : rx' = [r EXCEPT !.last = last]
      <3>1. ~rx'.whole
        BY <1>7, <2>3 DEF Received
      <3> QED BY <1>4, <1>5, <2>2, <3>1
    <2>4. CASE rx' = [r EXCEPT !.whole = TRUE]
      <3>1. rx'.whole /\ rx'.live
        BY <1>7, <2>4 DEF Received
      <3> QED BY <1>4, <1>6, <1>7, <3>1
    <2>5. CASE Forget
      <3>1. ~rx'.whole /\ ~rx'.live
        BY <2>5 DEF Forget
      <3> QED BY <1>4, <1>5, <3>1
    <2> QED BY <2>1, <2>3, <2>4, <2>5
  <1>8. CASE HandleFragRequest
    <2>1. Head(fwd) = Request /\ ~rx'.whole
      BY <1>1, <1>8, RequestIsAKind DEF HandleFragRequest, Arrives
    <2> QED BY <1>3, <1>4, <1>5, <2>1
  <1>9. CASE HandleFragMessage
    <2> DEFINE r == Store(Head(fwd))
    <2>1. rx.live /\ Head(fwd).i \in Frags
      BY <1>1, <1>9 DEF HandleFragMessage, Arrives, ToReceiver, Request, Check
    <2>2. r.live = rx.live /\ r \in Received /\ ~r.whole
      BY <1>1, <2>1 DEF Store, ThreadsOK, Received
    <2>3. \/ \E resend : CheckFragments(r, resend)
          \/ rx' = r
      BY <1>9 DEF HandleFragMessage
    <2> HIDE DEF r
    <2> QED BY <1>3, <1>4, <1>5, <1>7, <2>1, <2>2, <2>3
  <1>10. CASE HandleFragCheck
    <2>1. rx.live /\ CheckFragments(rx, TRUE) /\ rx \in Received
      BY <1>1, <1>10 DEF HandleFragCheck, ThreadsOK
    <2> QED BY <1>1, <1>3, <1>7, <2>1
  <1>11. CASE InvalidReference
    BY <1>1, <1>3, <1>4, <1>5, <1>11 DEF InvalidReference
  <1> QED BY <1>8, <1>9, <1>10, <1>11 DEF Receiver

(* .. and hands it over, and forgets it.                                    *)
LEMMA HandsOverOnce ==
    ASSUME TransferInv, HandOver
    PROVE  ReportOK' /\ PaidFor' /\ Promise!Deliver
  <1>1. /\ ThreadsOK /\ FwdOK /\ attempts \in Nat /\ delivered \in Nat
        /\ rx.whole /\ delivered' = delivered + 1 /\ Forget
        /\ UNCHANGED <<main, fwd, attempts, outcome>>
    BY FragmentationAssumption, Parts DEF TransferInv, ThreadsOK, HandOver
  <1>2. ~rx'.live /\ ~rx'.whole
    BY <1>1 DEF Forget
  <1>3. ReportOK'
    BY <1>1 DEF TransferInv, ReportOK
  <1>4. PaidFor'
    <2>1. Requests \in Nat /\ Requests' = Requests
      BY <1>1, RequestsCounted
    <2>2. One(rx.live) = 1 /\ One(rx.live)' = 0
      BY <1>1, <1>2 DEF TransferInv, PaidFor, One
    <2>3. /\ One(main.at = "request")' = One(main.at = "request")
          /\ One(main.at = "request") \in {0, 1}
      <3>1. main' = main
        BY <1>1
      <3> QED BY <3>1 DEF One
    <2>4. delivered + Requests + One(rx.live) + One(main.at = "request") <= attempts
      BY DEF TransferInv, PaidFor
    <2> QED BY <1>1, <1>2, <2>1, <2>2, <2>3, <2>4 DEF PaidFor
  <1>5. Promise!Deliver
    <2> DEFINE c == delivered + (IF rx.whole THEN 1 ELSE 0)
    <2>1. delivered < c /\ c' = c
      BY <1>1, <1>2
    <2> HIDE DEF c
    <2> QED BY <1>1, <2>1 DEF Promise!Deliver, c
  <1> QED BY <1>3, <1>4, <1>5

(* Time and the air promise nothing and add no request.                     *)
LEMMA AirPromises ==
    ASSUME TransferInv, Expire \/ Lose \/ Corrupt \/ UNCHANGED vars
    PROVE  ReportOK' /\ PaidFor' /\ UNCHANGED Promise!tvars
  <1>1. ThreadsOK /\ FwdOK /\ Requests \in Nat
    BY Parts, RequestsCounted DEF TransferInv
  <1>2. UNCHANGED <<main, rx, counts>>
    BY DEF Expire, Lose, Corrupt, vars
  <1>3. Requests' \in Nat /\ Requests' <= Requests
    <2>1. CASE fwd' = fwd \/ (fwd # <<>> /\ fwd' = Tail(fwd))
      BY <1>1, <2>1, RequestsCounted DEF One
    <2>2. CASE Corrupt
      <3>1. fwd # <<>> /\ Head(fwd).kind = "fragment" /\ fwd' = [fwd EXCEPT ![1].good = FALSE]
        BY <2>2 DEF Corrupt
      <3>2. Len(fwd) \in Nat /\ Head(fwd) = fwd[1] /\ fwd[1] \in ToReceiver /\ 1 \in DOMAIN fwd
        BY <1>1, <3>1 DEF FwdOK
      <3>3. fwd[1] # Request /\ [fwd[1] EXCEPT !.good = FALSE] # Request
        BY <3>1, <3>2, RequestIsAKind DEF ToReceiver, Request, Check
      <3>4. Len(fwd') = Len(fwd) /\ \A j \in 1..Len(fwd) : j # 1 => fwd'[j] = fwd[j]
        BY <1>1, <3>1 DEF FwdOK
      <3>5. fwd'[1] # Request
        BY <3>1, <3>2, <3>3
      <3>6. Asking(fwd') = Asking(fwd)
        BY <3>2, <3>3, <3>4, <3>5 DEF Asking
      <3> QED BY <1>1, <3>6 DEF Requests
    <2> QED BY <2>1, <2>2 DEF Expire, Lose, vars
  <1> QED BY <1>2, <1>3, Unseen

(* Fragmented sending is the transfer it promises: in any interleaving of   *)
(* the threads, whatever is lost, asked for again or late, the peer         *)
(* completes the message at most once per attempt and hands over once what  *)
(* it has completed, and success is reported at the end of an attempt, of a *)
(* message that it has completed.                                           *)
THEOREM TransferIsImplemented == Spec => ImplementsTransfer
  <1>1. Init => TransferInv /\ Promise!TInit
    <2> SUFFICES ASSUME Init
                 PROVE  TransferInv /\ Promise!TInit
      OBVIOUS
    <2>1. Requests = 0
      <3>1. Asking(fwd) = {}
        BY DEF Init, Asking
      <3> QED BY <3>1, FS_EmptySet DEF Requests
    <2>2. ReportOK /\ PaidFor
      BY <2>1 DEF Init, ReportOK, PaidFor, One
    <2> QED BY <2>2, FragInit DEF TransferInv, Init, Promise!TInit
  <1>2. TransferInv /\ [Next]_vars => TransferInv' /\ [Promise!TNext]_(Promise!tvars)
    <2> SUFFICES ASSUME TransferInv, [Next]_vars
                 PROVE  TransferInv' /\ [Promise!TNext]_(Promise!tvars)
      OBVIOUS
    <2>1. FragInv'
      BY MainStep, HandlerStep, ReceiverStep, AirStep, StutterStep DEF Next, TransferInv
    <2>2. ReportOK' /\ PaidFor' /\ (Promise!TNext \/ UNCHANGED Promise!tvars)
      BY StartIsPaid, MainPromises, HandlerPromises, CompletesWhatIsAsked, HandsOverOnce,
         AirPromises
         DEF Next, Promise!TNext
    <2> QED BY <2>1, <2>2 DEF TransferInv
  <1> QED BY <1>1, <1>2, PTL DEF Spec, ImplementsTransfer, Promise!TSpec
=============================================================================
