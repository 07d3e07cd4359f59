------------------------ MODULE FirmwareUpdateProofs ------------------------
(***************************************************************************)
(* Safety of a firmware update for every number of chunks and faults and   *)
(* every set of images: the C6 always has a whole image to boot, only an   *)
(* activation takes it away from a confirmed one, and the provisioner      *)
(* calls an update complete only when its image runs and is confirmed.     *)
(***************************************************************************)
EXTENDS FirmwareUpdate, SequenceTheorems, TLAPS

(* What makes AlwaysBootable inductive: outside the windows between the     *)
(* choice of another slot and the restart, the C6 runs the slot it boots,   *)
(* so that what it erases is never that slot; a session exists only while   *)
(* raw SDIO is up; and a finalized session has left a whole image.          *)
SlotsOK ==
    /\ slot = [s \in Slots |-> slot[s]] /\ boot \in Slots
    /\ c6.run \in Slots
    /\ c6 = [at |-> c6.at, run |-> c6.run]
    /\ session = [state |-> session.state, next |-> session.next, image |-> session.image]

RunsWhatItBoots ==
    c6.at \in {"guard", "start", "up"} /\ session.state # "activated" => boot = c6.run

SessionOK ==
    /\ ~Raw => session = NoSession
    /\ session.state = "finalized" => Whole(Other(c6.run))

(* What ConfirmedStays needs besides: the guard has an armed record while   *)
(* it goes back, and the factory image is never confirmed.                  *)
RecordOK ==
    /\ c6.at = "clear" => record.state = "armed"
    /\ record.state = "confirmed" => record.build # Factory

IInv == SlotsOK /\ AlwaysBootable /\ RunsWhatItBoots /\ SessionOK /\ RecordOK

-----------------------------------------------------------------------------
(* There are two slots.                                                     *)
LEMMA TwoSlots ==
    ASSUME NEW s \in Slots
    PROVE  Other(s) \in Slots /\ Other(s) # s /\ Slots = {s, Other(s)}
<1>1. PICK t \in Slots : t # s /\ Slots = {s, t}
  BY DelegateAssumption
<1> QED BY <1>1 DEF Other

(* An image is known by its chunks.                                         *)
LEMMA ImagesDiffer ==
    ASSUME NEW i \in Images
    PROVE  /\ Image(i) \in Seq(Images) /\ Len(Image(i)) = Chunks /\ Image(i)[1] = i
           /\ \A j \in Images : Image(i) = Image(j) => i = j
<1>1. Chunks \in Nat /\ Chunks # 0
  BY DelegateAssumption
<1>2. 1 \in 1..Chunks
  BY <1>1
<1>3. \A j : Image(j)[1] = j
  BY <1>2 DEF Image
<1>4. Image(i) \in Seq(Images) /\ Len(Image(i)) = Chunks
  BY <1>1 DEF Image
<1> QED BY <1>3, <1>4

(* A slot with a whole image holds exactly that image.                      *)
LEMMA HoldsWhole ==
    ASSUME NEW s \in Slots, Whole(s)
    PROVE  Holds(s) \in Images /\ slot[s] = Image(Holds(s))
  BY ImagesDiffer DEF Whole, Holds

-----------------------------------------------------------------------------
(* Most steps write neither flash nor record and leave the C6 as it is or   *)
(* reset it; such a step keeps the invariant.                               *)
Calm ==
    /\ UNCHANGED <<slot, boot, record>>
    /\ \/ UNCHANGED <<c6, session>>
       \/ c6' = [c6 EXCEPT !.at = "off"] /\ session' = NoSession

(* A calm step keeps the invariant.                                         *)
LEMMA CalmKeeps == IInv /\ Calm => IInv'
  BY DEF IInv, Calm, SlotsOK, AlwaysBootable, RunsWhatItBoots, SessionOK, RecordOK, Whole, NoSession, Raw,
         Running, Holds

(* The provisioner goes on without a write.                                 *)
LEMMA GoesOnIsCalm ==
    ASSUME NEW p, NEW packets, GoesOn(p, packets), UNCHANGED <<flash, record>>
    PROVE  Calm
  BY DEF GoesOn, PowerOff, Calm, flash

(* So does every exchange,                                                  *)
LEMMA ExchangeIsCalm ==
    ASSUME NEW p, NEW command, NEW packets, Exchange(p, command, packets), UNCHANGED <<flash, record>>
    PROVE  Calm
  BY GoesOnIsCalm DEF Exchange, Calm, flash

(* every step of the provisioner outside the factory transport,             *)
LEMMA ProvisionerIsCalm ==
    ASSUME P4Next, ~FactoryBegin, ~FactoryActivate
    PROVE  Calm
<1>1. CASE P4Boot
  BY <1>1, GoesOnIsCalm DEF P4Boot, Kept
<1>2. CASE StorePhase \/ FactoryRefused \/ FactoryInterrupted
  BY <1>2 DEF StorePhase, FactoryRefused, FactoryInterrupted, Calm, delegate, flash
<1>3. CASE ClearPhase
  BY <1>3, GoesOnIsCalm DEF ClearPhase
<1>4. CASE OpenLink
  BY <1>4, ExchangeIsCalm DEF OpenLink, Kept
<1>5. CASE OpenLinkEarly
  BY <1>5, GoesOnIsCalm DEF OpenLinkEarly, Kept, Calm, flash
<1>6. CASE Discard
  BY <1>6 DEF Discard, Calm, flash
<1>7. CASE IdentityRead
  <2>1. UNCHANGED <<flash, record>>
    BY <1>7 DEF IdentityRead, Kept
  <2>2. \/ \E q : GoesOn(q, Rest)
        \/ \E q, c : Exchange(q, c, Rest)
    BY <1>7 DEF IdentityRead
  <2> QED BY <2>1, <2>2, GoesOnIsCalm, ExchangeIsCalm
<1>8. CASE IdentityConfirmed
  BY <1>8, GoesOnIsCalm DEF IdentityConfirmed, Kept
<1>9. CASE UpdateAnswered
  <2>1. UNCHANGED <<flash, record>>
    BY <1>9 DEF UpdateAnswered, Kept
  <2>2. \/ \E q : GoesOn(q, Rest)
        \/ \E q, c : Exchange(q, c, Rest)
    BY <1>9 DEF UpdateAnswered
  <2> QED BY <2>1, <2>2, GoesOnIsCalm, ExchangeIsCalm
<1>10. CASE ExchangeTimesOut
  BY <1>10, GoesOnIsCalm DEF ExchangeTimesOut, Kept
<1> QED BY <1>1, <1>2, <1>3, <1>4, <1>5, <1>6, <1>7, <1>8, <1>9, <1>10 DEF P4Next

(* and every reset, loss and restart.                                       *)
LEMMA OthersAreCalm ==
    ASSUME \/ ResetC6 \/ ResetP4 \/ LosePacket \/ OperatorRestarts \/ OperatorUpdatesBundle
           \/ C6Restarts
           \/ UNCHANGED vars
    PROVE  Calm
<1>1. CASE ResetC6 \/ C6Restarts
  BY <1>1 DEF ResetC6, C6Restarts, ActivationRestarts, PowerOff, Kept, Calm, flash
<1>2. CASE ResetP4 \/ OperatorRestarts \/ OperatorUpdatesBundle \/ UNCHANGED vars
  BY <1>2 DEF ResetP4, OperatorRestarts, OperatorUpdatesBundle, Calm, delegate, flash, vars
<1>3. CASE LosePacket
  BY <1>3 DEF LosePacket, Kept, Calm, flash
<1> QED BY <1>1, <1>2, <1>3

-----------------------------------------------------------------------------
(* The C6 starts on a whole image, without a session.                       *)
LEMMA InitHolds == Init => IInv
<1> SUFFICES ASSUME Init PROVE IInv
  OBVIOUS
<1>1. PICK s \in Slots, i \in First, j \in First :
         /\ slot \in {[t \in Slots |-> IF t = s THEN Image(i) ELSE other] : other \in {<<>>, Image(j)}}
         /\ boot = s /\ c6 = [at |-> "off", run |-> s]
         /\ \/ record = NoRecord
            \/ i # Factory /\ record = [state |-> "confirmed", build |-> i]
  BY DEF Init, DelegateInit
<1>2. slot[s] = Image(i) /\ i \in Images
  BY <1>1, ProvisionerAssumption
<1>3. SlotsOK /\ RecordOK
  <2>1. session = NoSession
    BY DEF Init, DelegateInit
  <2> QED BY <1>1, <2>1 DEF SlotsOK, RecordOK, NoRecord, NoSession
<1>4. AlwaysBootable /\ RunsWhatItBoots
  BY <1>1, <1>2 DEF AlwaysBootable, Whole, RunsWhatItBoots
<1>5. SessionOK
  BY DEF Init, DelegateInit, SessionOK, NoSession
<1> QED BY <1>3, <1>4, <1>5 DEF IInv

(* The start of the C6 and its recovery service write no slot.              *)
LEMMA StartKeeps ==
    ASSUME IInv,
           \/ Load \/ GuardArms \/ GuardPasses \/ GuardSelectsOther \/ GuardRestarts \/ Start
           \/ ProcessRead \/ ProcessConfirm
    PROVE  IInv'
<1> USE DEF IInv, SlotsOK, AlwaysBootable, RunsWhatItBoots, SessionOK, RecordOK, Whole, Raw,
            Running, Holds, flash, NoSession
<1>1. CASE Load
  BY <1>1 DEF Load
<1>2. CASE GuardArms
  BY <1>2 DEF GuardArms
<1>3. CASE GuardPasses
  BY <1>3 DEF GuardPasses
<1>4. CASE GuardSelectsOther
  BY <1>4, TwoSlots DEF GuardSelectsOther, Recorded
<1>5. CASE GuardRestarts
  BY <1>5 DEF GuardRestarts, PowerOff, NoRecord
<1>6. CASE Start
  BY <1>6 DEF Start, PowerOff
<1>7. CASE ProcessRead
  BY <1>7 DEF ProcessRead
<1>8. CASE ProcessConfirm
  BY <1>8 DEF ProcessConfirm
<1> QED BY <1>1, <1>2, <1>3, <1>4, <1>5, <1>6, <1>7, <1>8

(* The updater and the factory transport write the slot that does not run.  *)
LEMMA UpdateKeeps ==
    ASSUME IInv,
           Status \/ Begin \/ Write \/ End \/ Activate \/ FactoryBegin \/ FactoryActivate
    PROVE  IInv'
<1> USE DEF IInv, SlotsOK, AlwaysBootable, RunsWhatItBoots, SessionOK, RecordOK, Whole, Raw,
            Running, Holds, flash, NoSession
<1>0. Other(c6.run) \in Slots /\ Other(c6.run) # c6.run
  BY TwoSlots
<1>1. CASE Status
  BY <1>1 DEF Status, Takes
<1>2. CASE Begin
  <2>1. CASE session.state = "receiving"
    BY <1>2, <2>1 DEF Begin, Takes
  <2>2. CASE session.state # "receiving"
    <3>1. /\ session' = [state |-> "receiving", next |-> 0, image |-> toUpdater.image]
          /\ slot' = [slot EXCEPT ![Other(c6.run)] = <<>>]
          /\ UNCHANGED <<boot, record, c6>> /\ Raw /\ session.state # "activated"
      BY <1>2, <2>2 DEF Begin, Takes
    <3>2. slot'[c6.run] = slot[c6.run] /\ boot = c6.run /\ Raw'
      BY <1>0, <3>1
    <3> QED BY <3>1, <3>2
  <2> QED BY <2>1, <2>2
<1>3. CASE Write
  BY <1>0, <1>3 DEF Write, Takes
<1>4. CASE End
  BY <1>0, <1>4 DEF End, Takes
<1>5. CASE Activate
  BY <1>0, <1>5 DEF Activate, Takes
<1>6. CASE FactoryBegin
  BY <1>0, <1>6 DEF FactoryBegin, Settled
<1>7. CASE FactoryActivate
  BY <1>0, <1>7, ProvisionerAssumption DEF FactoryActivate, Settled, PowerOff
<1> QED BY <1>1, <1>2, <1>3, <1>4, <1>5, <1>6, <1>7

(* Every step keeps what makes AlwaysBootable inductive.                    *)
LEMMA NextKeeps == IInv /\ [Next]_vars => IInv'
<1> SUFFICES ASSUME IInv, [Next]_vars PROVE IInv'
  OBVIOUS
<1>1. CASE P4Next
  BY <1>1, ProvisionerIsCalm, CalmKeeps, UpdateKeeps
<1>2. CASE C6Next
  BY <1>2, StartKeeps, UpdateKeeps, OthersAreCalm, CalmKeeps DEF C6Next, DelegateNext
<1>3. CASE \/ ResetC6 \/ ResetP4 \/ LosePacket \/ OperatorRestarts \/ OperatorUpdatesBundle
           \/ UNCHANGED vars
  BY <1>3, OthersAreCalm, CalmKeeps
<1> QED BY <1>1, <1>2, <1>3 DEF Next

(* For every number of chunks and of faults the slot the C6 boots next      *)
(* holds a whole image, whatever is interrupted.                            *)
THEOREM UpdateAlwaysBootable == Spec => []AlwaysBootable
<1>1. IInv => AlwaysBootable
  BY DEF IInv
<1> QED BY <1>1, InitHolds, NextKeeps, PTL DEF Spec

-----------------------------------------------------------------------------
(* What one step does to a confirmed image.                                 *)
Stays == \A i \in Images : Confirmed(i) => Confirmed(i)' \/ session'.state = "activated"

(* A calm step leaves a confirmed image alone.                              *)
LEMMA CalmStays == Calm => Stays
  BY DEF Calm, Stays, Confirmed, Recorded

(* A confirmed image that boots is the one that runs.                       *)
LEMMA ConfirmedRuns ==
    ASSUME IInv, NEW i \in Images, Confirmed(i), c6.at \in {"guard", "up"},
           session.state # "activated"
    PROVE  Running = i /\ i # Factory
<1>1. slot[c6.run] = Image(i) /\ Whole(c6.run)
  BY DEF IInv, RunsWhatItBoots, Confirmed, AlwaysBootable
<1>2. Running = i
  BY <1>1, ImagesDiffer DEF Running, Holds
<1> QED BY <1>2 DEF IInv, RecordOK, Confirmed, Recorded

(* Every step leaves it alone or follows an activation.                     *)
LEMMA NextStays == IInv /\ [Next]_vars => Stays
<1> SUFFICES ASSUME IInv, [Next]_vars, NEW i \in Images, Confirmed(i)
             PROVE  Confirmed(i)' \/ session'.state = "activated"
  BY DEF Stays
<1> USE DEF Confirmed, Recorded, flash
<1>0. Other(c6.run) \in Slots /\ Other(c6.run) # c6.run
  BY TwoSlots DEF IInv, SlotsOK
<1>1. CASE Load \/ GuardPasses \/ Start \/ Status \/ End
  BY <1>1 DEF Load, GuardPasses, Start, Status, End, Takes
<1>2. CASE GuardArms
  <2>1. session.state # "activated"
    BY <1>2 DEF GuardArms, IInv, SessionOK, Raw, NoSession
  <2> QED BY <1>2, <2>1, ConfirmedRuns DEF GuardArms
<1>3. CASE GuardSelectsOther \/ GuardRestarts
  BY <1>3 DEF GuardSelectsOther, GuardRestarts, IInv, RecordOK
<1>4. CASE ProcessRead
  <2>1. CASE session.state # "activated"
    BY <1>4, <2>1, ConfirmedRuns DEF ProcessRead, Raw
  <2>2. CASE session.state = "activated"
    BY <1>4, <2>2 DEF ProcessRead
  <2> QED BY <2>1, <2>2
<1>5. CASE ProcessConfirm
  BY <1>5 DEF ProcessConfirm
<1>6. CASE Begin \/ Write
  <2>1. boot = c6.run
    BY <1>6 DEF Begin, Write, Takes, Raw, IInv, RunsWhatItBoots
  <2>2. slot'[boot] = slot[boot]
    BY <1>0, <1>6, <2>1 DEF Begin, Write, IInv, SlotsOK
  <2> QED BY <1>6, <2>2 DEF Begin, Write, Takes
<1>7. CASE Activate
  BY <1>7 DEF Activate, Takes, IInv, SlotsOK
<1>8. CASE FactoryBegin \/ FactoryActivate
  BY <1>8, ConfirmedRuns DEF FactoryBegin, FactoryActivate, Settled, Raw
<1>9. CASE P4Next
  BY <1>8, <1>9, ProvisionerIsCalm, CalmStays DEF Stays
<1>10. CASE C6Next
  BY <1>1, <1>2, <1>3, <1>4, <1>5, <1>6, <1>7, <1>10, OthersAreCalm, CalmStays
     DEF C6Next, DelegateNext, Stays
<1>11. CASE \/ ResetC6 \/ ResetP4 \/ LosePacket \/ OperatorRestarts \/ OperatorUpdatesBundle
            \/ UNCHANGED vars
  BY <1>11, OthersAreCalm, CalmStays DEF Stays
<1> QED BY <1>9, <1>10, <1>11 DEF Next

(* For every number of chunks and of faults only an activation takes the    *)
(* C6 away from a confirmed image.                                          *)
THEOREM UpdateConfirmedStays == Spec => ConfirmedStays
<1>1. IInv /\ [Next]_vars => [Stays]_vars
  BY NextStays
<1> QED BY <1>1, InitHolds, NextKeeps, PTL DEF Spec, ConfirmedStays, Stays

-----------------------------------------------------------------------------
(* Completion.  The provisioner says that an image is confirmed because of  *)
(* a packet that was true when the C6 sent it.  It still is: a packet does  *)
(* not survive a reset, and without one only an activation takes the C6     *)
(* from the image it runs.  None is under way, since what is being          *)
(* installed is never the image that runs, and from final_pending on it is  *)
(* the target.                                                              *)
Updating == {"status", "begin", "write", "end", "activate"}
Late     == {"final_pending", "final_verify", "complete"}

Requested  == toUpdater.command # "none"
Installing == session.state \in {"receiving", "finalized", "activated"}
Answered   == \E k \in 1..Len(toP4) : toP4[k].kind = "update"

NothingPending == ~Requested /\ ~Installing
PendingIs(i) ==
    /\ Requested => toUpdater.image = i
    /\ Installing => session.image = i

Identifies(packet) ==
    packet.kind = "identity" =>
        /\ packet.build = Running
        /\ packet.confirmed => Recorded("confirmed", Running)

Truthful == \A k \in 1..Len(toP4) : Identifies(toP4[k])

(* Packets and requests exist only while raw SDIO is up, and packets that   *)
(* identify the image tell the truth.                                       *)
AirOK ==
    /\ ~Raw => ~Requested /\ toP4 = <<>>
    /\ \E S : toP4 \in Seq(S)
    /\ Truthful

(* What is requested or being installed is another image than the one that  *)
(* runs, and so is the image of a call that can go on installing.           *)
OthersPending ==
    /\ Requested => toUpdater.image # Running
    /\ Installing => session.image # Running

AnswersOK == p4.at \in Updating /\ (Requested \/ Answered) => p4.image # Running

(* Which call a provisioner p makes in which phase.                         *)
Calls(p) == p.at \in {"link"} \cup Exchanges

CallFor(p) ==
    /\ p = [at |-> p.at, flow |-> p.flow, call |-> p.call, image |-> p.image,
            got |-> p.got, offset |-> p.offset, next |-> p.next]
    /\ target \in Images
    /\ Calls(p) /\ p.flow # "bootstrap_pending" => p.image = target
    /\ Calls(p) /\ p.flow = "final_verify" => p.call = "confirm"
    /\ p.at \in Updating => p.call = "provision"
    /\ p.at = "clear" => p.flow = "bootstrap_pending"
    /\ p.at \notin {"off", "done"} =>
           phase = p.flow \/ (p.flow = "bootstrap_pending" /\ phase = "discover")
    /\ p.at = "done" => phase = "complete"

CallOK == CallFor(p4)

(* From final_pending on, what is being installed is the target.            *)
Committed ==
    \/ phase \in Late
    \/ Calls(p4) /\ p4.flow # "bootstrap_pending"
    \/ p4.at = "store" /\ p4.next \in Late

TargetOK == Committed => PendingIs(target)

(* What was found confirmed is confirmed, and nothing is under way.         *)
Verified ==
    \/ p4.at = "done"
    \/ p4.at = "store" /\ p4.next = "complete"
    \/ phase = "complete" /\ target = Final

VerifiedOK == Verified => Confirmed(target) /\ NothingPending

CInv == AirOK /\ OthersPending /\ AnswersOK /\ CallOK /\ TargetOK /\ VerifiedOK

-----------------------------------------------------------------------------
(* What the provisioner does next is given by the phase and the call.       *)
LEMMA FailedIs ==
    ASSUME NEW p, p = [at |-> p.at, flow |-> p.flow, call |-> p.call, image |-> p.image,
                       got |-> p.got, offset |-> p.offset, next |-> p.next]
    PROVE  LET q == Failed(p) IN
           /\ q = [at |-> q.at, flow |-> p.flow, call |-> q.call, image |-> q.image,
                   got |-> q.got, offset |-> q.offset, next |-> q.next]
           /\ \/ q.at \in {"factory", "halt"}
              \/ q.at = "clear" /\ p.flow = "bootstrap_pending"
              \/ q.at = "link" /\ p.flow = "final_pending" /\ q.call = "provision" /\ q.image = target
              \/ q.at = "store" /\ p.flow = "final_verify" /\ q.next = "final_pending"
<1>1. CASE p.flow = "discover" /\ ~p.got
  BY <1>1 DEF Failed
<1>2. CASE p.flow = "bootstrap_pending" /\ ~p.got
  BY <1>2 DEF Failed
<1>3. CASE p.flow = "final_pending" /\ p.call = "confirm"
  BY <1>3 DEF Failed, Calling
<1>4. CASE p.flow = "final_verify" /\ p.got
  BY <1>4 DEF Failed, Storing
<1>5. CASE /\ ~ (p.flow = "discover" /\ ~p.got) /\ ~ (p.flow = "bootstrap_pending" /\ ~p.got)
           /\ ~ (p.flow = "final_pending" /\ p.call = "confirm") /\ ~ (p.flow = "final_verify" /\ p.got)
  BY <1>5 DEF Failed, Halted
<1> QED BY <1>1, <1>2, <1>3, <1>4, <1>5

(* After a success it stores, restarts or is done.                          *)
LEMMA SucceededIs ==
    ASSUME NEW installed \in BOOLEAN,
           NEW p, p = [at |-> p.at, flow |-> p.flow, call |-> p.call, image |-> p.image,
                       got |-> p.got, offset |-> p.offset, next |-> p.next]
    PROVE  LET q == Succeeded(p, installed) IN
           /\ q = [at |-> q.at, flow |-> p.flow, call |-> q.call, image |-> q.image,
                   got |-> q.got, offset |-> q.offset, next |-> q.next]
           /\ \/ q.at = "off"
              \/ q.at = "store" /\ (q.next \in Late => p.flow # "bootstrap_pending")
                                /\ (q.next = "complete" => p.flow = "final_verify")
              \/ q.at = "done" /\ p.flow = "complete" /\ ~installed
<1> DEFINE pending == IF installed THEN "final_pending" ELSE "final_verify"
<1>1. CASE p.flow = "bootstrap_pending"
  BY <1>1 DEF Succeeded, Storing, Restarted, Late
<1>2. CASE p.flow = "final_verify"
  BY <1>2 DEF Succeeded, Storing
<1>3. CASE p.flow = "complete"
  BY <1>3 DEF Succeeded, Storing, Done
<1>4. CASE p.flow = "final_pending" /\ p.call = "confirm"
  BY <1>4 DEF Succeeded, Storing
<1>5. CASE /\ p.flow \notin {"bootstrap_pending", "final_verify", "complete"}
           /\ ~ (p.flow = "final_pending" /\ p.call = "confirm")
  <2>1. Succeeded(p, installed) = Storing(p, pending)
    BY <1>5 DEF Succeeded
  <2> QED BY <1>5, <2>1 DEF Storing
<1> QED BY <1>1, <1>2, <1>3, <1>4, <1>5

(* After the phase is cleared it provisions the bootstrap image.            *)
LEMMA ClearedIs ==
    ASSUME NEW p, p = [at |-> p.at, flow |-> p.flow, call |-> p.call, image |-> p.image,
                       got |-> p.got, offset |-> p.offset, next |-> p.next],
           NEW q, q = Calling(p, "provision", Bootstrap)
    PROVE  /\ q = [at |-> q.at, flow |-> q.flow, call |-> q.call, image |-> q.image,
                   got |-> q.got, offset |-> q.offset, next |-> q.next]
           /\ q.at = "link" /\ q.flow = p.flow /\ q.call = "provision"
  BY DEF Calling

(* The first call of a run is the one its phase asks for.                   *)
LEMMA FirstCallIs ==
    ASSUME NEW p, p = [at |-> p.at, flow |-> p.flow, call |-> p.call, image |-> p.image,
                       got |-> p.got, offset |-> p.offset, next |-> p.next]
    PROVE  LET q == FirstCall(p) IN
           /\ q = [at |-> "link", flow |-> p.flow, call |-> q.call, image |-> q.image,
                   got |-> FALSE, offset |-> 0, next |-> q.next]
           /\ p.flow # "bootstrap_pending" => q.image = target
           /\ p.flow \notin {"bootstrap_pending", "final_pending", "final_verify"} =>
                  q.call = "provision"
           /\ p.flow = "final_verify" => q.call = "confirm"
<1>1. CASE p.flow = "bootstrap_pending"
  BY <1>1 DEF FirstCall, Calling
<1>2. CASE p.flow \in {"final_pending", "final_verify"}
  BY <1>2 DEF FirstCall, Calling
<1>3. CASE p.flow \notin {"bootstrap_pending", "final_pending", "final_verify"}
  BY <1>3 DEF FirstCall, Calling
<1> QED BY <1>1, <1>2, <1>3

(* A sequence of packets that grows by one, or loses its first.             *)
LEMMA Appended ==
    ASSUME NEW s, \E S : s \in Seq(S), NEW e
    PROVE  /\ \E S : Append(s, e) \in Seq(S)
           /\ \A k \in 1..Len(Append(s, e)) :
                  Append(s, e)[k] = e \/ (k \in 1..Len(s) /\ Append(s, e)[k] = s[k])
<1>1. PICK S : s \in Seq(S)
  OBVIOUS
<1>2. s \in Seq(S \cup {e}) /\ Len(s) \in Nat
  <2>1. /\ Len(s) \in Nat /\ s \in [1..Len(s) -> S]
    BY <1>1, LenProperties
  <2>2. s \in [1..Len(s) -> S \cup {e}]
    BY <2>1
  <2> QED BY <2>1, <2>2, SeqDef
<1>3. /\ Append(s, e) \in Seq(S \cup {e}) /\ Len(Append(s, e)) = Len(s) + 1
      /\ \A k \in 1..Len(s) : Append(s, e)[k] = s[k]
      /\ Append(s, e)[Len(s) + 1] = e
  BY <1>2, AppendProperties
<1> QED BY <1>2, <1>3

(* And without its first packet it is a sequence of the others.             *)
LEMMA Shortened ==
    ASSUME NEW s, \E S : s \in Seq(S), s # <<>>
    PROVE  /\ \E S : Tail(s) \in Seq(S)
           /\ \A k \in 1..Len(Tail(s)) : k + 1 \in 1..Len(s) /\ Tail(s)[k] = s[k + 1]
           /\ 1 \in 1..Len(s) /\ Head(s) = s[1]
<1>1. PICK S : s \in Seq(S)
  OBVIOUS
<1> QED BY <1>1, HeadTailProperties

-----------------------------------------------------------------------------
(* A step after which nothing is under way keeps what the provisioner       *)
(* relies on, if it finds nothing verified that was not.                    *)
LEMMA IdleKeeps ==
    ASSUME IInv, CInv, [Next]_vars, UNCHANGED target, NothingPending', toP4' = <<>>,
           CallOK', Verified' => Verified
    PROVE  CInv'
<1>1. AirOK'
  <2>1. toP4' \in Seq({}) /\ Len(toP4') = 0
    BY EmptySeq
  <2> QED BY <2>1 DEF AirOK, Truthful, NothingPending
<1>2. OthersPending' /\ TargetOK'
  BY DEF OthersPending, TargetOK, PendingIs, NothingPending
<1>3. AnswersOK'
  BY DEF AnswersOK, NothingPending, Answered
<1>4. VerifiedOK'
  <2> SUFFICES ASSUME Verified PROVE Confirmed(target)'
    BY DEF VerifiedOK
  <2>1. Confirmed(target) /\ target \in Images
    BY DEF CInv, VerifiedOK, CallOK, CallFor
  <2>2. session'.state # "activated"
    BY DEF NothingPending, Installing
  <2>3. Stays
    BY NextStays
  <2>4. PICK i \in Images : i = target
    BY <2>1
  <2>5. Confirmed(i)'
    BY <2>1, <2>2, <2>3, <2>4 DEF Stays
  <2> QED BY <2>4, <2>5 DEF Confirmed, Recorded
<1> QED BY <1>1, <1>2, <1>3, <1>4 DEF CInv

(* A step that leaves the C6 alone and at most takes one packet.            *)
Quiet ==
    /\ UNCHANGED <<flash, record, c6, session, toUpdater, target>>
    /\ toP4' = toP4 \/ (toP4 # <<>> /\ toP4' = Tail(toP4))

(* A quiet step leaves every packet and every request true.                 *)
LEMMA QuietAir ==
    ASSUME AirOK, OthersPending, Quiet
    PROVE  AirOK' /\ OthersPending' /\ (Answered' => Answered)
<1>1. Running' = Running /\ Raw' = Raw
  BY DEF Quiet, Running, Raw, Holds, Whole, flash
<1>2. OthersPending' /\ (Requested' = Requested)
  BY <1>1 DEF OthersPending, Requested, Installing, Quiet
<1>3. CASE toP4' = toP4
  BY <1>1, <1>2, <1>3 DEF AirOK, Answered, Truthful, Identifies, Recorded, Quiet
<1>4. CASE toP4 # <<>> /\ toP4' = Tail(toP4)
  <2>1. \E S : toP4 \in Seq(S)
    BY DEF AirOK
  <2>2. /\ \E S : toP4' \in Seq(S)
        /\ \A k \in 1..Len(toP4') : k + 1 \in 1..Len(toP4) /\ toP4'[k] = toP4[k + 1]
    BY <1>4, <2>1, Shortened
  <2>3. Answered' => Answered
    BY <2>2 DEF Answered
  <2>4. Truthful'
    BY <1>1, <2>2 DEF AirOK, Truthful, Identifies, Recorded, Quiet
  <2>5. Raw'
    BY <1>1, <1>4 DEF AirOK
  <2> QED BY <1>2, <2>2, <2>3, <2>4, <2>5 DEF AirOK
<1> QED BY <1>3, <1>4 DEF Quiet

(* It keeps completion when what it commits to or finds is justified.       *)
LEMMA QuietKeeps ==
    ASSUME CInv, Quiet, CallOK',
           p4'.at \in Updating => p4' = p4,
           Committed' => PendingIs(target),
           Verified' => Confirmed(target) /\ NothingPending
    PROVE  CInv'
<1>1. AirOK' /\ OthersPending' /\ (Answered' => Answered)
  BY QuietAir DEF CInv
<1>2. Requested' = Requested /\ Installing' = Installing /\ Running' = Running
  BY DEF Quiet, Requested, Installing, Running, Holds, Whole, flash
<1>3. AnswersOK'
  BY <1>1, <1>2 DEF AnswersOK, CInv
<1>4. TargetOK'
  BY <1>2 DEF TargetOK, PendingIs, Quiet
<1>5. VerifiedOK'
  BY <1>2 DEF VerifiedOK, NothingPending, Confirmed, Recorded, Quiet, flash
<1> QED BY <1>1, <1>3, <1>4, <1>5 DEF CInv

-----------------------------------------------------------------------------
(* What the provisioner may go on as.                                       *)
Sound(q) ==
    /\ CallFor(q)
    /\ q.at \notin Exchanges
    /\ q.at = "link" /\ q.flow # "bootstrap_pending" /\ ~Entering(q) => PendingIs(target)
    /\ q.at = "store" /\ q.next \in Late => PendingIs(target)
    /\ q.at = "done" \/ (q.at = "store" /\ q.next = "complete") =>
           Confirmed(target) /\ NothingPending

(* Going on as a sound provisioner keeps completion.                        *)
LEMMA GoesOnKeeps ==
    ASSUME IInv, CInv, [Next]_vars, UNCHANGED <<flash, record, phase, target>>,
           NEW q, Sound(q),
           NEW packets, packets = toP4 \/ (toP4 # <<>> /\ packets = Tail(toP4)),
           GoesOn(q, packets)
    PROVE  CInv'
<1>1. p4' = q /\ CallOK'
  BY DEF GoesOn, Sound, CallOK, CallFor, Calls
<1>2. CASE Entering(q)
  <2>1. PowerOff
    BY <1>2 DEF GoesOn
  <2>2. NothingPending' /\ toP4' = <<>>
    BY <2>1 DEF PowerOff, NothingPending, Requested, Installing, NoRequest, NoSession
  <2>3. Verified' => Verified
    BY <1>1, <1>2 DEF Verified, Entering
  <2> QED BY <1>1, <2>2, <2>3, IdleKeeps
<1>3. CASE ~Entering(q)
  <2>1. Quiet
    BY <1>3 DEF GoesOn, Quiet
  <2>2. q.at \notin Updating
    BY DEF Sound, Updating, Exchanges
  <2>3. Committed' => PendingIs(target)
    <3>1. CASE phase \in Late
      BY <3>1 DEF CInv, TargetOK, Committed
    <3>2. CASE phase \notin Late
      BY <1>1, <1>3, <3>2 DEF Committed, Calls, Sound
    <3> QED BY <3>1, <3>2
  <2>4. Verified' => Confirmed(target) /\ NothingPending
    BY <1>1 DEF Verified, Sound, CInv, VerifiedOK
  <2> QED BY <1>1, <2>1, <2>2, <2>3, <2>4, QuietKeeps
<1> QED BY <1>2, <1>3

(* A provisioner in the call of p4, whatever it found out since.            *)
Alike(p) ==
    /\ p = [at |-> p.at, flow |-> p.flow, call |-> p.call, image |-> p.image,
            got |-> p.got, offset |-> p.offset, next |-> p.next]
    /\ p.flow = p4.flow /\ p.call = p4.call /\ p.image = p4.image

(* Within a call, the phase and the image are those of its flow.            *)
LEMMA InCall ==
    ASSUME CInv, Calls(p4)
    PROVE  /\ phase = p4.flow \/ (p4.flow = "bootstrap_pending" /\ phase = "discover")
           /\ p4.flow # "bootstrap_pending" => p4.image = target /\ PendingIs(target)
           /\ p4.flow = "final_verify" => p4.call = "confirm"
           /\ target \in Images
  BY DEF CInv, CallOK, CallFor, TargetOK, Committed, Calls, Exchanges

(* What follows a failure is sound.                                         *)
LEMMA FailedIsSound ==
    ASSUME CInv, Calls(p4), NEW p, Alike(p)
    PROVE  Sound(Failed(p))
<1> DEFINE q == Failed(p)
<1>1. /\ q = [at |-> q.at, flow |-> p4.flow, call |-> q.call, image |-> q.image,
              got |-> q.got, offset |-> q.offset, next |-> q.next]
      /\ \/ q.at \in {"factory", "halt"}
         \/ q.at = "clear" /\ p4.flow = "bootstrap_pending"
         \/ /\ q.at = "link" /\ p4.flow = "final_pending"
            /\ q.call = "provision" /\ q.image = target
         \/ q.at = "store" /\ p4.flow = "final_verify" /\ q.next = "final_pending"
  BY FailedIs DEF Alike
<1> HIDE DEF q
<1>2. q.flow = p4.flow
  BY <1>1
<1>3. CallFor(q)
  BY <1>1, <1>2, InCall DEF CallFor, Calls, Exchanges, Updating
<1>4. q.at = "store" => p4.flow = "final_verify" /\ q.next = "final_pending"
  BY <1>1
<1>5. q.at = "link" => Entering(q)
  BY <1>1 DEF Entering
<1>6. q.at \notin Exchanges \cup {"done"}
  BY <1>1 DEF Exchanges
<1>7. Sound(q)
  BY <1>3, <1>4, <1>5, <1>6, InCall DEF Sound
<1> QED BY <1>7 DEF q

(* What follows a success is sound, if the image was found confirmed.       *)
LEMMA SucceededIsSound ==
    ASSUME CInv, Calls(p4), NEW p, Alike(p), NEW installed \in BOOLEAN,
           installed => p4.call = "provision",
           ~installed /\ p4.flow # "bootstrap_pending" => Confirmed(target) /\ NothingPending
    PROVE  Sound(Succeeded(p, installed))
<1> DEFINE q == Succeeded(p, installed)
<1>1. /\ q = [at |-> q.at, flow |-> p4.flow, call |-> q.call, image |-> q.image,
              got |-> q.got, offset |-> q.offset, next |-> q.next]
      /\ \/ q.at = "off"
         \/ q.at = "store" /\ (q.next \in Late => p4.flow # "bootstrap_pending")
                           /\ (q.next = "complete" => p4.flow = "final_verify")
         \/ q.at = "done" /\ p4.flow = "complete" /\ ~installed
  BY SucceededIs DEF Alike
<1> HIDE DEF q
<1>2. q.flow = p4.flow /\ q.at \in {"off", "store", "done"}
  BY <1>1
<1>3. CallFor(q)
  BY <1>1, <1>2, InCall DEF CallFor, Calls, Exchanges, Updating
<1>4. q.at = "store" /\ q.next \in Late => PendingIs(target)
  BY <1>1, InCall
<1>5. q.at = "done" \/ (q.at = "store" /\ q.next = "complete") => Confirmed(target) /\ NothingPending
  BY <1>1, InCall
<1>6. Sound(q)
  BY <1>2, <1>3, <1>4, <1>5 DEF Sound, Exchanges
<1> QED BY <1>6 DEF q

-----------------------------------------------------------------------------
(* A confirmed image that is up is the one that runs.                       *)
LEMMA ConfirmedIsUp ==
    ASSUME IInv, Raw, Confirmed(target), NothingPending, target \in Images
    PROVE  Running = target
<1>1. c6.at = "up" /\ session.state # "activated"
  BY DEF Raw, NothingPending, Installing
<1>2. PICK i \in Images : i = target
  OBVIOUS
<1>3. Confirmed(i)
  BY <1>2
<1> QED BY <1>1, <1>2, <1>3, ConfirmedRuns

(* An exchange that is sent, or lost, on a link that is up.                 *)
Sends(p, command, packets) ==
    /\ Raw
    /\ p4' = [p EXCEPT !.at = command]
    /\ \/ Deliver([command |-> command, image |-> p.image, offset |-> p.offset])
       \/ UNCHANGED <<toUpdater, toRecovery>>
    /\ toP4' = packets
    /\ UNCHANGED <<c6, session>>

(* A request keeps completion: nothing is verified then, or the request     *)
(* installs nothing.                                                        *)
LEMMA SendsKeeps ==
    ASSUME IInv, CInv, UNCHANGED <<flash, record, phase, target>>, Calls(p4),
           NEW p, Alike(p), NEW command \in Exchanges,
           command \in Updating => p.call = "provision" /\ p.image # Running,
           NEW packets, packets = toP4 \/ (toP4 # <<>> /\ packets = Tail(toP4)),
           Sends(p, command, packets)
    PROVE  CInv'
<1>1. /\ p4'.at = command /\ p4'.flow = p4.flow /\ p4'.call = p4.call /\ p4'.image = p4.image
      /\ p4' = [at |-> p4'.at, flow |-> p4'.flow, call |-> p4'.call, image |-> p4'.image,
                got |-> p4'.got, offset |-> p4'.offset, next |-> p4'.next]
  BY DEF Sends, Alike
<1>2. CallOK'
  BY <1>1, InCall DEF CallOK, CallFor, Calls, Exchanges, Alike
<1>3. CASE toUpdater' = toUpdater
  <2>1. Quiet
    BY <1>3 DEF Quiet, Sends
  <2>2. AirOK' /\ OthersPending' /\ (Answered' => Answered)
    BY <2>1, QuietAir DEF CInv
  <2>3. Requested' = Requested /\ Installing' = Installing /\ Running' = Running
    BY <2>1 DEF Quiet, Requested, Installing, Running, Holds, Whole, flash
  <2>4. AnswersOK'
    BY <1>1, <2>3 DEF AnswersOK, Alike
  <2>5. TargetOK'
    <3>1. Committed' => Committed
      BY <1>1 DEF Committed, Calls, Exchanges
    <3> QED BY <2>1, <2>3, <3>1 DEF TargetOK, PendingIs, CInv, Quiet
  <2>6. VerifiedOK'
    <3>1. Verified' => Verified
      BY <1>1 DEF Verified, Exchanges
    <3> QED BY <2>1, <2>3, <3>1
        DEF VerifiedOK, CInv, NothingPending, Confirmed, Recorded, Quiet, flash
  <2> QED BY <1>2, <2>2, <2>4, <2>5, <2>6 DEF CInv
<1>4. CASE toUpdater' # toUpdater
  <2>1. command \in Updating /\ toUpdater'.image = p4.image /\ p4.image # Running
    BY <1>4 DEF Sends, Deliver, Exchanges, Updating, Alike
  <2>2. Raw' /\ Running' = Running /\ Installing' = Installing /\ session' = session
    BY DEF Sends, Raw, Running, Holds, Whole, flash, Installing
  <2>3. AirOK'
    <3>1. CASE packets = toP4
      BY <2>2, <3>1 DEF AirOK, Truthful, Identifies, Recorded, Sends, CInv
    <3>2. CASE toP4 # <<>> /\ packets = Tail(toP4)
      <4>1. \E S : toP4 \in Seq(S)
        BY DEF AirOK, CInv
      <4>2. /\ \E S : toP4' \in Seq(S)
            /\ \A k \in 1..Len(toP4') : k + 1 \in 1..Len(toP4) /\ toP4'[k] = toP4[k + 1]
        BY <3>2, <4>1, Shortened DEF Sends
      <4>3. Truthful'
        BY <2>2, <4>2 DEF AirOK, Truthful, Identifies, Recorded, CInv
      <4> QED BY <2>2, <4>2, <4>3 DEF AirOK
    <3> QED BY <3>1, <3>2
  <2>4. OthersPending' /\ AnswersOK'
    BY <1>1, <2>1, <2>2 DEF OthersPending, AnswersOK, CInv
  <2>5. TargetOK'
    <3>1. Committed' => p4.flow # "bootstrap_pending"
      BY <1>1, InCall DEF Committed, Calls, Exchanges, Late
    <3>2. Committed' => p4.image = target /\ PendingIs(target)
      BY <3>1, InCall
    <3> QED BY <2>1, <2>2, <3>2 DEF TargetOK, PendingIs
  <2>6. VerifiedOK'
    <3> SUFFICES ASSUME Verified' PROVE FALSE
      BY DEF VerifiedOK
    <3>1. phase = "complete" /\ Verified
      BY <1>1 DEF Verified, Exchanges
    <3>2. p4.image = target /\ target \in Images
      BY <3>1, InCall
    <3>3. Running = target
      BY <3>1, <3>2, ConfirmedIsUp DEF VerifiedOK, CInv, Sends
    <3> QED BY <2>1, <3>2, <3>3
  <2> QED BY <1>2, <2>3, <2>4, <2>5, <2>6 DEF CInv
<1> QED BY <1>3, <1>4

(* An exchange sends a request, or finds the link down and fails.           *)
LEMMA ExchangeKeeps ==
    ASSUME IInv, CInv, [Next]_vars, UNCHANGED <<flash, record, phase, target>>, Calls(p4),
           NEW p, Alike(p), NEW command \in Exchanges,
           command \in Updating => p.call = "provision" /\ p.image # Running,
           NEW packets, packets = toP4 \/ (toP4 # <<>> /\ packets = Tail(toP4)),
           Exchange(p, command, packets)
    PROVE  CInv'
<1>1. Sends(p, command, packets) \/ GoesOn(Failed(p), packets)
  BY DEF Exchange, Sends
<1>2. Sound(Failed(p))
  BY FailedIsSound
<1> QED BY <1>1, <1>2, GoesOnKeeps, SendsKeeps

-----------------------------------------------------------------------------
(* A packet that finds the image of the call confirmed is right, and shows  *)
(* that nothing is under way: what is under way is the target, and would    *)
(* not be the image that runs.                                              *)
LEMMA FoundConfirmed ==
    ASSUME IInv, CInv, Calls(p4), Receives("identity"), Packet.build = p4.image, Packet.confirmed,
           p4.flow # "bootstrap_pending"
    PROVE  Confirmed(target) /\ NothingPending
<1>1. toP4 # <<>> /\ Identifies(Packet)
  <2>1. toP4 # <<>> /\ \E S : toP4 \in Seq(S)
    BY DEF Receives, CInv, AirOK
  <2>2. 1 \in 1..Len(toP4) /\ Packet = toP4[1]
    BY <2>1, Shortened DEF Packet
  <2> QED BY <2>1, <2>2 DEF CInv, AirOK, Truthful
<1>2. Raw
  BY <1>1 DEF CInv, AirOK
<1>3. p4.image = target /\ PendingIs(target) /\ target \in Images
  BY InCall
<1>4. Running = target /\ Recorded("confirmed", target)
  BY <1>1, <1>3 DEF Identifies, Receives, Packet
<1>5. NothingPending
  BY <1>3, <1>4 DEF NothingPending, PendingIs, CInv, OthersPending
<1>6. boot = c6.run /\ boot \in Slots
  BY <1>2, <1>5 DEF IInv, RunsWhatItBoots, SlotsOK, Raw, NothingPending, Installing
<1>7. Whole(c6.run) /\ Holds(c6.run) = target
  BY <1>3, <1>4, DelegateAssumption DEF Running, Holds
<1>8. slot[boot] = Image(target)
  BY <1>6, <1>7, HoldsWhole
<1> QED BY <1>4, <1>5, <1>8 DEF Confirmed

(* A provisioner that found out something is in the same call.              *)
LEMMA StillAlike ==
    ASSUME Alike(p4), NEW value
    PROVE  Alike([p4 EXCEPT !.got = value]) /\ Alike([p4 EXCEPT !.offset = value])
  BY DEF Alike

(* What the provisioner does with an answer it received.                    *)
LEMMA AnswerKeeps ==
    ASSUME IInv, CInv, [Next]_vars, IdentityRead \/ IdentityConfirmed \/ UpdateAnswered
    PROVE  CInv'
<1>1. Calls(p4) /\ UNCHANGED <<flash, record, phase, target>> /\ toP4 # <<>>
  BY DEF IdentityRead, IdentityConfirmed, UpdateAnswered, Kept, At, Calls, Exchanges, Receives
<1>2. Rest = Tail(toP4)
  BY DEF Rest
<1>3. Alike(p4)
  BY DEF Alike, CInv, CallOK, CallFor
<1>4. Identifies(Packet)
  <2>1. 1 \in 1..Len(toP4) /\ Packet = toP4[1]
    BY <1>1, Shortened DEF Packet, CInv, AirOK
  <2> QED BY <2>1 DEF CInv, AirOK, Truthful
<1>5. CASE IdentityRead
  <2> DEFINE seen == [p4 EXCEPT !.got = TRUE]
  <2>1. Alike(seen)
    BY <1>3, StillAlike
  <2>2. seen.call = p4.call /\ seen.image = p4.image
    BY <2>1 DEF Alike
  <2> HIDE DEF seen
  <2>3. Packet.build = Running
    BY <1>4, <1>5 DEF Identifies, IdentityRead, Receives, Packet
  <2>4. CASE Packet.build = seen.image /\ Packet.confirmed /\ GoesOn(Succeeded(seen, FALSE), Rest)
    <3>1. p4.flow # "bootstrap_pending" => Confirmed(target) /\ NothingPending
      BY <1>1, <1>5, <2>2, <2>4, FoundConfirmed DEF IdentityRead
    <3>2. Sound(Succeeded(seen, FALSE))
      BY <1>1, <2>1, <3>1, SucceededIsSound
    <3> QED BY <1>1, <1>2, <2>4, <3>2, GoesOnKeeps
  <2>5. CASE Exchange(seen, "confirm", Rest)
    BY <1>1, <1>2, <2>1, <2>5, ExchangeKeeps DEF Exchanges, Updating
  <2>6. CASE Packet.build # seen.image /\ seen.call = "provision" /\ Exchange(seen, "status", Rest)
    BY <1>1, <1>2, <2>1, <2>3, <2>6, ExchangeKeeps DEF Exchanges
  <2>7. CASE GoesOn(Failed(seen), Rest)
    BY <1>1, <1>2, <2>1, <2>7, FailedIsSound, GoesOnKeeps
  <2> QED BY <1>5, <2>4, <2>5, <2>6, <2>7 DEF IdentityRead, seen
<1>6. CASE IdentityConfirmed
  <2>1. CASE Packet.build = p4.image /\ Packet.confirmed
    <3>1. p4.flow # "bootstrap_pending" => Confirmed(target) /\ NothingPending
      BY <1>1, <1>6, <2>1, FoundConfirmed DEF IdentityConfirmed
    <3>2. Sound(Succeeded(p4, FALSE))
      BY <1>1, <1>3, <3>1, SucceededIsSound
    <3>3. GoesOn(Succeeded(p4, FALSE), Rest)
      BY <1>6, <2>1 DEF IdentityConfirmed
    <3> QED BY <1>1, <1>2, <3>2, <3>3, GoesOnKeeps
  <2>2. CASE ~(Packet.build = p4.image /\ Packet.confirmed)
    <3>1. GoesOn(Failed(p4), Rest)
      BY <1>6, <2>2 DEF IdentityConfirmed
    <3> QED BY <1>1, <1>2, <1>3, <3>1, FailedIsSound, GoesOnKeeps
  <2> QED BY <2>1, <2>2
<1>7. CASE UpdateAnswered
  <2> DEFINE sent == [p4 EXCEPT !.offset = @ + 1]
  <2>1. Alike(sent)
    BY <1>3, StillAlike
  <2>2. sent.call = p4.call /\ sent.image = p4.image
    BY <2>1 DEF Alike
  <2>3. p4.at \in Updating /\ p4.call = "provision"
    BY <1>7 DEF UpdateAnswered, Exchanges, Updating, CInv, CallOK, CallFor
  <2>4. p4.image # Running
    <3>1. 1 \in 1..Len(toP4) /\ toP4[1].kind = "update"
      BY <1>1, <1>7, Shortened DEF UpdateAnswered, Receives, CInv, AirOK
    <3> QED BY <2>3, <3>1 DEF CInv, AnswersOK, Answered
  <2>5. CASE GoesOn(Failed(p4), Rest)
    BY <1>1, <1>2, <1>3, <2>5, FailedIsSound, GoesOnKeeps
  <2>6. CASE GoesOn(Succeeded(p4, TRUE), Rest)
    <3>1. Sound(Succeeded(p4, TRUE))
      BY <1>1, <1>3, <2>3, SucceededIsSound
    <3> QED BY <1>1, <1>2, <2>6, <3>1, GoesOnKeeps
  <2>7. CASE \E command \in Exchanges : Exchange(p4, command, Rest)
    BY <1>1, <1>2, <1>3, <2>3, <2>4, <2>7, ExchangeKeeps
  <2>8. CASE Exchange(sent, IF sent.offset < Chunks THEN "write" ELSE "end", Rest)
    <3> DEFINE command == IF sent.offset < Chunks THEN "write" ELSE "end"
    <3>1. command \in Exchanges
      BY DEF Exchanges
    <3> HIDE DEF sent, command
    <3>2. Exchange(sent, command, Rest)
      BY <2>8 DEF command
    <3> QED BY <1>1, <1>2, <2>1, <2>2, <2>3, <2>4, <3>1, <3>2, ExchangeKeeps
  <2> QED BY <1>7, <2>5, <2>6, <2>7, <2>8 DEF UpdateAnswered, Exchanges
<1> QED BY <1>5, <1>6, <1>7

(* The other steps of the provisioner.                                      *)
LEMMA ProvisionerKeeps ==
    ASSUME IInv, CInv, [Next]_vars, P4Next
    PROVE  CInv'
<1>1. CASE P4Boot
  <2> DEFINE q == FirstCall(Stopped(phase))
  <2>1. /\ q = [at |-> "link", flow |-> phase, call |-> q.call, image |-> q.image,
                got |-> FALSE, offset |-> 0, next |-> q.next]
        /\ phase # "bootstrap_pending" => q.image = target
        /\ phase \notin {"bootstrap_pending", "final_pending", "final_verify"} => q.call = "provision"
        /\ phase = "final_verify" => q.call = "confirm"
    <3>1. PICK s : s = Stopped(phase)
      OBVIOUS
    <3>2. /\ s.flow = phase
          /\ s = [at |-> s.at, flow |-> s.flow, call |-> s.call, image |-> s.image,
                  got |-> s.got, offset |-> s.offset, next |-> s.next]
      BY <3>1 DEF Stopped
    <3> QED BY <3>1, <3>2, FirstCallIs
  <2> HIDE DEF q
  <2>2. q.at = "link" /\ q.flow = phase
    BY <2>1
  <2>3. CallFor(q)
    BY <2>1, <2>2 DEF CallFor, Calls, Updating, CInv, CallOK
  <2>4. q.flow # "bootstrap_pending" /\ ~Entering(q) => PendingIs(target)
    BY <2>1, <2>2 DEF Entering, CInv, TargetOK, Committed, Late
  <2>5. Sound(q)
    BY <2>2, <2>3, <2>4 DEF Sound, Exchanges
  <2>6. GoesOn(q, toP4) /\ UNCHANGED <<flash, record, phase, target>>
    BY <1>1 DEF P4Boot, Kept, q
  <2> QED BY <2>5, <2>6, GoesOnKeeps
<1>2. CASE StorePhase
  <2>1. Quiet /\ p4.at = "store" /\ phase' = p4.next
    BY <1>2 DEF StorePhase, Quiet, delegate, queues, At
  <2>2. /\ p4' = [p4 EXCEPT !.at = p4'.at]
        /\ p4'.at = IF p4.next = "complete" THEN "done" ELSE "off"
    BY <1>2 DEF StorePhase, Done, Restarted, CInv, CallOK, CallFor
  <2>3. CallOK'
    BY <2>1, <2>2 DEF CallOK, CallFor, Calls, Exchanges, Updating, CInv, Quiet
  <2>4. Committed' => PendingIs(target)
    BY <2>1, <2>2 DEF Committed, Calls, Exchanges, CInv, TargetOK
  <2>5. Verified' => Verified
    BY <2>1, <2>2 DEF Verified
  <2>6. p4'.at \notin Updating
    BY <2>2 DEF Updating
  <2> QED BY <2>1, <2>3, <2>4, <2>5, <2>6, QuietKeeps DEF Quiet, CInv, VerifiedOK
<1>3. CASE ClearPhase
  <2> DEFINE q == Calling(p4, "provision", Bootstrap)
  <2>1. /\ q = [at |-> q.at, flow |-> q.flow, call |-> q.call, image |-> q.image,
                got |-> q.got, offset |-> q.offset, next |-> q.next]
        /\ q.at = "link" /\ q.flow = "bootstrap_pending" /\ q.call = "provision"
        /\ target \in Images
    <3>1. /\ p4 = [at |-> p4.at, flow |-> p4.flow, call |-> p4.call, image |-> p4.image,
                   got |-> p4.got, offset |-> p4.offset, next |-> p4.next]
          /\ p4.flow = "bootstrap_pending" /\ target \in Images
      BY <1>3 DEF ClearPhase, At, CInv, CallOK, CallFor
    <3> QED BY <3>1, ClearedIs
  <2> HIDE DEF q
  <2>2. GoesOn(q, toP4) /\ Entering(q)
    BY <1>3, <2>1 DEF ClearPhase, Entering, q
  <2>3. p4' = q /\ phase' = "discover" /\ target' = target /\ PowerOff
    BY <1>3, <2>2 DEF ClearPhase, GoesOn
  <2>4. NothingPending' /\ toP4' = <<>>
    BY <2>3 DEF PowerOff, NothingPending, Requested, Installing, NoRequest, NoSession
  <2>5. p4'.at = "link" /\ p4'.flow = "bootstrap_pending"
    BY <2>1, <2>3
  <2>6. CallOK'
    BY <2>1, <2>3, <2>5 DEF CallOK, CallFor, Calls, Updating
  <2>7. ~Verified'
    BY <2>3, <2>5 DEF Verified
  <2> QED BY <2>3, <2>4, <2>6, <2>7, IdleKeeps
<1>4. CASE FactoryRefused \/ FactoryInterrupted
  <2>1. Quiet /\ p4' = [p4 EXCEPT !.at = "halt"] /\ p4.at \in {"factory", "transfer"} /\ phase' = phase
    BY <1>4 DEF FactoryRefused, FactoryInterrupted, Halted, At, Quiet, delegate, queues
  <2>2. p4'.at = "halt" /\ p4'.flow = p4.flow
    BY <2>1 DEF CInv, CallOK, CallFor
  <2>3. CallOK'
    BY <2>1, <2>2 DEF CallOK, CallFor, Calls, Exchanges, Updating, CInv, Quiet
  <2>4. Committed' => Committed
    BY <2>1, <2>2 DEF Committed, Calls, Exchanges
  <2>5. Verified' => Verified
    BY <2>1, <2>2 DEF Verified, Quiet
  <2>6. p4'.at \notin Updating
    BY <2>2 DEF Updating
  <2> QED BY <2>1, <2>3, <2>4, <2>5, <2>6, QuietKeeps DEF CInv, VerifiedOK, TargetOK
<1>5. CASE FactoryBegin
  <2>1. /\ ~Raw /\ p4.at = "factory" /\ p4' = [p4 EXCEPT !.at = "transfer"]
        /\ UNCHANGED <<session, toUpdater, toP4, phase, target>>
    BY <1>5 DEF FactoryBegin, At, queues
  <2>2. NothingPending' /\ toP4' = <<>>
    BY <2>1 DEF NothingPending, Requested, Installing, CInv, AirOK, IInv, SessionOK, NoSession
  <2>3. p4'.at = "transfer" /\ p4'.flow = p4.flow
    BY <2>1 DEF CInv, CallOK, CallFor
  <2>4. CallOK'
    BY <2>1, <2>3 DEF CallOK, CallFor, Calls, Exchanges, Updating, CInv
  <2>5. Verified' => Verified
    BY <2>1, <2>3 DEF Verified
  <2> QED BY <2>1, <2>2, <2>4, <2>5, IdleKeeps
<1>6. CASE FactoryActivate
  <2>1. /\ p4.at = "transfer" /\ PowerOff /\ UNCHANGED <<phase, target>>
        /\ p4' = IF p4.flow = "discover" THEN Storing(p4, "bootstrap_pending") ELSE Restarted(p4)
    BY <1>6 DEF FactoryActivate, At
  <2>2. NothingPending' /\ toP4' = <<>>
    BY <2>1 DEF PowerOff, NothingPending, Requested, Installing, NoRequest, NoSession
  <2>3. /\ p4'.at = "off" \/ (p4'.at = "store" /\ p4'.next = "bootstrap_pending")
        /\ p4'.flow = p4.flow
        /\ p4' = [at |-> p4'.at, flow |-> p4'.flow, call |-> p4'.call, image |-> p4'.image,
                  got |-> p4'.got, offset |-> p4'.offset, next |-> p4'.next]
    <3>1. CASE p4.flow = "discover"
      BY <2>1, <3>1 DEF CInv, CallOK, CallFor, Storing
    <3>2. CASE p4.flow # "discover"
      BY <2>1, <3>2 DEF CInv, CallOK, CallFor, Restarted
    <3> QED BY <3>1, <3>2
  <2>4. CallOK'
    BY <2>1, <2>3 DEF CallOK, CallFor, Calls, Exchanges, Updating, CInv
  <2>5. Verified' => Verified
    BY <2>1, <2>3 DEF Verified
  <2> QED BY <2>1, <2>2, <2>4, <2>5, IdleKeeps
<1>7. CASE OpenLink
  <2>1. Calls(p4) /\ UNCHANGED <<flash, record, phase, target>> /\ Exchange(p4, "read", toP4)
    BY <1>7 DEF OpenLink, Kept, At, Calls
  <2>2. Alike(p4)
    BY DEF Alike, CInv, CallOK, CallFor
  <2> QED BY <2>1, <2>2, ExchangeKeeps DEF Exchanges, Updating
<1>8. CASE OpenLinkEarly
  <2>1. Calls(p4) /\ UNCHANGED <<flash, record, phase, target>>
    BY <1>8 DEF OpenLinkEarly, Kept, At, Calls
  <2>2. Alike(p4)
    BY DEF Alike, CInv, CallOK, CallFor
  <2>3. Sends(p4, "read", toP4) \/ GoesOn(Failed(p4), toP4)
    BY <1>8 DEF OpenLinkEarly, Sends
  <2> QED BY <2>1, <2>2, <2>3, SendsKeeps, FailedIsSound, GoesOnKeeps DEF Exchanges, Updating
<1>9. CASE Discard
  <2>1. Quiet /\ UNCHANGED <<phase, p4>>
    BY <1>9 DEF Discard, Quiet, Rest
  <2>2. CallOK' /\ (Committed' => Committed) /\ (Verified' => Verified)
    BY <2>1 DEF CallOK, CallFor, Calls, Committed, Verified, CInv, Quiet
  <2> QED BY <2>1, <2>2, QuietKeeps DEF CInv, VerifiedOK, TargetOK
<1>10. CASE ExchangeTimesOut
  <2>1. Calls(p4) /\ UNCHANGED <<flash, record, phase, target>> /\ GoesOn(Failed(p4), toP4)
    BY <1>10 DEF ExchangeTimesOut, Kept, Calls
  <2>2. Alike(p4)
    BY DEF Alike, CInv, CallOK, CallFor
  <2> QED BY <2>1, <2>2, FailedIsSound, GoesOnKeeps
<1>11. CASE IdentityRead \/ IdentityConfirmed \/ UpdateAnswered
  BY <1>11, AnswerKeeps
<1> QED BY <1>1, <1>2, <1>3, <1>4, <1>5, <1>6, <1>7, <1>8, <1>9, <1>10, <1>11 DEF P4Next

-----------------------------------------------------------------------------
(* The start of the C6 and every reset of it leave nothing under way.       *)
LEMMA StartIdles ==
    ASSUME IInv, CInv,
           \/ Load \/ GuardArms \/ GuardPasses \/ GuardSelectsOther \/ GuardRestarts \/ Start
           \/ PowerOff
    PROVE  NothingPending' /\ toP4' = <<>>
<1>1. CASE PowerOff
  BY <1>1 DEF PowerOff, NothingPending, Requested, Installing, NoRequest, NoSession
<1>2. CASE UNCHANGED <<session, queues>> /\ ~Raw
  BY <1>2 DEF NothingPending, Requested, Installing, CInv, AirOK, IInv, SessionOK, NoSession, queues
<1>3. PowerOff \/ (UNCHANGED <<session, queues>> /\ ~Raw)
  BY DEF Load, GuardArms, GuardPasses, GuardSelectsOther, GuardRestarts, Start, Raw, queues
<1> QED BY <1>1, <1>2, <1>3

(* The recovery service answers with what is true of the image that runs.   *)
LEMMA RecoveryKeeps ==
    ASSUME IInv, CInv, [Next]_vars, ProcessRead \/ ProcessConfirm, UNCHANGED <<phase, p4, target>>
    PROVE  CInv'
<1>1. UNCHANGED <<flash, c6, session, toUpdater>> /\ Raw
  BY DEF ProcessRead, ProcessConfirm
<1>2. Raw' /\ Running' = Running /\ Requested' = Requested /\ Installing' = Installing
  BY <1>1 DEF Raw, Running, Holds, Whole, flash, Requested, Installing
<1>3. Recorded("confirmed", Running) => Recorded("confirmed", Running)'
  BY <1>2 DEF ProcessRead, ProcessConfirm, Recorded
<1>4. AirOK' /\ (Answered' => Answered)
  <2>1. CASE toP4' = toP4
    <3>1. Truthful'
      BY <1>2, <1>3, <2>1 DEF Truthful, Identifies, CInv, AirOK
    <3> QED BY <1>2, <2>1, <3>1 DEF AirOK, Answered, CInv
  <2>2. CASE toP4' # toP4
    <3> DEFINE e == Identity
    <3>1. e.kind = "identity" /\ e.build = Running /\ (e.confirmed => Recorded("confirmed", Running)')
      <4>1. e.confirmed => record'.state = "confirmed"
        BY DEF Identity
      <4>2. record'.state = "confirmed" => Recorded("confirmed", Running)'
        BY <1>2, <2>2 DEF ProcessRead, ProcessConfirm, Recorded, Identity
      <4> QED BY <4>1, <4>2 DEF Identity
    <3> HIDE DEF e
    <3>2. toP4' = Append(toP4, e)
      BY <2>2 DEF Reply, e, ProcessRead, ProcessConfirm
    <3>3. /\ \E S : toP4' \in Seq(S)
          /\ \A k \in 1..Len(toP4') :
                 toP4'[k] = e \/ (k \in 1..Len(toP4) /\ toP4'[k] = toP4[k])
      BY <3>2, Appended DEF CInv, AirOK
    <3>4. Truthful'
      BY <1>2, <1>3, <3>1, <3>3 DEF Truthful, Identifies, CInv, AirOK
    <3>5. Answered' => Answered
      BY <3>1, <3>3 DEF Answered
    <3> QED BY <1>2, <3>3, <3>4, <3>5 DEF AirOK
  <2> QED BY <2>1, <2>2
<1>5. OthersPending' /\ AnswersOK' /\ CallOK' /\ TargetOK'
  BY <1>1, <1>2, <1>4 DEF OthersPending, AnswersOK, CallOK, CallFor, Calls, TargetOK, Committed,
     PendingIs, CInv
<1>6. VerifiedOK'
  <2> SUFFICES ASSUME Verified PROVE Confirmed(target)' /\ NothingPending'
    BY DEF VerifiedOK, Verified
  <2>1. Confirmed(target) /\ NothingPending /\ target \in Images
    BY DEF CInv, VerifiedOK, CallOK, CallFor
  <2>2. NothingPending' /\ session'.state # "activated"
    BY <1>1, <1>2, <2>1 DEF NothingPending, Installing
  <2>3. PICK i \in Images : i = target
    BY <2>1
  <2>4. Confirmed(i)'
    BY <2>1, <2>2, <2>3, NextStays DEF Stays
  <2> QED BY <2>2, <2>3, <2>4 DEF Confirmed, Recorded
<1> QED BY <1>4, <1>5, <1>6 DEF CInv

(* The updater takes a request, so that nothing can be verified; what it    *)
(* installs from then on is what was requested or being installed.          *)
LEMMA UpdaterKeeps ==
    ASSUME IInv, CInv, Status \/ Begin \/ Write \/ End \/ Activate, UNCHANGED <<phase, p4, target>>
    PROVE  CInv'
<1>1. /\ Raw /\ Requested /\ UNCHANGED <<record, c6>> /\ toUpdater' = NoRequest
      /\ slot'[c6.run] = slot[c6.run]
  <2>1. Other(c6.run) # c6.run
    BY TwoSlots DEF IInv, SlotsOK
  <2>2. slot'[c6.run] = slot[c6.run]
    BY <2>1 DEF Status, Begin, Write, End, Activate, flash, IInv, SlotsOK
  <2> QED BY <2>2 DEF Status, Begin, Write, End, Activate, Takes, Requested
<1>2. Raw' /\ Running' = Running /\ ~Requested'
  BY <1>1 DEF Raw, Running, Holds, Whole, Requested, NoRequest
<1>3. Installing' => \/ Installing /\ session'.image = session.image
                    \/ session'.image = toUpdater.image
  <2>1. session = [state |-> session.state, next |-> session.next, image |-> session.image]
    BY DEF IInv, SlotsOK
  <2>2. CASE UNCHANGED session
    BY <2>2 DEF Installing
  <2>3. CASE session' = [state |-> "receiving", next |-> 0, image |-> toUpdater.image]
    BY <2>3
  <2>4. CASE session.state \in {"receiving", "finalized"} /\ session'.image = session.image
    BY <2>4 DEF Installing
  <2>5. \/ UNCHANGED session
        \/ session' = [state |-> "receiving", next |-> 0, image |-> toUpdater.image]
        \/ session.state \in {"receiving", "finalized"} /\ session'.image = session.image
    BY <2>1 DEF Status, Begin, Write, End, Activate
  <2> QED BY <2>2, <2>3, <2>4, <2>5
<1>4. AirOK'
  <2>1. PICK e : toP4' = Append(toP4, e) /\ e.kind = "update"
    <3>1. \E ok : Answer(ok)
      BY DEF Status, Begin, Write, End, Activate
    <3> QED BY <3>1 DEF Answer, Reply
  <2>2. /\ \E S : toP4' \in Seq(S)
        /\ \A k \in 1..Len(toP4') :
               toP4'[k] = e \/ (k \in 1..Len(toP4) /\ toP4'[k] = toP4[k])
    BY <2>1, Appended DEF CInv, AirOK
  <2>3. Truthful'
    BY <1>1, <1>2, <2>1, <2>2 DEF Truthful, Identifies, Recorded, CInv, AirOK
  <2> QED BY <1>2, <2>2, <2>3 DEF AirOK
<1>5. OthersPending' /\ TargetOK'
  <2>1. OthersPending'
    BY <1>1, <1>2, <1>3 DEF OthersPending, CInv
  <2>2. TargetOK'
    BY <1>1, <1>2, <1>3 DEF TargetOK, PendingIs, Committed, Calls, CInv
  <2> QED BY <2>1, <2>2
<1>6. AnswersOK' /\ CallOK'
  BY <1>1, <1>2 DEF AnswersOK, CallOK, CallFor, Calls, CInv
<1>7. VerifiedOK'
  BY <1>1 DEF VerifiedOK, Verified, NothingPending, CInv
<1> QED BY <1>4, <1>5, <1>6, <1>7 DEF CInv

-----------------------------------------------------------------------------
(* The provisioner starts with nothing committed and nothing under way.     *)
LEMMA CInit == Init => CInv
<1> SUFFICES ASSUME Init PROVE CInv
  OBVIOUS
<1>1. /\ toUpdater = NoRequest /\ session = NoSession /\ toP4 = <<>>
      /\ phase = "discover" /\ p4 = Stopped("discover") /\ target = Final /\ Final \in Images
  BY ProvisionerAssumption DEF Init, DelegateInit
<1>2. p4.at = "off" /\ ~Requested /\ ~Installing
  BY <1>1 DEF Stopped, NoRequest, NoSession, Requested, Installing
<1>3. AirOK
  <2>1. toP4 \in Seq({}) /\ Len(toP4) = 0
    BY <1>1, EmptySeq
  <2> QED BY <1>1, <1>2, <2>1 DEF AirOK, Truthful
<1>4. CallOK
  BY <1>1, <1>2 DEF CallOK, CallFor, Calls, Exchanges, Updating, Stopped
<1>5. OthersPending /\ AnswersOK /\ TargetOK /\ VerifiedOK
  BY <1>1, <1>2 DEF OthersPending, AnswersOK, Updating, TargetOK, PendingIs, VerifiedOK, Verified
<1> QED BY <1>3, <1>4, <1>5 DEF CInv

(* Every step of the system keeps completion.                               *)
LEMMA CNext == IInv /\ CInv /\ [Next]_vars => CInv'
<1> SUFFICES ASSUME IInv, CInv, [Next]_vars PROVE CInv'
  OBVIOUS
<1>1. CASE P4Next
  BY <1>1, ProvisionerKeeps
<1>2. CASE UNCHANGED <<p4, phase, target>> /\ NothingPending' /\ toP4' = <<>>
  <2>1. CallOK' /\ (Verified' => Verified)
    BY <1>2 DEF CallOK, CallFor, Calls, Verified, CInv
  <2> QED BY <1>2, <2>1, IdleKeeps
<1>3. CASE C6Next
  <2>1. UNCHANGED <<phase, p4, target>>
    BY <1>3 DEF C6Next, C6Restarts
  <2>2. CASE C6Restarts
    BY <1>2, <2>1, <2>2, StartIdles DEF C6Restarts, ActivationRestarts
  <2>3. CASE DelegateNext
    BY <1>2, <2>1, <2>3, StartIdles, RecoveryKeeps, UpdaterKeeps DEF DelegateNext
  <2> QED BY <1>3, <2>2, <2>3 DEF C6Next
<1>4. CASE ResetC6
  BY <1>2, <1>4, StartIdles DEF ResetC6, Kept
<1>5. CASE LosePacket \/ UNCHANGED vars
  <2>1. Quiet /\ UNCHANGED <<phase, p4>>
    BY <1>5 DEF LosePacket, Quiet, Rest, Kept, vars, delegate, queues
  <2>2. CallOK' /\ (Committed' => Committed) /\ (Verified' => Verified)
    BY <2>1 DEF CallOK, CallFor, Calls, Committed, Verified, CInv, Quiet
  <2> QED BY <2>1, <2>2, QuietKeeps DEF CInv, VerifiedOK, TargetOK
<1>6. CASE ResetP4 \/ OperatorRestarts
  <2>1. Quiet /\ UNCHANGED phase /\ p4' = [p4 EXCEPT !.at = "off"]
    BY <1>6 DEF ResetP4, OperatorRestarts, Restarted, Quiet, delegate, queues
  <2>2. /\ p4'.at = "off"
        /\ p4' = [at |-> p4'.at, flow |-> p4'.flow, call |-> p4'.call, image |-> p4'.image,
                  got |-> p4'.got, offset |-> p4'.offset, next |-> p4'.next]
    BY <2>1 DEF CInv, CallOK, CallFor
  <2>3. CallOK' /\ (Committed' => Committed) /\ (Verified' => Verified)
    BY <2>1, <2>2 DEF CallOK, CallFor, Calls, Exchanges, Updating, Committed, Verified, CInv, Quiet
  <2>4. p4'.at \notin Updating
    BY <2>2 DEF Updating
  <2> QED BY <2>1, <2>3, <2>4, QuietKeeps DEF CInv, VerifiedOK, TargetOK
<1>7. CASE OperatorUpdatesBundle
  <2>1. /\ UNCHANGED <<delegate, phase>> /\ p4' = [p4 EXCEPT !.at = "off"] /\ p4.at = "done"
        /\ target = Final /\ target' \in Images
    BY <1>7, ProvisionerAssumption DEF OperatorUpdatesBundle, Restarted, At
  <2>2. /\ p4'.at = "off"
        /\ p4' = [at |-> p4'.at, flow |-> p4'.flow, call |-> p4'.call, image |-> p4'.image,
                  got |-> p4'.got, offset |-> p4'.offset, next |-> p4'.next]
    BY <2>1 DEF CInv, CallOK, CallFor
  <2>3. NothingPending /\ Confirmed(Final)
    BY <2>1 DEF CInv, VerifiedOK, Verified
  <2>4. UNCHANGED <<slot, boot, record, c6, session, toUpdater, toP4>>
    BY <2>1 DEF delegate, flash, queues
  <2>5. /\ Requested' = Requested /\ Installing' = Installing
        /\ Raw' = Raw /\ Running' = Running
    BY <2>4 DEF Requested, Installing, Raw, Running, Holds, Whole
  <2>6. AirOK'
    BY <2>4, <2>5 DEF AirOK, Truthful, Identifies, Recorded, CInv
  <2>7. OthersPending' /\ AnswersOK' /\ TargetOK'
    BY <2>2, <2>3, <2>5 DEF OthersPending, AnswersOK, Updating, TargetOK, PendingIs, NothingPending
  <2>8. CallOK'
    BY <2>1, <2>2 DEF CallOK, CallFor, Calls, Exchanges, Updating
  <2>9. VerifiedOK'
    BY <2>2, <2>3, <2>4, <2>5 DEF VerifiedOK, Verified, NothingPending, Confirmed, Recorded
  <2> QED BY <2>6, <2>7, <2>8, <2>9 DEF CInv
<1> QED BY <1>1, <1>3, <1>4, <1>5, <1>6, <1>7 DEF Next

(* For every number of chunks and of faults and every set of images, when   *)
(* the provisioner says that the exact identity is confirmed the C6 boots   *)
(* exactly that image, confirmed, and a migration recorded as complete      *)
(* stays so until the bundle is replaced.                                   *)
THEOREM UpdateCompleteIsConfirmed == Spec => []CompleteIsConfirmed
<1>1. CInv => CompleteIsConfirmed
  BY DEF CInv, VerifiedOK, Verified, CompleteIsConfirmed, At
<1>2. Init => IInv /\ CInv
  BY InitHolds, CInit
<1>3. IInv /\ CInv /\ [Next]_vars => (IInv /\ CInv)'
  BY NextKeeps, CNext
<1> QED BY <1>1, <1>2, <1>3, PTL DEF Spec
=============================================================================
