--------------------------- MODULE FirmwareUpdate ---------------------------
(***************************************************************************)
(* The P4 installs an image on the C6: the migration phases of the         *)
(* provisioner (provisioning/main/app_main.c, c6_factory_bootstrap.c), the *)
(* calls robusto_proxy_sdio_c6_provision and ..._confirm_after_activation  *)
(* (robusto_proxy_sdio_c6_provisioning.c) and the exchanges under them     *)
(* (robusto_c6_update_client.c), composed with the C6 of UpdateDelegate.   *)
(*                                                                         *)
(* Faults happen at most MaxFaults times: a reset of either processor, a   *)
(* packet lost, an answer later than the P4 waits, a link opened before    *)
(* the C6 has settled.  An operator restarts a provisioner that halted and *)
(* may, once the migration is complete, flash it with a newer bundle.      *)
(***************************************************************************)
EXTENDS UpdateDelegate

CONSTANTS
    Bootstrap,      \* the image the factory transport installs
    First,          \* images the C6 may have before the migration
    Final,          \* the target of the migration
    Newer,          \* targets of later bundles
    MaxFaults       \* bound: faults

ASSUME ProvisionerAssumption ==
    /\ First \cup Newer \cup {Bootstrap, Final} \subseteq Images
    /\ Bootstrap # Factory /\ Final # Factory /\ Factory \notin Newer
    /\ MaxFaults \in Nat

VARIABLES
    phase,          \* NVS: the migration phase
    p4,             \* the provisioner: what it does, the phase it started
                    \*   from, its call and the image of the call, whether an
                    \*   identity came, the chunk it sends, the phase to store
    target,         \* the final image of the bundle
    faults

vars == <<delegate, phase, p4, target, faults>>

Phases == {"discover", "bootstrap_pending", "bootstrap_ready", "final_pending",
           "final_verify", "complete"}
Exchanges == {"read", "confirm", "status", "begin", "write", "end", "activate"}
Stopped(flow) == [at |-> "off", flow |-> flow, call |-> "provision", image |-> Final,
                      got |-> FALSE, offset |-> 0, next |-> "discover"]

TypeOK ==
    /\ DelegateTypeOK
    /\ phase \in Phases
    /\ p4 \in [at : Exchanges \cup {"off", "link", "store", "clear", "factory", "transfer", "halt", "done"},
               flow : Phases, call : {"provision", "confirm"}, image : Images,
               got : BOOLEAN, offset : 0..Chunks, next : Phases]
    /\ target \in Images
    /\ faults \in 0..MaxFaults

Init ==
    /\ DelegateInit(First)
    /\ phase = "discover" /\ p4 = Stopped("discover")
    /\ target = Final /\ faults = 0

-----------------------------------------------------------------------------
(* app_main: the call a phase makes, and what follows its return            *)

Calling(p, call, i) == [p EXCEPT !.at = "link", !.call = call, !.image = i, !.got = FALSE,
                                 !.offset = 0]
Storing(p, next)    == [p EXCEPT !.at = "store", !.next = next]
Done(p)             == [p EXCEPT !.at = "done"]
Halted(p)           == [p EXCEPT !.at = "halt"]
Restarted(p)        == [p EXCEPT !.at = "off"]

FirstCall(p) ==
    CASE p.flow = "bootstrap_pending" -> Calling(p, "confirm", Bootstrap)
      [] p.flow \in {"final_pending", "final_verify"} -> Calling(p, "confirm", target)
      [] OTHER -> Calling(p, "provision", target)

(* Mutant of Succeeded: an installed image counts as verified.              *)
SucceededTooSoon(p, installed) ==
    LET pending == IF installed THEN "complete" ELSE "final_verify" IN
    CASE p.flow = "bootstrap_pending" -> Storing(p, "bootstrap_ready")
      [] p.flow = "final_verify" -> Storing(p, "complete")
      [] p.flow = "complete" /\ ~installed -> Done(p)
      [] OTHER -> Storing(p, pending)

Succeeded(p, installed) ==
    LET pending == IF installed THEN "final_pending" ELSE "final_verify" IN
    CASE p.flow = "bootstrap_pending" ->
           IF installed THEN Restarted(p) ELSE Storing(p, "bootstrap_ready")
      [] p.flow = "final_pending" /\ p.call = "confirm" -> Storing(p, "final_verify")
      [] p.flow = "final_verify" -> Storing(p, "complete")
      [] p.flow = "complete" -> IF installed THEN Storing(p, "final_verify") ELSE Done(p)
      [] OTHER -> Storing(p, pending)

(* Mutant of Failed: a rollback found by the last verification is not       *)
(* repaired.                                                                *)
FailedForGood(p) ==
    CASE p.flow = "discover" /\ ~p.got -> [p EXCEPT !.at = "factory"]
      [] p.flow = "bootstrap_pending" /\ ~p.got ->
           [p EXCEPT !.at = IF p.call = "confirm" THEN "clear" ELSE "factory"]
      [] p.flow = "final_pending" /\ p.call = "confirm" -> Calling(p, "provision", target)
      [] OTHER -> Halted(p)

(* Without an identity the C6 may still run the factory image.  After a     *)
(* confirmation that got none the phase is cleared first.                   *)
Failed(p) ==
    CASE p.flow = "discover" /\ ~p.got -> [p EXCEPT !.at = "factory"]
      [] p.flow = "bootstrap_pending" /\ ~p.got ->
           [p EXCEPT !.at = IF p.call = "confirm" THEN "clear" ELSE "factory"]
      [] p.flow = "final_pending" /\ p.call = "confirm" -> Calling(p, "provision", target)
      [] p.flow = "final_verify" /\ p.got -> Storing(p, "final_pending")
      [] OTHER -> Halted(p)

(* The P4 goes on as p, with these packets left to receive.  A call of      *)
(* provision resets the C6 before it opens the link.                        *)
Entering(p) == p.at = "link" /\ p.call = "provision"
GoesOn(p, packets) ==
    /\ p4' = p
    /\ IF Entering(p)
       THEN PowerOff
       ELSE toP4' = packets /\ UNCHANGED <<c6, session, toUpdater, toRecovery>>

At(place) == p4.at = place
Kept      == UNCHANGED <<flash, record, phase, target>>
Fault     == faults < MaxFaults /\ faults' = faults + 1
NoFault   == UNCHANGED faults

P4Boot ==
    /\ At("off")
    /\ GoesOn(FirstCall(Stopped(phase)), toP4)
    /\ Kept /\ NoFault

StorePhase ==
    /\ At("store")
    /\ phase' = p4.next
    /\ p4' = IF p4.next = "complete" THEN Done(p4) ELSE Restarted(p4)
    /\ UNCHANGED <<delegate, target, faults>>

ClearPhase ==
    /\ At("clear")
    /\ phase' = "discover"
    /\ GoesOn(Calling(p4, "provision", Bootstrap), toP4)
    /\ UNCHANGED <<flash, record, target, faults>>

-----------------------------------------------------------------------------
(* The factory transport, which only the factory image speaks               *)

FactoryRefused ==
    /\ At("factory") /\ Settled /\ Raw
    /\ p4' = Halted(p4)
    /\ UNCHANGED <<delegate, phase, target, faults>>

FactoryBegin ==
    /\ At("factory") /\ Settled /\ ~Raw
    /\ slot' = [slot EXCEPT ![Other(c6.run)] = <<>>]
    /\ p4' = [p4 EXCEPT !.at = "transfer"]
    /\ UNCHANGED <<boot, record, c6, session, queues, phase, target, faults>>

FactoryActivate ==
    /\ At("transfer") /\ Settled /\ ~Raw
    /\ slot' = [slot EXCEPT ![Other(c6.run)] = Image(Bootstrap)]
    /\ boot' = Other(c6.run)
    /\ PowerOff
    /\ p4' = IF p4.flow = "discover" THEN Storing(p4, "bootstrap_pending") ELSE Restarted(p4)
    /\ UNCHANGED <<record, phase, target, faults>>

(* A reset of the C6 ends the transfer.                                     *)
FactoryInterrupted ==
    /\ At("transfer") /\ ~(Settled /\ ~Raw)
    /\ p4' = Halted(p4)
    /\ UNCHANGED <<delegate, phase, target, faults>>

-----------------------------------------------------------------------------
(* The exchanges                                                            *)

(* A request that finds its queue full is dropped.                          *)
Deliver(r) ==
    IF r.command \in {"read", "confirm"}
    THEN /\ toRecovery' = IF toRecovery = NoRequest THEN r ELSE toRecovery
         /\ UNCHANGED toUpdater
    ELSE /\ toUpdater' = IF toUpdater = NoRequest THEN r ELSE toUpdater
         /\ UNCHANGED toRecovery

(* The next exchange is sent, or lost and answered by nothing, or refused   *)
(* by a link that is down.                                                  *)
Exchange(p, command, packets) ==
    \/ /\ Raw
       /\ p4' = [p EXCEPT !.at = command]
       /\ \/ Deliver([command |-> command, image |-> p.image, offset |-> p.offset]) /\ NoFault
          \/ UNCHANGED <<toUpdater, toRecovery>> /\ Fault
       /\ toP4' = packets
       /\ UNCHANGED <<c6, session>>
    \/ ~Raw /\ GoesOn(Failed(p), packets) /\ NoFault

(* The link comes up on a C6 that runs raw SDIO.  One that has not settled  *)
(* yet, or is about to restart, was reached too early.                      *)
OpenLink ==
    /\ At("link") /\ Settled
    /\ Exchange(p4, "read", toP4)
    /\ Kept

OpenLinkEarly ==
    /\ At("link") /\ ~Settled /\ Fault
    /\ \/ /\ Raw
          /\ p4' = [p4 EXCEPT !.at = "read"]
          /\ Deliver([command |-> "read", image |-> p4.image, offset |-> p4.offset])
          /\ UNCHANGED <<c6, session, toP4>>
       \/ ~Raw /\ GoesOn(Failed(p4), toP4)
    /\ Kept

(* Packets of the other kind are discarded.                                 *)
Receives(kind) == toP4 # <<>> /\ Head(toP4).kind = kind
Packet         == Head(toP4)
Rest           == Tail(toP4)

Discard ==
    /\ p4.at \in Exchanges
    /\ toP4 # <<>> /\ (Packet.kind = "identity") # (p4.at \in {"read", "confirm"})
    /\ toP4' = Rest
    /\ UNCHANGED <<flash, record, c6, session, toUpdater, toRecovery, phase, p4, target, faults>>

IdentityRead ==
    /\ At("read") /\ Receives("identity")
    /\ LET p == [p4 EXCEPT !.got = TRUE] IN
       \/ Packet.build = p.image /\ Packet.confirmed /\ GoesOn(Succeeded(p, FALSE), Rest) /\ NoFault
       \/ Packet.build = p.image /\ ~Packet.confirmed /\ Exchange(p, "confirm", Rest)
       \/ Packet.build # p.image /\ p.call = "provision" /\ Exchange(p, "status", Rest)
       \/ Packet.build # p.image /\ p.call = "confirm" /\ GoesOn(Failed(p), Rest) /\ NoFault
    /\ Kept

IdentityConfirmed ==
    /\ At("confirm") /\ Receives("identity")
    /\ GoesOn(IF Packet.build = p4.image /\ Packet.confirmed THEN Succeeded(p4, FALSE) ELSE Failed(p4),
              Rest)
    /\ Kept /\ NoFault

(* What the answer of the updater must say for the exchange to go on.       *)
Expected ==
    /\ Packet.command = p4.at /\ Packet.ok
    /\ CASE At("status")   -> Packet.state = "idle"
         [] At("begin")    -> Packet.state = "receiving"
         [] At("write")    -> Packet.state = "receiving" /\ Packet.next = p4.offset + 1
         [] At("end")      -> Packet.state = "finalized"
         [] At("activate") -> Packet.state = "activated"

UpdateAnswered ==
    /\ p4.at \in Exchanges \ {"read", "confirm"} /\ Receives("update")
    /\ LET sent == [p4 EXCEPT !.offset = @ + 1] IN
       \/ ~Expected /\ GoesOn(Failed(p4), Rest) /\ NoFault
       \/ Expected /\ At("status") /\ Exchange(p4, "begin", Rest)
       \/ Expected /\ At("begin")  /\ Exchange(p4, "write", Rest)
       \/ Expected /\ At("write")  /\ Exchange(sent, IF sent.offset < Chunks THEN "write" ELSE "end", Rest)
       \/ Expected /\ At("end")    /\ Exchange(p4, "activate", Rest)
       \/ Expected /\ At("activate") /\ GoesOn(Succeeded(p4, TRUE), Rest) /\ NoFault
    /\ Kept

(* Nothing comes within UPDATE_TIMEOUT_MS: nothing will, or it is late.     *)
ExchangeTimesOut ==
    /\ p4.at \in Exchanges /\ toP4 = <<>>
    /\ IF toUpdater = NoRequest /\ toRecovery = NoRequest THEN NoFault ELSE Fault
    /\ GoesOn(Failed(p4), toP4)
    /\ Kept

-----------------------------------------------------------------------------
(* Faults, and the operator                                                 *)

ResetC6 ==
    /\ c6.at # "off" /\ Fault
    /\ PowerOff
    /\ UNCHANGED p4 /\ Kept

ResetP4 ==
    /\ ~At("off") /\ Fault
    /\ p4' = Restarted(p4)
    /\ UNCHANGED <<delegate, phase, target>>

LosePacket ==
    /\ toP4 # <<>> /\ Fault
    /\ toP4' = Rest
    /\ UNCHANGED <<c6, session, toUpdater, toRecovery, p4>> /\ Kept

OperatorRestarts ==
    /\ At("halt") \/ At("done")
    /\ p4' = Restarted(p4)
    /\ UNCHANGED <<delegate, phase, target, faults>>

OperatorUpdatesBundle ==
    /\ At("done") /\ target = Final
    /\ target' \in Newer
    /\ p4' = Restarted(p4)
    /\ UNCHANGED <<delegate, phase, faults>>

(* The C6 restarts two seconds after its answer, which the P4 has by then   *)
(* unless something held it up.                                             *)
C6Restarts ==
    /\ ActivationRestarts
    /\ IF At("activate") /\ toP4 # <<>> THEN Fault ELSE NoFault
    /\ UNCHANGED <<phase, p4, target>>

P4Next ==
    \/ P4Boot \/ StorePhase \/ ClearPhase
    \/ FactoryRefused \/ FactoryBegin \/ FactoryActivate \/ FactoryInterrupted
    \/ OpenLink \/ OpenLinkEarly \/ Discard
    \/ IdentityRead \/ IdentityConfirmed \/ UpdateAnswered \/ ExchangeTimesOut

C6Next ==
    \/ DelegateNext /\ UNCHANGED <<phase, p4, target, faults>>
    \/ C6Restarts

Next ==
    \/ P4Next \/ C6Next
    \/ ResetC6 \/ ResetP4 \/ LosePacket
    \/ OperatorRestarts \/ OperatorUpdatesBundle

Spec == Init /\ [][Next]_vars

(* Both processors run, and a provisioner that halted before the end is run *)
(* again.                                                                   *)
FairSpec ==
    /\ Spec
    /\ WF_vars(P4Next) /\ WF_vars(C6Next)
    /\ WF_vars(At("halt") /\ OperatorRestarts)

-----------------------------------------------------------------------------
(* Properties                                                               *)

(* Whatever is interrupted, the slot the C6 boots next holds a whole image. *)
AlwaysBootable == Whole(boot)

Confirmed(i) == slot[boot] = Image(i) /\ Recorded("confirmed", i)

(* Only an activation takes the C6 away from a confirmed image: no reset,   *)
(* no interrupted transfer and no late request does.                        *)
ConfirmedStays ==
    [][\A i \in Images : Confirmed(i) => Confirmed(i)' \/ session'.state = "activated"]_vars

(* When the provisioner says that the exact identity is confirmed, the C6   *)
(* boots exactly that image, confirmed; and what it has recorded as         *)
(* complete stays so for as long as the bundle is not replaced.             *)
CompleteIsConfirmed ==
    /\ At("done") => Confirmed(target)
    /\ phase = "complete" /\ target = Final => Confirmed(Final)

(* From any image the C6 may have at first, and whatever is interrupted,    *)
(* running the provisioner again completes the installation of an image     *)
(* that starts.                                                             *)
Migrates == \A i \in Images \ Broken : target = i ~> target = i /\ At("done")

(* The C6 always starts an image that takes requests again, even when a     *)
(* candidate stops before it can.                                           *)
CandidateNeverStrands == []<>Settled
=============================================================================
