--------------------------- MODULE UpdateDelegate ---------------------------
(***************************************************************************)
(* The C6 side of a firmware update: two OTA slots and the slot to boot,   *)
(* the confirmation record and the boot guard (robusto_c6_recovery.c), the *)
(* updater that receives an image chunk by chunk (robusto_c6_updater.c)    *)
(* and the order in which robusto_proxy_sdio_c6_start starts them.         *)
(*                                                                         *)
(* Flash and NVS survive a reset, everything else is lost.  Each durable   *)
(* write is a step of its own, so that a reset may come between any two.   *)
(* A slot holds the chunks written to it, each known by its image, and     *)
(* stands for an image the boot loader accepts when they are all of one.   *)
(***************************************************************************)
EXTENDS Naturals, Sequences

CONSTANTS
    Slots,          \* the two OTA slots
    Images,         \* the images there are
    Factory,        \* the factory image: no boot guard, no raw SDIO
    Broken,         \* images that stop after the boot guard, before raw SDIO
    NoImage,
    Chunks          \* chunks of an image

ASSUME DelegateAssumption ==
    /\ \A s \in Slots : \E t \in Slots : t # s /\ Slots = {s, t}
    /\ Factory \in Images /\ Broken \subseteq Images \ {Factory}
    /\ NoImage \notin Images
    /\ Chunks \in Nat \ {0}

VARIABLES
    slot,           \* flash: the chunks in each slot
    boot,           \* flash: the slot esp_ota_set_boot_partition selected
    record,         \* NVS: the confirmation record
    c6,             \* where the C6 is in its start, and the slot it runs
    session,        \* the updater's session
    toUpdater, toRecovery,  \* the two request queues, of capacity one
    toP4            \* packets the C6 has queued for the P4

flash    == <<slot, boot>>
queues   == <<toUpdater, toRecovery, toP4>>
delegate == <<flash, record, c6, session, queues>>

NoRecord   == [state |-> "none", build |-> NoImage]
NoSession  == [state |-> "idle", next |-> 0, image |-> NoImage]
NoRequest  == [command |-> "none", image |-> NoImage, offset |-> 0]

Other(s)   == CHOOSE t \in Slots : t # s
Image(i)   == [k \in 1..Chunks |-> i]
Whole(s)   == \E i \in Images : slot[s] = Image(i)
Holds(s)   == IF Whole(s) THEN slot[s][1] ELSE NoImage
Running    == Holds(c6.run)
Recorded(state, i) == record = [state |-> state, build |-> i]

(* Raw SDIO is up: the C6 takes requests.                                   *)
Raw     == c6.at = "up" /\ Running # Factory
(* Nothing will reset or start the C6 by itself.                            *)
Settled == c6.at = "up" /\ session.state # "activated"

Requests == [command : {"none", "read", "confirm", "status", "begin", "write", "end", "activate"},
             image : Images \cup {NoImage}, offset : 0..Chunks]

DelegateTypeOK ==
    /\ slot \in [Slots -> Seq(Images)] /\ \A s \in Slots : Len(slot[s]) <= Chunks
    /\ boot \in Slots
    /\ record \in [state : {"none", "armed", "confirmed"}, build : Images \cup {NoImage}]
    /\ c6 \in [at : {"off", "guard", "clear", "start", "up"}, run : Slots]
    /\ session \in [state : {"idle", "receiving", "finalized", "activated", "failed"},
                    next : 0..Chunks, image : Images \cup {NoImage}]
    /\ {toUpdater, toRecovery} \subseteq Requests

(* The C6 starts from one of these images, confirmed or new; the other slot *)
(* is empty or keeps an image of its own.                                   *)
DelegateInit(first) ==
    /\ \E s \in Slots, i, j \in first :
         /\ slot \in {[t \in Slots |-> IF t = s THEN Image(i) ELSE other] : other \in {<<>>, Image(j)}}
         /\ boot = s /\ c6 = [at |-> "off", run |-> s]
         /\ \/ record = NoRecord
            \/ i # Factory /\ record = [state |-> "confirmed", build |-> i]
    /\ session = NoSession
    /\ toUpdater = NoRequest /\ toRecovery = NoRequest /\ toP4 = <<>>

-----------------------------------------------------------------------------
(* Resets and the start of the C6                                           *)

(* What a reset, a crash or a power cycle loses.                            *)
PowerOff ==
    /\ c6' = [c6 EXCEPT !.at = "off"]
    /\ session' = NoSession
    /\ toUpdater' = NoRequest /\ toRecovery' = NoRequest /\ toP4' = <<>>

(* The boot loader starts the selected slot.                                *)
Load ==
    /\ c6.at = "off" /\ Whole(boot)
    /\ c6' = [at |-> IF Holds(boot) = Factory THEN "up" ELSE "guard", run |-> boot]
    /\ UNCHANGED <<flash, record, session, queues>>

(* Mutant of GuardArms: only a READ arms a build.                           *)
GuardArmsNothing ==
    /\ c6.at = "guard" /\ record.build # Running
    /\ c6' = [c6 EXCEPT !.at = "start"]
    /\ UNCHANGED <<flash, record, session, queues>>

(* A build without a record of its own is armed.                            *)
GuardArms ==
    /\ c6.at = "guard" /\ record.build # Running
    /\ record' = [state |-> "armed", build |-> Running]
    /\ c6' = [c6 EXCEPT !.at = "start"]
    /\ UNCHANGED <<flash, session, queues>>

(* A confirmed build starts, and so does one that has no other image to go  *)
(* back to.                                                                 *)
GuardPasses ==
    /\ c6.at = "guard" /\ record.build = Running
    /\ record.state = "confirmed" \/ ~Whole(Other(c6.run))
    /\ c6' = [c6 EXCEPT !.at = "start"]
    /\ UNCHANGED <<flash, record, session, queues>>

(* Mutant of GuardSelectsOther: the other slot is not looked at.            *)
GuardSelectsBlindly ==
    /\ c6.at = "guard" /\ Recorded("armed", Running)
    /\ boot' = Other(c6.run)
    /\ c6' = [c6 EXCEPT !.at = "clear"]
    /\ UNCHANGED <<slot, record, session, queues>>

(* A build that was armed and reset again selects the other slot,           *)
GuardSelectsOther ==
    /\ c6.at = "guard" /\ Recorded("armed", Running) /\ Whole(Other(c6.run))
    /\ boot' = Other(c6.run)
    /\ c6' = [c6 EXCEPT !.at = "clear"]
    /\ UNCHANGED <<slot, record, session, queues>>

(* clears the record and restarts.                                          *)
GuardRestarts ==
    /\ c6.at = "clear"
    /\ record' = NoRecord
    /\ PowerOff
    /\ UNCHANGED flash

(* The services start, or the image stops before they do.                   *)
Start ==
    /\ c6.at = "start"
    /\ IF Running \in Broken
       THEN PowerOff
       ELSE c6' = [c6 EXCEPT !.at = "up"] /\ UNCHANGED <<session, queues>>
    /\ UNCHANGED <<flash, record>>

-----------------------------------------------------------------------------
(* The recovery identity service                                            *)

Identity == [kind |-> "identity", build |-> Running, confirmed |-> record'.state = "confirmed"]

Reply(packet) == toP4' = Append(toP4, packet)

(* Mutant of ProcessRead: it arms a confirmed build as well.                *)
ProcessReadArmsAll ==
    /\ Raw /\ toRecovery.command = "read"
    /\ record' = [state |-> "armed", build |-> Running]
    /\ Reply(Identity)
    /\ toRecovery' = NoRequest
    /\ UNCHANGED <<flash, c6, session, toUpdater>>

(* A READ arms a build that is not confirmed.                               *)
ProcessRead ==
    /\ Raw /\ toRecovery.command = "read"
    /\ record' = IF Recorded("confirmed", Running) THEN record
                 ELSE [state |-> "armed", build |-> Running]
    /\ Reply(Identity)
    /\ toRecovery' = NoRequest
    /\ UNCHANGED <<flash, c6, session, toUpdater>>

(* A CONFIRM of another build, or of one that is not armed, is not answered.*)
ProcessConfirm ==
    /\ Raw /\ toRecovery.command = "confirm"
    /\ IF Recorded("armed", Running) /\ toRecovery.image = Running
       THEN record' = [state |-> "confirmed", build |-> Running] /\ Reply(Identity)
       ELSE UNCHANGED <<record, toP4>>
    /\ toRecovery' = NoRequest
    /\ UNCHANGED <<flash, c6, session, toUpdater>>

-----------------------------------------------------------------------------
(* The updater                                                              *)

Answer(status) ==
    Reply([kind |-> "update", command |-> toUpdater.command, ok |-> status,
           state |-> session'.state, next |-> session'.next])

(* The updater's task waits for its restart after an activation.            *)
Takes(command) ==
    /\ Raw /\ session.state # "activated"
    /\ toUpdater.command = command
    /\ toUpdater' = NoRequest
    /\ UNCHANGED <<record, c6, toRecovery>>

Status ==
    /\ Takes("status")
    /\ UNCHANGED <<flash, session>>
    /\ Answer(TRUE)

(* BEGIN erases the slot that does not run.                                 *)
Begin ==
    /\ Takes("begin")
    /\ IF session.state = "receiving"
       THEN UNCHANGED <<flash, session>> /\ Answer(FALSE)
       ELSE /\ session' = [state |-> "receiving", next |-> 0, image |-> toUpdater.image]
            /\ slot' = [slot EXCEPT ![Other(c6.run)] = <<>>]
            /\ UNCHANGED boot
            /\ Answer(TRUE)

Write ==
    /\ Takes("write")
    /\ IF session.state = "receiving" /\ toUpdater.offset = session.next /\ session.next < Chunks
       THEN /\ slot' = [slot EXCEPT ![Other(c6.run)] = Append(@, toUpdater.image)]
            /\ session' = [session EXCEPT !.next = @ + 1]
            /\ UNCHANGED boot
            /\ Answer(TRUE)
       ELSE UNCHANGED <<flash, session>> /\ Answer(FALSE)

(* END accepts exactly the image BEGIN announced.                           *)
End ==
    /\ Takes("end")
    /\ UNCHANGED flash
    /\ IF session.state = "receiving" /\ session.next = Chunks
       THEN LET exact == Whole(Other(c6.run)) /\ Holds(Other(c6.run)) = session.image IN
            /\ session' = [session EXCEPT !.state = IF exact THEN "finalized" ELSE "failed"]
            /\ Answer(exact)
       ELSE UNCHANGED session /\ Answer(FALSE)

Activate ==
    /\ Takes("activate")
    /\ UNCHANGED slot
    /\ IF session.state = "finalized"
       THEN /\ boot' = Other(c6.run)
            /\ session' = [session EXCEPT !.state = "activated"]
            /\ Answer(TRUE)
       ELSE UNCHANGED <<boot, session>> /\ Answer(FALSE)

(* Two seconds after it answered an activation the C6 restarts; its peer    *)
(* says when, so this step is not one of DelegateNext.                      *)
ActivationRestarts ==
    /\ Raw /\ session.state = "activated"
    /\ PowerOff
    /\ UNCHANGED <<flash, record>>

DelegateNext ==
    \/ Load \/ GuardArms \/ GuardPasses \/ GuardSelectsOther \/ GuardRestarts \/ Start
    \/ ProcessRead \/ ProcessConfirm
    \/ Status \/ Begin \/ Write \/ End \/ Activate
=============================================================================
