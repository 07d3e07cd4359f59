------------------------------ MODULE Transfer ------------------------------
(***************************************************************************)
(* What fragmented sending promises: a large message is sent in a bounded  *)
(* number of attempts; the peer completes the message at most once per     *)
(* attempt, and hands over what it has completed, once; and an attempt is  *)
(* only reported as successful if the peer has completed the message, be   *)
(* it handed over yet or not.  A failed attempt promises nothing.          *)
(***************************************************************************)
EXTENDS Naturals

CONSTANT MaxAttempts

VARIABLES
    attempts,   \* attempts started
    complete,   \* times the peer had the whole message
    delivered,  \* times the peer handed the message to its incoming queue,
                \*   which may refuse it
    outcome     \* of the last attempt: "none", "ok" or "failed"

tvars == <<attempts, complete, delivered, outcome>>

TInit == attempts = 0 /\ complete = 0 /\ delivered = 0 /\ outcome = "none"

Start ==
    /\ outcome # "ok"
    /\ attempts < MaxAttempts
    /\ attempts' = attempts + 1
    /\ outcome' = "none"
    /\ UNCHANGED <<complete, delivered>>

Complete ==
    /\ complete < attempts
    /\ complete = delivered
    /\ complete' = complete + 1
    /\ UNCHANGED <<attempts, delivered, outcome>>

Deliver ==
    /\ delivered < complete
    /\ delivered' = delivered + 1
    /\ UNCHANGED <<attempts, complete, outcome>>

Report ==
    /\ outcome = "none"
    /\ \/ outcome' = "failed"
       \/ complete > 0 /\ outcome' = "ok"
    /\ UNCHANGED <<attempts, complete, delivered>>

TNext == Start \/ Complete \/ Deliver \/ Report
TSpec == TInit /\ [][TNext]_tvars
=============================================================================
