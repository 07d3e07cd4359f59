-------------------------- MODULE MessageDelivery --------------------------
(***************************************************************************)
(* What sending a message over Robusto promises its caller, whatever media *)
(* are tried on the way: the message is held until it is released, once;   *)
(* it reaches the peer only while it is held; the caller is given at most  *)
(* one verdict, and a good one only for a message that reached the peer.   *)
(* It does NOT promise that a message with a bad verdict stays undelivered.*)
(***************************************************************************)
CONSTANT Messages

VARIABLES
    stage,      \* "new", "held" or "released"
    reached,    \* the messages that reached the peer at least once
    told        \* the verdict: "none", "ok" or "failed"

dvars == <<stage, reached, told>>

DInit ==
    /\ stage = [m \in Messages |-> "new"]
    /\ reached = {}
    /\ told = [m \in Messages |-> "none"]

Accept(m) ==
    /\ stage[m] = "new"
    /\ stage' = [stage EXCEPT ![m] = "held"]
    /\ UNCHANGED <<reached, told>>

Refuse(m) ==
    /\ stage[m] = "new"
    /\ stage' = [stage EXCEPT ![m] = "released"]
    /\ told' = [told EXCEPT ![m] = "failed"]
    /\ UNCHANGED reached

Reach(m) ==
    /\ stage[m] = "held"
    /\ reached' = reached \cup {m}
    /\ UNCHANGED <<stage, told>>

MayTell(m, v) ==
    /\ told[m] = "none"
    /\ v = "failed" \/ (v = "ok" /\ m \in reached)

(* The verdict may come before, with or after the release.                 *)
Tell(m) ==
    /\ stage[m] # "new"
    /\ \E v \in {"ok", "failed"} :
        /\ MayTell(m, v)
        /\ told' = [told EXCEPT ![m] = v]
    /\ UNCHANGED <<stage, reached>>

Release(m) ==
    /\ stage[m] = "held"
    /\ stage' = [stage EXCEPT ![m] = "released"]
    /\ \/ UNCHANGED told
       \/ \E v \in {"ok", "failed"} :
            MayTell(m, v) /\ told' = [told EXCEPT ![m] = v]
    /\ UNCHANGED reached

DNext == \E m \in Messages :
    Accept(m) \/ Refuse(m) \/ Reach(m) \/ Tell(m) \/ Release(m)

DSpec == DInit /\ [][DNext]_dvars
=============================================================================
