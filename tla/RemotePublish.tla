---------------------------- MODULE RemotePublish ----------------------------
(***************************************************************************)
(* What publishing through the delegate promises the application: calls    *)
(* are made one after another; a message is published at most once, in the *)
(* order of the calls, and possibly after its call has returned if the     *)
(* verdict was "unknown".  "ok" means that it went to all subscribers,     *)
(* "refused" that nobody has it and nobody will, "failed" that it did not  *)
(* go to all of them and will not: some may have it.                       *)
(***************************************************************************)
EXTENDS Naturals, Sequences

VARIABLES
    published,      \* the calls whose message was published, in that order
    missed,         \* those whose message some subscriber did not get
    verdict         \* for each call, in order: "pending", "ok", "refused",
                    \*   "failed", "unknown"

rvars == <<published, missed, verdict>>

RInit == published = <<>> /\ missed = {} /\ verdict = <<>>

Settled(i) == verdict[i] # "pending"
Done(i)    == \E k \in DOMAIN published : published[k] = i

(* A call may be refused at once.                                           *)
Call ==
    /\ \A i \in DOMAIN verdict : Settled(i)
    /\ \E v \in {"pending", "refused"} : verdict' = Append(verdict, v)
    /\ UNCHANGED <<published, missed>>

Publish ==
    /\ \E i \in DOMAIN verdict :
        /\ verdict[i] \in {"pending", "unknown"}
        /\ \A k \in DOMAIN published : published[k] < i
        /\ published' = Append(published, i)
        /\ missed' \in {missed, missed \cup {i}}
    /\ UNCHANGED verdict

Return ==
    /\ verdict # <<>> /\ ~ Settled(Len(verdict))
    /\ LET i == Len(verdict)
       IN \E v \in {"ok", "refused", "failed", "unknown"} :
            /\ v = "ok" => Done(i) /\ i \notin missed
            /\ v = "refused" => ~ Done(i)
            /\ v = "failed" => ~ Done(i) \/ i \in missed
            /\ verdict' = [verdict EXCEPT ![i] = v]
    /\ UNCHANGED <<published, missed>>

RNext == Call \/ Publish \/ Return
RSpec == RInit /\ [][RNext]_rvars
=============================================================================
