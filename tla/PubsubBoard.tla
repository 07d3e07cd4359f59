----------------------------- MODULE PubsubBoard -----------------------------
(***************************************************************************)
(* What a publish-subscribe server promises: a message is handed to the    *)
(* subscribers of its topic in one step, so that all who get two messages  *)
(* get them in the same order, and the publisher is told the truth about   *)
(* the subscribers that could not be served.                               *)
(***************************************************************************)
EXTENDS Naturals, Sequences

CONSTANTS
  Topic,
  Subscriber,
  Lossy,         \* those whose messages may be dropped without a word
  MaxMessages    \* how many messages are published

VARIABLES
  members,       \* of each topic: its subscribers
  received,      \* of each subscriber: the messages it was handed, in order
  result         \* of each message: what its publisher was told

bvars == <<members, received, result>>

Message == 1 .. MaxMessages

Init ==
  /\ members = [t \in Topic |-> {}]
  /\ received = [s \in Subscriber |-> <<>>]
  /\ result = [m \in Message |-> "none"]

\* Subscribers join and leave at any time but during a publish.
Change(t, set) ==
  /\ members' = [members EXCEPT ![t] = set]
  /\ UNCHANGED <<received, result>>

\* A peer that is deleted leaves all topics at once.
Leave(gone) ==
  /\ members' = [t \in Topic |-> members[t] \ gone]
  /\ UNCHANGED <<received, result>>

Publish(m, t, got, told) ==
  /\ result[m] = "none"
  /\ told = "ok" => members[t] \subseteq got \cup Lossy
  /\ received' = [s \in Subscriber |-> IF s \in got
                                       THEN Append(received[s], m)
                                       ELSE received[s]]
  /\ result' = [result EXCEPT ![m] = told]
  /\ UNCHANGED members

Refuse(m) ==
  /\ result[m] = "none"
  /\ result' = [result EXCEPT ![m] = "refused"]
  /\ UNCHANGED <<members, received>>

Next ==
  \/ \E t \in Topic : \E s \in Subscriber :
       Change(t, members[t] \cup {s}) \/ Change(t, members[t] \ {s})
  \/ \E gone \in SUBSET Subscriber : Leave(gone)
  \/ \E m \in Message :
       \/ Refuse(m)
       \/ \E t \in Topic : \E got \in SUBSET members[t] :
            \E told \in {"ok", "some_fail"} : Publish(m, t, got, told)

Spec == Init /\ [][Next]_bvars

=============================================================================
