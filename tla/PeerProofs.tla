------------------------------ MODULE PeerProofs ------------------------------
(***************************************************************************)
(* What two nodes know of each other: theorems about the quality of        *)
(* service of a medium between them and about their presentations, for any *)
(* number of faults.                                                       *)
(*                                                                         *)
(* The two modules have no state in common but the number of faults.       *)
(***************************************************************************)
EXTENDS MediumQos, Presentation, FiniteSetTheorems, TLAPS

-----------------------------------------------------------------------------
(* Quality of service: a medium that works has been heard from.  The        *)
(* argument is that the monitor has looked at it in every period, or the    *)
(* repeater was presenting, which it began when the monitor had looked; and *)
(* that none of what makes a medium work again, a recovery, a presentation  *)
(* or a heartbeat, does so without the other node having been heard.        *)

(* What is true of the record of a medium whoever has written it: it was    *)
(* not received from later than it was told that it had been heard, and     *)
(* what works has no problem.                                               *)
Sound(m) ==
  /\ m \in Medium
  /\ m.received <= m.heard \/ TooOld(m.heard)
  /\ m.state = "working" => m.problem = "none"

(* While it works, it was heard from within the limit when the monitor has  *)
(* looked, and at most a period longer ago before it does.                  *)
Watched(n) ==
  medium[n].state = "working" =>
    medium[n].received <= IF "monitor" \in due[n] THEN Limit + 2 ELSE Limit + 1

(* The monitor looks but for a presentation; one of the repeater began when *)
(* the monitor had looked, and under one of the recovery task the medium    *)
(* does not work, until somebody presents itself.                           *)
Skipped(n) ==
  /\ repeater[n] = "presenting" => "monitor" \notin due[n]
  /\ repeater[n] = "idle" /\ peer[n] = "presenting" =>
       medium[n].state # "working"

(* Who has become known while the task presented has just been heard from.  *)
Known(n) ==
  /\ task[n] = "presenting" /\ peer[n] = "known" => medium[n].received = 0
  /\ task[n] = "late" /\ peer[n] = "known" => medium[n].received <= 1

(* silent counts what the code does not keep: the true silence.             *)
NodeOK(n) ==
  Sound(medium[n]) /\ silent[n] = medium[n].received /\ Watched(n)
    /\ Skipped(n) /\ Known(n)

QInv == TypeOK /\ \A n \in Node : NodeOK(n)

(* The ages that are told apart.                                            *)
LEMMA Ages ==
  /\ Limit \in Nat /\ Limit > 0 /\ FieldMax \in Nat /\ FieldMax > Limit + 1
  /\ Old = Limit + 2 /\ Oldest = FieldMax + 1 /\ Once = Limit + 3
  /\ Never = Limit + 4 /\ MaxFaults \in Nat
BY LimitAssumption, FieldAssumption, BoundAssumption
DEF Old, Oldest, Once, Never

(* There are two nodes.                                                     *)
LEMMA OtherNode ==
  ASSUME NEW n \in Node
  PROVE  Other(n) \in Node /\ Other(n) # n
<1>1. Node # {n}
  <2>1. IsFiniteSet({n}) /\ Cardinality({n}) = 1
    BY FS_Singleton
  <2>2. Cardinality({n}) # Cardinality(Node)
    BY <2>1, NodeAssumption
  <2>3. QED
    BY <2>2
<1>2. \E o \in Node : o # n
  BY <1>1
<1>3. QED
  BY <1>2 DEF Other

(* What is written to one field of a record.                                *)
LEMMA SetStateFacts ==
  ASSUME NEW m \in Medium, NEW to \in States, NEW problem \in Problems
  PROVE  LET s == SetState(m, to, problem)
         IN  /\ s \in Medium
             /\ s.state = to /\ s.problem = problem
             /\ s.received = m.received /\ s.heard = m.heard
             /\ s.sent = m.sent /\ s.postpone = m.postpone
<1>1. CASE m.state = to /\ m.problem = problem
  BY <1>1 DEF SetState
<1>2. CASE ~(m.state = to /\ m.problem = problem)
  <2>1. 0 \in 0 .. Old
    BY Ages
  <2>2. SetState(m, to, problem)
          = [m EXCEPT !.state = to, !.problem = problem, !.change = 0]
    BY <1>2 DEF SetState
  <2>3. QED
    BY <2>1, <2>2 DEF Medium
<1>3. QED
  BY <1>1, <1>2

(* The same when the medium begins to work, and when QoS is taken up again. *)
LEMMA WorksFacts ==
  ASSUME NEW m \in Medium
  PROVE  LET s == Works(m)
         IN  /\ s \in Medium
             /\ s.state = "working" /\ s.problem = "none"
             /\ s.received = m.received /\ s.heard = m.heard
             /\ s.sent = m.sent /\ s.postpone = m.postpone
<1>1. "working" \in States /\ "none" \in Problems
  BY DEF States, Problems
<1>2. QED
  BY <1>1, SetStateFacts DEF Works

LEMMA ResumedFacts ==
  ASSUME NEW m \in Medium
  PROVE  LET s == Resumed(m)
         IN  /\ s \in Medium
             /\ s.state = m.state /\ s.problem = m.problem
             /\ IF Patient(m) THEN s.received = 0 /\ s.heard = 0 /\ s.sent = 0
                ELSE s.received = m.received /\ s.heard = m.heard /\ s.sent = m.sent
<1>1. 0 \in 0 .. Old /\ 0 \in 0 .. Oldest /\ 0 \in 0 .. Never /\ FALSE \in BOOLEAN
  BY Ages
<1>2. CASE Patient(m)
  <2>1. Resumed(m) = [[m EXCEPT !.sent = 0, !.received = 0, !.heard = 0]
                        EXCEPT !.postpone = FALSE]
    BY <1>2 DEF Resumed
  <2>2. QED
    BY <1>1, <1>2, <2>1 DEF Medium
<1>3. CASE ~Patient(m)
  <2>1. Resumed(m) = [m EXCEPT !.postpone = FALSE]
    BY <1>3 DEF Resumed
  <2>2. QED
    BY <1>1, <1>3, <2>1 DEF Medium
<1>4. QED
  BY <1>2, <1>3

(* The monitor leaves a medium working only if it was heard from within the *)
(* limit: the recovery is left when the other node has said that it hears,  *)
(* and it cannot have said so before it was heard.                          *)
LEMMA CheckFacts ==
  ASSUME NEW m, Sound(m), m.state # "recovering", NEW known, NEW tie
  PROVE  LET s == CheckMedia(m, known, tie)
         IN  /\ Sound(s) /\ s.received = m.received
             /\ s.state = "working" => s.received <= Limit + 1
             /\ s.state # "recovering"
<1> DEFINE s == CheckMedia(m, known, tie)
           Good(r) == /\ Sound(r) /\ r.received = m.received
                      /\ r.state = "working" => r.received <= Limit + 1
                      /\ r.state # "recovering"
<1>0. /\ m \in Medium /\ {"problem", "working"} \subseteq States
      /\ {"send_problem", "silence", "cannot_reach", "none"} \subseteq Problems
  BY DEF Sound, States, Problems
<1>1. ASSUME NEW problem \in Problems PROVE Good(SetState(m, "problem", problem))
  <2>1. PICK t \in Medium :
          /\ t = SetState(m, "problem", problem) /\ t.state = "problem"
          /\ t.received = m.received /\ t.heard = m.heard
    BY <1>0, SetStateFacts
  <2>2. Good(t)
    BY <2>1 DEF Sound
  <2>3. QED
    BY <2>1, <2>2
<1>2. CASE TooOld(m.sent)
  <2>1. s = IF m.problem = "send_problem" THEN m
            ELSE SetState(m, "problem", "send_problem")
    BY <1>2 DEF CheckMedia
  <2>2. CASE m.problem = "send_problem"
    BY <2>1, <2>2 DEF Sound
  <2>3. CASE m.problem # "send_problem"
    BY <1>0, <1>1, <2>1, <2>3
  <2>4. QED
    BY <2>2, <2>3
<1>3. CASE ~TooOld(m.sent) /\ TooOld(m.received)
  <2>1. s = IF m.problem = "silence" THEN m ELSE SetState(m, "problem", "silence")
    BY <1>3 DEF CheckMedia
  <2>2. CASE m.problem = "silence"
    BY <2>1, <2>2 DEF Sound
  <2>3. CASE m.problem # "silence"
    BY <1>0, <1>1, <2>1, <2>3
  <2>4. QED
    BY <2>2, <2>3
<1>4. CASE /\ ~TooOld(m.sent) /\ ~TooOld(m.received)
           /\ TooOld(m.heard) /\ m.heard # Never
  <2> DEFINE later == IF m.heard = Once THEN Never ELSE Once
             marked == [m EXCEPT !.heard = later]
  <2>1. later \in 0 .. Never /\ TooOld(later)
    BY Ages DEF TooOld
  <2>2. /\ marked \in Medium /\ marked.heard = later
        /\ marked.received = m.received /\ marked.state = m.state
    <3> HIDE DEF later
    <3>1. QED
      BY <1>0, <2>1 DEF Medium
  <2>3. s = IF m.problem = "cannot_reach" THEN m
            ELSE SetState(marked, "problem", "cannot_reach")
    BY <1>4 DEF CheckMedia
  <2> HIDE DEF marked, later
  <2>4. Good(SetState(marked, "problem", "cannot_reach"))
    <3>1. PICK k \in Medium : k = marked
      BY <2>2
    <3>2. PICK t \in Medium :
            /\ t = SetState(k, "problem", "cannot_reach")
            /\ t.state = "problem"
            /\ t.received = k.received /\ t.heard = k.heard
      BY <1>0, SetStateFacts
    <3>3. Good(t)
      BY <2>1, <2>2, <3>1, <3>2 DEF Sound
    <3>4. QED
      BY <3>1, <3>2, <3>3
  <2>5. Good(m)
    BY <1>4, <1>0, Ages DEF Sound, TooOld, Medium
  <2>6. QED
    BY <2>3, <2>4, <2>5
<1>5. CASE /\ ~TooOld(m.sent) /\ ~TooOld(m.received)
           /\ ~(TooOld(m.heard) /\ m.heard # Never)
  <2>1. s \in {m, Works(m)}
    BY <1>5 DEF CheckMedia
  <2>2. m.received <= Limit + 1
    BY <1>0, <1>5, Ages DEF TooOld, Medium
  <2>3. Good(m) /\ Good(Works(m))
    BY <1>0, <2>2, WorksFacts DEF Sound
  <2>4. QED
    BY <2>1, <2>3
<1>6. QED
  BY <1>2, <1>3, <1>4, <1>5

(* The whole of check_peer: checks that were postponed begin anew.          *)
LEMMA MonitorFacts ==
  ASSUME NEW m, Sound(m), NEW known, NEW tie
  PROVE  LET s == StateAction(Transition(Resumed(m), known, tie))
         IN  /\ Sound(s) /\ s.received = IF Patient(m) THEN 0 ELSE m.received
             /\ s.state = "working" => s.received <= Limit + 1
<1>1. PICK r \in Medium : r = Resumed(m)
  BY ResumedFacts DEF Sound
<1>2. /\ Sound(r) /\ r.state = m.state
      /\ r.received = IF Patient(m) THEN 0 ELSE m.received
  BY <1>1, ResumedFacts DEF Sound
<1>3. PICK c : c = Transition(r, known, tie)
  OBVIOUS
<1>4. /\ Sound(c) /\ c.received = r.received
      /\ c.state = "working" => c.received <= Limit + 1
  <2>1. CASE r.state = "recovering"
    BY <1>2, <1>3, <2>1 DEF Transition
  <2>2. CASE r.state # "recovering"
    BY <1>2, <1>3, <2>2, CheckFacts DEF Transition
  <2>3. QED
    BY <2>1, <2>2
<1>5. PICK s : s = StateAction(c)
  OBVIOUS
<1>6. /\ Sound(s) /\ s.received = c.received
      /\ s.state = "working" => s.received <= Limit + 1
  <2>1. CASE TooLong(c)
    <3>1. s = SetState(c, "recovering", c.problem)
      BY <1>5, <2>1 DEF StateAction
    <3>2. c \in Medium /\ "recovering" \in States /\ c.problem \in Problems
      BY <1>4 DEF Sound, States, Medium
    <3>3. QED
      BY <1>4, <3>1, <3>2, SetStateFacts DEF Sound
  <2>2. CASE ~TooLong(c) /\ c.state = "recovering" /\ ~TooOld(c.heard)
    <3>1. s = Works(c)
      BY <1>5, <2>2 DEF StateAction
    <3>2. c.received <= Limit + 1
      BY <1>4, <2>2, Ages DEF Sound, TooOld, Medium
    <3>3. QED
      BY <1>4, <3>1, <3>2, WorksFacts DEF Sound
  <2>3. CASE ~TooLong(c) /\ ~(c.state = "recovering" /\ ~TooOld(c.heard))
    BY <1>4, <1>5, <2>3 DEF StateAction
  <2>4. QED
    BY <2>1, <2>2, <2>3
<1>7. QED
  BY <1>1, <1>2, <1>3, <1>4, <1>5, <1>6

-----------------------------------------------------------------------------
(* What is sent and what is received does to the record of a medium.        *)
LEMMA SentFacts ==
  ASSUME NEW m, Sound(m)
  PROVE  LET s == [m EXCEPT !.sent = 0]
         IN  /\ Sound(s) /\ s.received = m.received /\ s.state = m.state
             /\ s.problem = m.problem
  BY Ages DEF Sound, Medium

(* A heartbeat that is received.                                            *)
LEMMA ReceiverFacts ==
  ASSUME NEW m, Sound(m), NEW age \in 0 .. Oldest
  PROVE  LET s == [m EXCEPT !.received = 0, !.heard = Parsed(Deka(age))]
         IN  Sound(s) /\ s.received = 0 /\ s.state = m.state
<1>1. PICK told \in 0 .. Never : told = Parsed(Deka(age))
  BY Ages DEF Parsed, Deka, TooOld
<1>2. LET s == [m EXCEPT !.received = 0, !.heard = told]
      IN  Sound(s) /\ s.received = 0 /\ s.state = m.state
  <2> DEFINE s == [m EXCEPT !.received = 0, !.heard = told]
  <2>1. m \in Medium /\ 0 \in 0 .. Oldest /\ 0 <= told
    BY Ages DEF Sound
  <2>2. s \in Medium
    BY <2>1 DEF Medium
  <2>3. /\ s.received = 0 /\ s.heard = told
        /\ s.state = m.state /\ s.problem = m.problem
    BY <2>1 DEF Medium
  <2>4. Sound(s)
    <3> HIDE DEF s
    <3>1. QED
      BY <2>1, <2>2, <2>3 DEF Sound
  <2>5. QED
    BY <2>3, <2>4
<1>3. QED
  BY <1>1, <1>2

(* A presentation that is received.                                         *)
LEMMA PresentedFacts ==
  ASSUME NEW m, Sound(m)
  PROVE  Sound(Presented(m)) /\ Presented(m).received = 0
<1>1. PICK s \in Medium : /\ s = [m EXCEPT !.received = 0]
                          /\ s.received = 0 /\ s.heard = m.heard
  <2> DEFINE s == [m EXCEPT !.received = 0]
  <2>1. m \in Medium /\ 0 \in 0 .. Oldest
    BY Ages DEF Sound
  <2>2. s \in Medium /\ s.received = 0 /\ s.heard = m.heard
    BY <2>1 DEF Medium
  <2>3. QED
    BY <2>2
<1>2. PICK t \in Medium : /\ t = Works(s) /\ t.problem = "none"
                          /\ t.received = s.received /\ t.heard = s.heard
  BY WorksFacts
<1>3. Presented(m) = t
  BY <1>1, <1>2 DEF Presented
<1>4. Sound(t) /\ t.received = 0
  BY <1>1, <1>2, Ages DEF Sound, Medium
<1>5. QED
  BY <1>3, <1>4

(* The end of a presentation of one's own.                                  *)
Replied(n) == Arrives(n) /\ Arrives(Other(n))

LEMMA PresentedByFacts ==
  ASSUME NEW n \in Node, NEW m, Sound(m)
  PROVE  LET s == PresentedBy(n, m)
         IN  /\ Sound(s)
             /\ IF Replied(n) THEN s.received = 0
                ELSE /\ s.received = m.received
                     /\ s.state = "working" => m.state = "working"
<1>1. PICK r : r = IF link[n] = "fails" THEN m ELSE [m EXCEPT !.sent = 0]
  OBVIOUS
<1>2. Sound(r) /\ r.received = m.received /\ r.state = m.state
  BY <1>1, SentFacts
<1>3. CASE Replied(n)
  <2>1. PresentedBy(n, m) = Presented(r)
    BY <1>1, <1>3 DEF PresentedBy, Replied
  <2>2. QED
    BY <1>2, <1>3, <2>1, PresentedFacts
<1>4. CASE ~Replied(n)
  <2>1. PresentedBy(n, m) \in {r, SetState(r, "problem", "send_problem")}
    BY <1>1, <1>4 DEF PresentedBy, Replied
  <2>2. r \in Medium /\ "problem" \in States /\ "send_problem" \in Problems
    BY <1>2 DEF Sound, States, Problems
  <2>3. PICK t \in Medium : /\ t = SetState(r, "problem", "send_problem")
                            /\ t.state = "problem" /\ t.received = r.received
                            /\ t.heard = r.heard
    BY <2>2, SetStateFacts
  <2>4. Sound(t)
    BY <1>2, <2>3 DEF Sound
  <2>5. QED
    BY <1>2, <1>4, <2>1, <2>3, <2>4
<1>5. QED
  BY <1>3, <1>4

(* A node is heard from, or what it has heard stays.                        *)
HearsOrNot(k) ==
  /\ Sound(medium[k])'
  /\ \/ medium'[k].received = medium[k].received /\ silent'[k] = silent[k]
     \/ medium'[k].received = 0 /\ silent'[k] = 0

Recorded ==
  /\ medium' \in [Node -> Medium] /\ silent' \in [Node -> 0 .. Oldest]
  /\ \A k \in Node : HearsOrNot(k)

(* A heartbeat changes no state.                                            *)
LEMMA HeartbeatFacts ==
  ASSUME QInv, NEW n \in Node, HeartbeatBy(n, medium[n])
  PROVE  /\ Recorded
         /\ \A k \in Node : medium'[k].state = medium[k].state
<1>1. /\ medium \in [Node -> Medium] /\ silent \in [Node -> 0 .. Oldest]
      /\ \A k \in Node : Sound(medium[k])
  BY DEF QInv, TypeOK, NodeOK
<1>2. PICK o \in Node : o = Other(n) /\ o # n
  BY OtherNode
<1>3. PICK age \in 0 .. Oldest : age = medium[n].received
  BY <1>1 DEF Medium
<1>4. PICK s : s = IF link[n] = "fails" THEN medium[n]
                   ELSE [medium[n] EXCEPT !.sent = 0]
  OBVIOUS
<1>5. Sound(s) /\ s.received = medium[n].received /\ s.state = medium[n].state
  BY <1>1, <1>4, SentFacts
<1>6. PICK r : r = IF Arrives(n)
                   THEN [medium[o] EXCEPT !.received = 0,
                                          !.heard = Parsed(Deka(age))]
                   ELSE medium[o]
  OBVIOUS
<1>7. /\ Sound(r) /\ r.state = medium[o].state
      /\ r.received = IF Arrives(n) THEN 0 ELSE medium[o].received
  <2>1. CASE Arrives(n)
    <3>1. PICK h : h = medium[o] /\ Sound(h)
      BY <1>1
    <3>2. r = [h EXCEPT !.received = 0, !.heard = Parsed(Deka(age))]
      BY <1>6, <2>1, <3>1
    <3>3. Sound(r) /\ r.received = 0 /\ r.state = h.state
      BY <3>1, <3>2, ReceiverFacts
    <3>4. QED
      BY <2>1, <3>1, <3>3
  <2>2. CASE ~Arrives(n)
    BY <1>1, <1>6, <2>2
  <2>3. QED
    BY <2>1, <2>2
<1>8. medium' = [medium EXCEPT ![n] = s, ![o] = r]
  BY <1>2, <1>3, <1>4, <1>6 DEF HeartbeatBy
<1>9. silent' = IF Arrives(n) THEN [silent EXCEPT ![o] = 0] ELSE silent
  BY <1>2 DEF HeartbeatBy
<1>10. s \in Medium /\ r \in Medium /\ 0 \in 0 .. Oldest
  BY <1>5, <1>7, Ages DEF Sound
<1>11. medium' \in [Node -> Medium] /\ silent' \in [Node -> 0 .. Oldest]
  BY <1>1, <1>8, <1>9, <1>10
<1>12. /\ medium'[n] = s /\ medium'[o] = r
       /\ \A k \in Node \ {n, o} : medium'[k] = medium[k]
  BY <1>1, <1>2, <1>8, <1>10
<1>13. /\ silent'[o] = IF Arrives(n) THEN 0 ELSE silent[o]
       /\ \A k \in Node \ {o} : silent'[k] = silent[k]
  BY <1>1, <1>9
<1>14. ASSUME NEW k \in Node
       PROVE  HearsOrNot(k) /\ medium'[k].state = medium[k].state
  <2>1. Sound(medium'[k]) /\ medium'[k].state = medium[k].state
    BY <1>1, <1>5, <1>7, <1>12
  <2>2. \/ medium'[k].received = medium[k].received /\ silent'[k] = silent[k]
        \/ medium'[k].received = 0 /\ silent'[k] = 0
    BY <1>2, <1>5, <1>7, <1>12, <1>13
  <2>3. QED
    BY <2>1, <2>2 DEF HearsOrNot, Sound
<1>15. QED
  BY <1>11, <1>14 DEF Recorded

(* After a presentation the node that presented has decided whether it      *)
(* knows the other; who was reached has heard it and knows it.              *)
LEMMA PresentationFacts ==
  ASSUME QInv, NEW n \in Node, NEW m, Sound(m), PresentationEnds(n, m),
         m.received = IF Replied(n) THEN 0 ELSE medium[n].received
  PROVE  /\ Recorded
         /\ peer' \in [Node -> {"unknown", "presenting", "known"}]
         /\ medium'[n] = m
         /\ peer'[n] \in {"known", "unknown"}
         /\ peer'[n] = "known" => Replied(n) \/ peer[n] = "known"
         /\ \A k \in Node \ {n} :
              \/ medium'[k] = medium[k] /\ peer'[k] = peer[k]
              \/ medium'[k].received = 0 /\ peer'[k] = "known"
<1>1. /\ medium \in [Node -> Medium] /\ silent \in [Node -> 0 .. Oldest]
      /\ peer \in [Node -> {"unknown", "presenting", "known"}]
      /\ \A k \in Node : Sound(medium[k])
  BY DEF QInv, TypeOK, NodeOK
<1>2. PICK o \in Node : o = Other(n) /\ o # n
  BY OtherNode
<1>3. PICK s : s = IF link[o] = "fails" THEN medium[o]
                   ELSE [medium[o] EXCEPT !.sent = 0]
  OBVIOUS
<1>4. Sound(s)
  BY <1>1, <1>3, SentFacts
<1>5. PICK r : r = IF Arrives(n) THEN Presented(s) ELSE medium[o]
  OBVIOUS
<1>6. /\ Sound(r)
      /\ IF Arrives(n) THEN r.received = 0 ELSE r = medium[o]
  BY <1>1, <1>4, <1>5, PresentedFacts
<1>7. medium' = [medium EXCEPT ![n] = m, ![o] = r]
  BY <1>2, <1>3, <1>5 DEF PresentationEnds
<1>8. peer' = [peer EXCEPT ![n] = IF Success(n) THEN "known" ELSE "unknown",
                           ![o] = IF Arrives(n) THEN "known" ELSE peer[o]]
  BY <1>2 DEF PresentationEnds
<1>9. silent' = [silent EXCEPT ![n] = IF Replied(n) THEN 0 ELSE silent[n],
                               ![o] = IF Arrives(n) THEN 0 ELSE silent[o]]
  BY <1>2 DEF PresentationEnds, Replied
<1>10. m \in Medium /\ r \in Medium /\ 0 \in 0 .. Oldest
  BY <1>6, Ages DEF Sound
<1>11. medium' \in [Node -> Medium] /\ silent' \in [Node -> 0 .. Oldest]
  BY <1>1, <1>7, <1>9, <1>10
<1>12. peer' \in [Node -> {"unknown", "presenting", "known"}]
  BY <1>1, <1>8
<1>13. /\ medium'[n] = m /\ medium'[o] = r
       /\ \A k \in Node \ {n, o} : medium'[k] = medium[k]
  BY <1>1, <1>2, <1>7, <1>10
<1>14. /\ silent'[n] = IF Replied(n) THEN 0 ELSE silent[n]
       /\ silent'[o] = IF Arrives(n) THEN 0 ELSE silent[o]
       /\ \A k \in Node \ {n, o} : silent'[k] = silent[k]
  BY <1>1, <1>2, <1>9
<1>15. /\ peer'[n] = IF Success(n) THEN "known" ELSE "unknown"
       /\ peer'[o] = IF Arrives(n) THEN "known" ELSE peer[o]
       /\ \A k \in Node \ {n, o} : peer'[k] = peer[k]
  BY <1>1, <1>2, <1>8
<1>16. ASSUME NEW k \in Node PROVE HearsOrNot(k)
  <2>1. Sound(medium'[k])
    BY <1>1, <1>6, <1>13
  <2>2. \/ medium'[k].received = medium[k].received /\ silent'[k] = silent[k]
        \/ medium'[k].received = 0 /\ silent'[k] = 0
    BY <1>2, <1>6, <1>13, <1>14
  <2>3. QED
    BY <2>1, <2>2 DEF HearsOrNot, Sound
<1>17. peer'[n] = "known" => Replied(n) \/ peer[n] = "known"
  BY <1>15 DEF Success, Replied
<1>18. ASSUME NEW k \in Node \ {n}
       PROVE  \/ medium'[k] = medium[k] /\ peer'[k] = peer[k]
              \/ medium'[k].received = 0 /\ peer'[k] = "known"
  BY <1>6, <1>13, <1>15
<1>19. QED
  BY <1>11, <1>12, <1>13, <1>15, <1>16, <1>17, <1>18 DEF Recorded

-----------------------------------------------------------------------------
(* The tasks of a node as they are, but for what a step does to one.        *)
Placed(k) ==
  /\ repeater'[k] = repeater[k] /\ due'[k] = due[k] /\ task'[k] = task[k]

(* A node whose tasks stay where they are and which hears something, or     *)
(* whose record stays in its state.                                         *)
LEMMA BystanderKept ==
  ASSUME QInv, NEW k \in Node, HearsOrNot(k), Placed(k),
         \/ peer'[k] = peer[k] /\ medium'[k].state = medium[k].state
         \/ medium'[k].received = 0 /\ peer'[k] = "known"
  PROVE  NodeOK(k)'
<1>1. /\ NodeOK(k) /\ medium[k].received \in Nat
      /\ medium'[k].received \in Nat
  BY Ages DEF QInv, NodeOK, Sound, Medium, HearsOrNot
<1>2. silent'[k] = medium'[k].received /\ Sound(medium[k])'
  BY <1>1 DEF NodeOK, HearsOrNot
<1>3. Watched(k)'
  BY <1>1, Ages DEF NodeOK, HearsOrNot, Watched, Placed
<1>4. Skipped(k)'
  BY <1>1 DEF NodeOK, Skipped, Placed
<1>5. Known(k)'
  BY <1>1 DEF NodeOK, HearsOrNot, Known, Placed
<1>6. QED
  BY <1>2, <1>3, <1>4, <1>5 DEF NodeOK

(* The types of what does not belong to the medium.                         *)
TasksTyped ==
  /\ repeater \in [Node -> {"idle", "presenting", "late"}]
  /\ due \in [Node -> SUBSET {"monitor", "heartbeat"}]
  /\ task \in [Node -> {"none", "start", "presenting", "late", "beat"}]
  /\ link \in Links \cup {AllUp}
  /\ faults \in 0 .. MaxFaults

PeersTyped == peer \in [Node -> {"unknown", "presenting", "known"}]

MediaTyped ==
  medium \in [Node -> Medium] /\ silent \in [Node -> 0 .. Oldest]

LEMMA TypeParts == TypeOK <=> TasksTyped /\ PeersTyped /\ MediaTyped
  BY DEF TypeOK, TasksTyped, PeersTyped, MediaTyped

(* The steps of the repeater.                                               *)
LEMMA SkipsStep ==
  ASSUME QInv, NEW n \in Node, MonitorSkips(n)
  PROVE  QInv'
<1>1. TypeOK'
  BY DEF MonitorSkips, QInv, TypeOK, Ran
<1>2. ASSUME NEW k \in Node PROVE NodeOK(k)'
  <2>1. NodeOK(k) /\ medium[k].received \in Nat
    BY Ages DEF QInv, NodeOK, Sound, Medium
  <2>2. UNCHANGED <<medium, peer, repeater, task, silent>>
    BY DEF MonitorSkips
  <2>3. /\ due'[k] = IF k = n THEN due[n] \ {"monitor"} ELSE due[k]
    BY DEF MonitorSkips, Ran, QInv, TypeOK
  <2>4. k = n => medium[k].state # "working"
    BY <2>1 DEF MonitorSkips, Idle, NodeOK, Skipped
  <2>5. Watched(k)' /\ Skipped(k)' /\ Known(k)'
    BY <2>1, <2>2, <2>3, <2>4 DEF NodeOK, Watched, Skipped, Known
  <2>6. QED
    BY <2>1, <2>2, <2>5 DEF NodeOK, Sound
<1>3. QED
  BY <1>1, <1>2 DEF QInv

LEMMA MonitorStep ==
  ASSUME QInv, NEW n \in Node, Monitor(n)
  PROVE  QInv'
<1>1. TasksTyped /\ PeersTyped /\ MediaTyped /\ \A k \in Node : NodeOK(k)
  BY TypeParts DEF QInv
<1>2. PICK tie \in BOOLEAN, created \in BOOLEAN :
        LET checked == Transition(Resumed(medium[n]), peer[n] = "known", tie)
        IN  /\ medium' = [medium EXCEPT ![n] = StateAction(checked)]
            /\ IF TooLong(checked)
               THEN IF created
                    THEN /\ task' = [task EXCEPT ![n] = "start"]
                         /\ UNCHANGED faults
                    ELSE /\ faults < MaxFaults
                         /\ faults' = faults + 1
                         /\ UNCHANGED task
               ELSE created /\ UNCHANGED <<task, faults>>
  BY DEF Monitor
<1>3. PICK known : known = (peer[n] = "known")
  OBVIOUS
<1>4. PICK m : m = StateAction(Transition(Resumed(medium[n]), known, tie))
  OBVIOUS
<1>5. /\ Sound(m)
      /\ m.received = IF Patient(medium[n]) THEN 0 ELSE medium[n].received
      /\ m.state = "working" => m.received <= Limit + 1
  BY <1>1, <1>4, MonitorFacts DEF NodeOK
<1>6. medium' = [medium EXCEPT ![n] = m]
  BY <1>2, <1>3, <1>4
<1>7. task' = [task EXCEPT ![n] = "start"] \/ task' = task
  BY <1>2
<1>8. /\ due' = [due EXCEPT ![n] = due[n] \ {"monitor"}]
      /\ silent' = [silent EXCEPT ![n] = IF Patient(medium[n]) THEN 0
                                         ELSE silent[n]]
      /\ UNCHANGED link /\ peer[n] # "presenting"
      /\ IF peer[n] = "unknown"
         THEN /\ peer' = [peer EXCEPT ![n] = "presenting"]
              /\ repeater' = [repeater EXCEPT ![n] = "presenting"]
         ELSE UNCHANGED <<peer, repeater>>
  BY DEF Monitor, Ran
<1>9. MediaTyped'
  <2>1. m \in Medium /\ 0 \in 0 .. Oldest
    BY <1>5, Ages DEF Sound
  <2>2. QED
    BY <1>1, <1>6, <1>8, <2>1 DEF MediaTyped
<1>10. PeersTyped'
  BY <1>1, <1>8 DEF PeersTyped
<1>11. TasksTyped'
  <2>1. faults' \in 0 .. MaxFaults
    BY <1>1, <1>2, Ages DEF TasksTyped
  <2>2. task' \in [Node -> {"none", "start", "presenting", "late", "beat"}]
    BY <1>1, <1>7 DEF TasksTyped
  <2>3. repeater' \in [Node -> {"idle", "presenting", "late"}]
    BY <1>1, <1>8 DEF TasksTyped
  <2>4. due' \in [Node -> SUBSET {"monitor", "heartbeat"}]
    BY <1>1, <1>8 DEF TasksTyped
  <2>5. QED
    BY <1>1, <1>8, <2>1, <2>2, <2>3, <2>4 DEF TasksTyped
<1>12. ASSUME NEW k \in Node, k # n PROVE NodeOK(k)'
  <2>1. Placed(k)
    BY <1>1, <1>7, <1>8, <1>12 DEF Placed, TasksTyped
  <2>2. peer'[k] = peer[k] /\ medium'[k] = medium[k] /\ silent'[k] = silent[k]
    BY <1>1, <1>6, <1>8, <1>12 DEF PeersTyped, MediaTyped
  <2>3. HearsOrNot(k)
    BY <1>1, <2>2 DEF HearsOrNot, NodeOK, Sound
  <2>4. QED
    BY <2>1, <2>2, <2>3, BystanderKept
<1>13. NodeOK(n)'
  <2>1. medium'[n] = m /\ "monitor" \notin due'[n]
    BY <1>1, <1>6, <1>8 DEF MediaTyped, TasksTyped
  <2>2. silent'[n] = m.received
    BY <1>1, <1>5, <1>8 DEF NodeOK, MediaTyped
  <2>3. Watched(n)'
    BY <1>5, <2>1 DEF Watched
  <2>4. Skipped(n)'
    BY <1>1, <1>8, <2>1 DEF Skipped, PeersTyped, TasksTyped
  <2>5. Known(n)'
    <3>1. peer'[n] = "known" => peer[n] = "known"
      BY <1>1, <1>8 DEF PeersTyped
    <3>2. task'[n] = "start" \/ task'[n] = task[n]
      BY <1>1, <1>7 DEF TasksTyped
    <3>3. m.received = 0 \/ m.received = medium[n].received
      BY <1>5
    <3>4. QED
      BY <1>1, <2>1, <3>1, <3>2, <3>3 DEF Known, NodeOK
  <2>6. QED
    BY <1>5, <2>1, <2>2, <2>3, <2>4, <2>5 DEF NodeOK, Sound
<1>14. QED
  BY <1>9, <1>10, <1>11, <1>12, <1>13, TypeParts DEF QInv, TypeOK, TasksTyped,
     PeersTyped, MediaTyped

(* The end of a presentation.                                               *)
LEMMA PresentedOthers ==
  ASSUME QInv, NEW n \in Node, NEW k \in Node, k # n, HearsOrNot(k), Placed(k),
         \/ medium'[k] = medium[k] /\ peer'[k] = peer[k]
         \/ medium'[k].received = 0 /\ peer'[k] = "known"
  PROVE  NodeOK(k)'
  BY BystanderKept

LEMMA MonitorPresentedStep ==
  ASSUME QInv, NEW n \in Node, MonitorPresented(n)
  PROVE  QInv'
<1>1. TasksTyped /\ \A k \in Node : NodeOK(k)
  BY TypeParts DEF QInv
<1>2. PICK m : m = PresentedBy(n, medium[n])
  OBVIOUS
<1>3. /\ Sound(m)
      /\ IF Replied(n) THEN m.received = 0
         ELSE /\ m.received = medium[n].received
              /\ m.state = "working" => medium[n].state = "working"
  BY <1>1, <1>2, PresentedByFacts DEF NodeOK
<1>4. /\ Recorded /\ PeersTyped' /\ medium'[n] = m
      /\ peer'[n] \in {"known", "unknown"}
      /\ peer'[n] = "known" => Replied(n) \/ peer[n] = "known"
      /\ \A k \in Node \ {n} :
           \/ medium'[k] = medium[k] /\ peer'[k] = peer[k]
           \/ medium'[k].received = 0 /\ peer'[k] = "known"
  <2>1. PresentationEnds(n, m)
    BY <1>2 DEF MonitorPresented
  <2>2. m.received = IF Replied(n) THEN 0 ELSE medium[n].received
    BY <1>3
  <2>3. QED
    BY <1>3, <2>1, <2>2, PresentationFacts DEF PeersTyped
<1>5. repeater' = [repeater EXCEPT ![n] = "idle"]
      /\ UNCHANGED <<due, task, link, faults>>
  BY DEF MonitorPresented
<1>6. TasksTyped'
  BY <1>1, <1>5 DEF TasksTyped
<1>7. ASSUME NEW k \in Node, k # n PROVE NodeOK(k)'
  <2>1. Placed(k)
    BY <1>1, <1>5, <1>7 DEF Placed, TasksTyped
  <2>2. HearsOrNot(k)
    BY <1>4 DEF Recorded
  <2>3. QED
    BY <1>4, <1>7, <2>1, <2>2, PresentedOthers
<1>8. NodeOK(n)'
  <2>1. HearsOrNot(n) /\ m.received \in Nat
    BY <1>3, <1>4, Ages DEF Recorded, Sound, Medium
  <2>2. silent'[n] = m.received
    BY <1>1, <1>4, <2>1 DEF HearsOrNot, NodeOK
  <2>3. repeater'[n] = "idle" /\ due'[n] = due[n] /\ task'[n] = task[n]
    BY <1>1, <1>5 DEF TasksTyped
  <2>4. Watched(n)'
    BY <1>1, <1>3, <1>4, <2>1, <2>3, Ages DEF NodeOK, Watched
  <2>5. Skipped(n)'
    BY <1>4, <2>3 DEF Skipped
  <2>6. Known(n)'
    BY <1>1, <1>3, <1>4, <2>1, <2>3 DEF NodeOK, Known
  <2>7. QED
    BY <1>3, <1>4, <2>2, <2>4, <2>5, <2>6 DEF NodeOK, Sound
<1>9. QED
  BY <1>4, <1>6, <1>7, <1>8
  DEF QInv, TypeOK, TasksTyped, PeersTyped, Recorded

(* A heartbeat, or none, of a node that goes on.                            *)
LEMMA BeatStep ==
  ASSUME QInv, NEW n \in Node,
         UNCHANGED <<medium, silent>> \/ HeartbeatBy(n, medium[n]),
         UNCHANGED <<peer, repeater, link, faults>>,
         \/ Ran(n, "heartbeat") /\ UNCHANGED task
         \/ task' = [task EXCEPT ![n] = "none"] /\ UNCHANGED due
  PROVE  QInv'
<1>1. TasksTyped /\ PeersTyped /\ MediaTyped /\ \A k \in Node : NodeOK(k)
  BY TypeParts DEF QInv
<1>2. Recorded /\ \A k \in Node : medium'[k].state = medium[k].state
  <2>1. CASE UNCHANGED <<medium, silent>>
    BY <1>1, <2>1 DEF Recorded, HearsOrNot, MediaTyped, NodeOK, Sound
  <2>2. CASE HeartbeatBy(n, medium[n])
    BY <2>2, HeartbeatFacts
  <2>3. QED
    BY <2>1, <2>2
<1>3. TasksTyped'
  BY <1>1 DEF TasksTyped, Ran
<1>4. ASSUME NEW k \in Node PROVE NodeOK(k)'
  <2>1. /\ repeater'[k] = repeater[k] /\ peer'[k] = peer[k]
        /\ "monitor" \in due'[k] <=> "monitor" \in due[k]
        /\ task'[k] \in {task[k], "none"}
    BY <1>1 DEF Ran, TasksTyped
  <2>2. /\ NodeOK(k) /\ medium[k].received \in Nat /\ HearsOrNot(k)
        /\ medium'[k].received \in Nat /\ medium'[k].state = medium[k].state
    BY <1>1, <1>2, Ages DEF NodeOK, Sound, Medium, Recorded, HearsOrNot
  <2>3. Watched(k)'
    BY <2>1, <2>2, Ages DEF NodeOK, HearsOrNot, Watched
  <2>4. Skipped(k)'
    BY <2>1, <2>2 DEF NodeOK, Skipped
  <2>5. Known(k)'
    BY <2>1, <2>2 DEF NodeOK, HearsOrNot, Known
  <2>6. QED
    BY <2>2, <2>3, <2>4, <2>5 DEF NodeOK, HearsOrNot
<1>5. QED
  BY <1>1, <1>2, <1>3, <1>4
  DEF QInv, TypeOK, TasksTyped, PeersTyped, Recorded

(* The steps of the recovery task.                                          *)
LEMMA TaskStartsStep ==
  ASSUME QInv, NEW n \in Node, TaskStarts(n)
  PROVE  QInv'
<1>1. TasksTyped /\ PeersTyped /\ MediaTyped /\ \A k \in Node : NodeOK(k)
  BY TypeParts DEF QInv
<1>2. PICK all \in BOOLEAN :
        LET known == peer[n] = "known"
            m == SetState([medium[n] EXCEPT !.postpone = ~known \/ all],
                          "recovering", "unknown")
        IN  /\ known \/ all
            /\ medium' = [medium EXCEPT ![n] = m]
            /\ task' = [task EXCEPT ![n] = IF ~known THEN "none"
                                           ELSE IF all THEN "presenting"
                                           ELSE "beat"]
            /\ peer' = IF known /\ all THEN [peer EXCEPT ![n] = "presenting"]
                       ELSE peer
  BY DEF TaskStarts
<1>3. PICK postpone \in BOOLEAN : postpone = (~(peer[n] = "known") \/ all)
  OBVIOUS
<1>4. PICK p \in Medium :
        /\ p = [medium[n] EXCEPT !.postpone = postpone]
        /\ p.received = medium[n].received /\ p.heard = medium[n].heard
  <2>1. medium[n] \in Medium
    BY <1>1 DEF MediaTyped
  <2>2. [medium[n] EXCEPT !.postpone = postpone] \in Medium
    BY <2>1 DEF Medium
  <2>3. QED
    BY <2>1, <2>2 DEF Medium
<1>5. PICK m \in Medium :
        /\ m = SetState(p, "recovering", "unknown") /\ m.state = "recovering"
        /\ m.received = p.received /\ m.heard = p.heard
  <2>1. "recovering" \in States /\ "unknown" \in Problems
    BY DEF States, Problems
  <2>2. QED
    BY <2>1, SetStateFacts
<1>6. Sound(m)
  BY <1>1, <1>4, <1>5 DEF NodeOK, Sound
<1>7. medium' = [medium EXCEPT ![n] = m]
  BY <1>2, <1>3, <1>4, <1>5
<1>8. UNCHANGED <<repeater, due, link, faults, silent>>
  BY DEF TaskStarts
<1>9. PICK at \in {"none", "presenting", "beat"} :
        /\ task' = [task EXCEPT ![n] = at]
        /\ at = "presenting" => peer' = [peer EXCEPT ![n] = "presenting"]
        /\ peer' = peer \/ peer' = [peer EXCEPT ![n] = "presenting"]
  BY <1>2
<1>10. TasksTyped' /\ PeersTyped' /\ MediaTyped'
  BY <1>1, <1>7, <1>8, <1>9 DEF TasksTyped, PeersTyped, MediaTyped
<1>11. ASSUME NEW k \in Node, k # n PROVE NodeOK(k)'
  <2>1. Placed(k)
    BY <1>1, <1>8, <1>9, <1>11 DEF Placed, TasksTyped
  <2>2. peer'[k] = peer[k] /\ medium'[k] = medium[k] /\ silent'[k] = silent[k]
    BY <1>1, <1>7, <1>8, <1>9, <1>11 DEF PeersTyped, MediaTyped
  <2>3. HearsOrNot(k)
    BY <1>1, <2>2 DEF HearsOrNot, NodeOK, Sound
  <2>4. QED
    BY <2>1, <2>2, <2>3, BystanderKept
<1>12. NodeOK(n)'
  <2>1. /\ medium'[n] = m /\ task'[n] = at /\ silent'[n] = silent[n]
        /\ repeater'[n] = repeater[n] /\ due'[n] = due[n]
    BY <1>1, <1>7, <1>8, <1>9 DEF MediaTyped, TasksTyped
  <2>2. at = "presenting" => peer'[n] = "presenting"
    BY <1>1, <1>9 DEF PeersTyped
  <2>3. m.received = medium[n].received
    BY <1>4, <1>5
  <2>4. QED
    BY <1>1, <1>5, <1>6, <2>1, <2>2, <2>3
    DEF NodeOK, Sound, Watched, Skipped, Known
<1>13. QED
  BY <1>10, <1>11, <1>12 DEF QInv, TypeOK, TasksTyped, PeersTyped, MediaTyped

LEMMA TaskPresentedStep ==
  ASSUME QInv, NEW n \in Node, TaskPresented(n)
  PROVE  QInv'
<1>1. TasksTyped /\ \A k \in Node : NodeOK(k)
  BY TypeParts DEF QInv
<1>2. PICK p \in Medium :
        /\ p = [medium[n] EXCEPT !.postpone = FALSE] /\ Sound(p)
        /\ p.received = medium[n].received /\ p.state = medium[n].state
  <2>1. medium[n] \in Medium /\ FALSE \in BOOLEAN
    BY <1>1 DEF NodeOK, Sound
  <2> DEFINE p == [medium[n] EXCEPT !.postpone = FALSE]
  <2>2. p \in Medium
    BY <2>1 DEF Medium
  <2>3. /\ p.received = medium[n].received /\ p.state = medium[n].state
        /\ p.heard = medium[n].heard /\ p.problem = medium[n].problem
    BY <2>1 DEF Medium
  <2>4. Sound(p)
    <3> HIDE DEF p
    <3>1. QED
      BY <1>1, <2>2, <2>3 DEF NodeOK, Sound
  <2>5. QED
    BY <2>2, <2>3, <2>4
<1>3. PICK s : s = PresentedBy(n, p)
  OBVIOUS
<1>4. /\ Sound(s) /\ s \in Medium
       /\ s.received = IF Replied(n) THEN 0 ELSE medium[n].received
  BY <1>2, <1>3, PresentedByFacts DEF Sound
<1>5. PICK m : m = IF Success(n) THEN Works(s)
                   ELSE SetState(s, "problem", "unknown")
  OBVIOUS
<1>6. /\ Sound(m) /\ m.received = s.received
      /\ m.state = "working" => Success(n)
  <2>1. "problem" \in States /\ "unknown" \in Problems
    BY DEF States, Problems
  <2>2. CASE Success(n)
    BY <1>4, <1>5, <2>2, WorksFacts DEF Sound
  <2>3. CASE ~Success(n)
    BY <1>4, <1>5, <2>1, <2>3, SetStateFacts DEF Sound
  <2>4. QED
    BY <2>2, <2>3
<1>7. /\ Recorded /\ PeersTyped' /\ medium'[n] = m
      /\ peer'[n] \in {"known", "unknown"}
      /\ \A k \in Node \ {n} :
           \/ medium'[k] = medium[k] /\ peer'[k] = peer[k]
           \/ medium'[k].received = 0 /\ peer'[k] = "known"
  <2>1. PresentationEnds(n, m)
    BY <1>2, <1>3, <1>5 DEF TaskPresented
  <2>2. m.received = IF Replied(n) THEN 0 ELSE medium[n].received
    BY <1>4, <1>6
  <2>3. QED
    BY <1>6, <2>1, <2>2, PresentationFacts DEF PeersTyped
<1>8. /\ task' = [task EXCEPT ![n] = IF Success(n) THEN "none" ELSE "beat"]
      /\ UNCHANGED <<repeater, due, link, faults>>
      /\ task[n] \in {"presenting", "late"}
  BY DEF TaskPresented
<1>9. TasksTyped'
  BY <1>1, <1>8 DEF TasksTyped
<1>10. ASSUME NEW k \in Node, k # n PROVE NodeOK(k)'
  <2>1. Placed(k)
    BY <1>1, <1>8, <1>10 DEF Placed, TasksTyped
  <2>2. HearsOrNot(k)
    BY <1>7 DEF Recorded
  <2>3. QED
    BY <1>7, <1>10, <2>1, <2>2, PresentedOthers
<1>11. NodeOK(n)'
  <2>1. HearsOrNot(n) /\ m.received \in Nat
    BY <1>6, <1>7, Ages DEF Recorded, Sound, Medium
  <2>2. silent'[n] = m.received
    BY <1>1, <1>7, <2>1 DEF HearsOrNot, NodeOK
  <2>3. /\ repeater'[n] = repeater[n] /\ due'[n] = due[n]
        /\ task'[n] \in {"none", "beat"}
    BY <1>1, <1>8 DEF TasksTyped
  <2>4. Watched(n)'
    <3>1. Success(n) => m.received <= 1
      BY <1>1, <1>4, <1>6, <1>8 DEF Success, Replied, NodeOK, Known
    <3>2. QED
      BY <1>6, <1>7, <2>1, <3>1, Ages DEF Watched
  <2>5. Skipped(n)' /\ Known(n)'
    BY <1>1, <1>7, <2>3 DEF NodeOK, Skipped, Known
  <2>6. QED
    BY <1>6, <1>7, <2>2, <2>4, <2>5 DEF NodeOK, Sound
<1>12. QED
  BY <1>7, <1>9, <1>10, <1>11
  DEF QInv, TypeOK, TasksTyped, PeersTyped, Recorded

(* A large message postpones the checks and changes nothing else.           *)
LEMMA PostponesStep ==
  ASSUME QInv, NEW n \in Node, Postpones(n)
  PROVE  QInv'
<1>1. TasksTyped /\ PeersTyped /\ MediaTyped /\ \A k \in Node : NodeOK(k)
  BY TypeParts DEF QInv
<1>2. PICK m \in Medium :
        /\ m = [medium[n] EXCEPT !.postpone = TRUE]
        /\ m.received = medium[n].received /\ m.heard = medium[n].heard
        /\ m.state = medium[n].state /\ m.problem = medium[n].problem
  <2>1. medium[n] \in Medium
    BY <1>1 DEF MediaTyped
  <2>2. [medium[n] EXCEPT !.postpone = TRUE] \in Medium
    BY <2>1 DEF Medium
  <2>3. QED
    BY <2>1, <2>2 DEF Medium
<1>3. Sound(m)
  BY <1>1, <1>2 DEF NodeOK, Sound
<1>4. medium' = [medium EXCEPT ![n] = m]
  BY <1>2 DEF Postpones
<1>5. UNCHANGED <<peer, repeater, due, task, link, silent>>
  BY DEF Postpones
<1>6. faults' \in 0 .. MaxFaults
  BY <1>1, Ages DEF Postpones, TasksTyped
<1>7. TasksTyped' /\ PeersTyped' /\ MediaTyped'
  BY <1>1, <1>2, <1>4, <1>5, <1>6 DEF TasksTyped, PeersTyped, MediaTyped
<1>8. ASSUME NEW k \in Node PROVE NodeOK(k)'
  <2>1. /\ Sound(medium'[k]) /\ medium'[k].received = medium[k].received
        /\ medium'[k].state = medium[k].state
    BY <1>1, <1>2, <1>3, <1>4 DEF MediaTyped, NodeOK
  <2>2. NodeOK(k)
    BY <1>1
  <2>3. QED
    BY <1>5, <2>1, <2>2 DEF NodeOK, Sound, Watched, Skipped, Known
<1>9. QED
  BY <1>7, <1>8 DEF QInv, TypeOK, TasksTyped, PeersTyped, MediaTyped

(* A period makes the instants of a record one older.                       *)
LEMMA AgedFacts ==
  ASSUME NEW m, Sound(m)
  PROVE  LET a == [m EXCEPT !.change = Aged(@, Old), !.sent = Aged(@, Old),
                            !.received = Aged(@, Oldest),
                            !.heard = Aged(@, Old)]
         IN  /\ Sound(a) /\ a.state = m.state
             /\ a.received = Aged(m.received, Oldest)
             /\ a.received <= m.received + 1 /\ m.received \in Nat
<1>1. /\ m \in Medium /\ m.change \in 0 .. Old /\ m.sent \in 0 .. Old
      /\ m.received \in 0 .. Oldest /\ m.heard \in 0 .. Never
  BY DEF Sound, Medium
<1>2. PICK change \in 0 .. Old : change = Aged(m.change, Old)
  BY <1>1, Ages DEF Aged
<1>3. PICK sent \in 0 .. Old : sent = Aged(m.sent, Old)
  BY <1>1, Ages DEF Aged
<1>4. PICK received \in 0 .. Oldest :
        received = Aged(m.received, Oldest) /\ received <= m.received + 1
  BY <1>1, Ages DEF Aged
<1>5. PICK heard \in 0 .. Never :
        heard = Aged(m.heard, Old) /\ (received <= heard \/ TooOld(heard))
  <2>1. Aged(m.heard, Old) \in 0 .. Never
    BY <1>1, Ages DEF Aged
  <2>2. CASE m.heard < Old
    <3>1. Aged(m.heard, Old) = m.heard + 1
      BY <1>1, <2>2, Ages DEF Aged
    <3>2. QED
      BY <1>1, <1>4, <2>1, <3>1, Ages DEF Sound, TooOld
  <2>3. CASE m.heard >= Old
    <3>1. Aged(m.heard, Old) = m.heard
      BY <1>1, <2>3, Ages DEF Aged
    <3>2. QED
      BY <1>1, <2>1, <2>3, <3>1, Ages DEF TooOld
  <2>4. QED
    BY <1>1, <2>2, <2>3, Ages
<1>6. PICK a \in Medium :
        /\ a = [m EXCEPT !.change = change, !.sent = sent,
                         !.received = received, !.heard = heard]
        /\ a.state = m.state /\ a.problem = m.problem
        /\ a.received = received /\ a.heard = heard
  <2>1. [m EXCEPT !.change = change, !.sent = sent,
                  !.received = received, !.heard = heard] \in Medium
    BY <1>1 DEF Medium
  <2>2. QED
    BY <1>1, <2>1 DEF Medium
<1>7. Sound(a)
  BY <1>5, <1>6 DEF Sound
<1>8. QED
  BY <1>1, <1>2, <1>3, <1>4, <1>5, <1>6, <1>7

(* A period passes only when every repeater has run what was due, or began  *)
(* to present when the monitor had looked: what works was heard from within *)
(* the limit before.                                                        *)
LEMMA TickStep ==
  ASSUME QInv, Tick
  PROVE  QInv'
<1>1. TasksTyped /\ PeersTyped /\ MediaTyped /\ \A k \in Node : NodeOK(k)
  BY TypeParts DEF QInv
<1>2. UNCHANGED peer /\ LinksChange
  BY DEF Tick
<1>3. link' \in Links \cup {AllUp} /\ faults' \in 0 .. MaxFaults
  BY <1>1, <1>2, Ages DEF LinksChange, TasksTyped
<1>4. ASSUME NEW k \in Node
      PROVE  /\ repeater'[k] = Waits(repeater[k]) /\ task'[k] = Waits(task[k])
             /\ due'[k] = {"monitor", "heartbeat"}
             /\ silent'[k] = Aged(silent[k], Oldest)
  BY DEF Tick
<1>5. ASSUME NEW k \in Node
      PROVE  /\ Sound(medium'[k]) /\ medium'[k].state = medium[k].state
             /\ medium'[k].received = Aged(medium[k].received, Oldest)
             /\ medium'[k].received <= medium[k].received + 1
             /\ medium[k].received \in Nat
  <2>1. medium'[k] =
          [medium[k] EXCEPT !.change = Aged(@, Old), !.sent = Aged(@, Old),
                            !.received = Aged(@, Oldest),
                            !.heard = Aged(@, Old)]
    BY DEF Tick
  <2>2. PICK m : m = medium[k] /\ Sound(m)
    BY <1>1 DEF NodeOK
  <2>3. QED
    BY <2>1, <2>2, AgedFacts
<1>6. TasksTyped'
  <2>1. repeater' \in [Node -> {"idle", "presenting", "late"}]
    BY <1>1 DEF Tick, Waits, TasksTyped
  <2>2. task' \in [Node -> {"none", "start", "presenting", "late", "beat"}]
    BY <1>1 DEF Tick, Waits, TasksTyped
  <2>3. due' \in [Node -> SUBSET {"monitor", "heartbeat"}]
    BY DEF Tick
  <2>4. QED
    BY <1>3, <2>1, <2>2, <2>3 DEF TasksTyped
<1>7. PeersTyped'
  BY <1>1, <1>2 DEF PeersTyped
<1>8. MediaTyped'
  <2>1. medium' \in [Node -> Medium]
    <3>1. \A k \in Node : medium'[k] \in Medium
      BY <1>5 DEF Sound
    <3>2. medium' = [k \in Node |-> medium'[k]]
      BY DEF Tick
    <3>3. QED
      BY <3>1, <3>2
  <2>2. \A k \in Node : Aged(silent[k], Oldest) \in 0 .. Oldest
    BY <1>1, Ages DEF Aged, MediaTyped
  <2>3. silent' \in [Node -> 0 .. Oldest]
    BY <2>2 DEF Tick
  <2>4. QED
    BY <2>1, <2>3 DEF MediaTyped
<1>9. ASSUME NEW k \in Node PROVE NodeOK(k)'
  <2>1. NodeOK(k)
    BY <1>1
  <2>2. /\ repeater[k] = "presenting" \/ (repeater[k] = "idle" /\ due[k] = {})
        /\ task[k] \in {"none", "presenting"}
    BY DEF Tick, Idle
  <2>3. silent'[k] = medium'[k].received
    BY <1>4, <1>5, <2>1 DEF NodeOK
  <2>4. Watched(k)'
    <3>1. "monitor" \notin due[k]
      BY <2>1, <2>2 DEF NodeOK, Skipped
    <3>2. medium[k].state = "working" => medium[k].received <= Limit + 1
      BY <2>1, <3>1 DEF NodeOK, Watched
    <3>3. medium'[k].received \in Nat
      BY <1>5, Ages DEF Sound, Medium
    <3>4. medium'[k].state = "working" => medium'[k].received <= Limit + 2
      BY <1>5, <3>2, <3>3, Ages
    <3>5. QED
      BY <1>4, <3>4 DEF Watched
  <2>5. Skipped(k)'
    BY <1>2, <1>4, <1>5, <2>1, <2>2 DEF NodeOK, Skipped, Waits
  <2>6. Known(k)'
    BY <1>2, <1>4, <1>5, <2>1, <2>2 DEF NodeOK, Known, Waits
  <2>7. QED
    BY <1>5, <2>3, <2>4, <2>5, <2>6 DEF NodeOK, Sound
<1>10. QED
  BY <1>6, <1>7, <1>8, <1>9
  DEF QInv, TypeOK, TasksTyped, PeersTyped, MediaTyped

(* The invariant holds of peers that have just been added.                  *)
LEMMA QosInit ==
  ASSUME Init
  PROVE  QInv
<1>1. /\ Added \in Medium /\ Added.received = 0 /\ Added.heard = 0
      /\ Added.state = "initiating"
  BY Ages DEF Added, Medium, States, Problems
<1>2. TypeOK
  BY <1>1, Ages DEF Init, TypeOK
<1>3. ASSUME NEW n \in Node PROVE NodeOK(n)
  <2>1. /\ medium[n] = Added /\ silent[n] = 0 /\ peer[n] = "unknown"
        /\ repeater[n] = "idle" /\ task[n] = "none"
    BY DEF Init
  <2>2. Sound(medium[n])
    BY <1>1, <2>1 DEF Sound
  <2>3. QED
    BY <1>1, <2>1, <2>2 DEF NodeOK, Watched, Skipped, Known
<1>4. QED
  BY <1>2, <1>3 DEF QInv

(* Every step keeps the invariant.                                          *)
LEMMA QosStep ==
  ASSUME QInv, [Next]_vars
  PROVE  QInv'
<1>1. ASSUME NEW n \in Node, Heartbeat(n) PROVE QInv'
  <2>1. /\ UNCHANGED <<medium, silent>> \/ HeartbeatBy(n, medium[n])
        /\ UNCHANGED <<peer, repeater, link, faults>>
        /\ Ran(n, "heartbeat") /\ UNCHANGED task
    BY <1>1 DEF Heartbeat
  <2>2. QED
    BY <2>1, BeatStep
<1>2. ASSUME NEW n \in Node, TaskBeats(n) PROVE QInv'
  <2>1. /\ UNCHANGED <<medium, silent>> \/ HeartbeatBy(n, medium[n])
        /\ UNCHANGED <<peer, repeater, link, faults>>
        /\ task' = [task EXCEPT ![n] = "none"] /\ UNCHANGED due
    BY <1>2 DEF TaskBeats
  <2>2. QED
    BY <2>1, BeatStep
<1>3. CASE UNCHANGED vars
  BY <1>3 DEF vars, QInv, TypeOK, NodeOK, Sound, Watched, Skipped, Known
<1>4. QED
  BY <1>1, <1>2, <1>3, SkipsStep, MonitorStep, MonitorPresentedStep,
     TaskStartsStep, TaskPresentedStep, PostponesStep, TickStep
  DEF Next

(* Every variable of MediumQos keeps its type, for any limit, field and     *)
(* faults (network/src/qos).                                                *)
THEOREM TypeCorrect == Spec => []TypeOK
<1>1. QInv => TypeOK
  BY DEF QInv
<1>2. QED
  BY <1>1, QosInit, QosStep, PTL DEF Spec

(* check_media notices silence within HEARD_FROM_LIMIT, and no recovery,    *)
(* presentation or heartbeat takes that back: for any limit that is longer  *)
(* than a period and that a heartbeat can tell, whatever becomes of the     *)
(* links and however often.                                                 *)
THEOREM SilenceNoticed == Spec => []SilenceIsNoticed
<1>1. QInv => SilenceIsNoticed
  BY Ages DEF QInv, NodeOK, Sound, Medium, Watched, SilenceIsNoticed
<1>2. QED
  BY <1>1, QosInit, QosStep, PTL DEF Spec

-----------------------------------------------------------------------------
(* Presentations: the types, and that a request never leaves its mark       *)
(* behind.  The invariant they need is that a request falls back to         *)
(* UNKNOWN, whatever it read.                                               *)

ThreadState == [at : Place, fail : PeerState, left : 0..Tries]
StateOK == state \in [Node -> PeerState]
NetOK ==
    /\ inbox \in [Node -> SUBSET Kind]
    /\ faults \in 0..MaxFaults

(* A request falls back to UNKNOWN, and what is to be sent has a medium.    *)
Good(t, r) ==
    /\ r \in ThreadState
    /\ t # "worker" => r.fail = "UNKNOWN"
    /\ r.at \in {"check", "mark", "send"} => r.left > 0
ThreadsGood ==
    /\ thread \in [Node -> [Thread -> ThreadState]]
    /\ \A n \in Node, t \in Thread : Good(t, thread[n][t])

IInv == StateOK /\ ThreadsGood /\ NetOK

LEMMA TriesType ==
    Tries \in Nat /\ Tries > 0 /\ MaxFaults \in Nat
  BY PresentationAssumption, BoundAssumption

(* The threads, and the records a presentation starts and ends with.        *)
LEMMA Threads ==
    /\ "worker" \in Thread /\ "worker" \notin Requester
    /\ {"monitor", "recovery", "app"} \subseteq Requester
    /\ Requester \subseteq Thread
    /\ \A t \in Thread : t # "worker" => t \in Requester
  BY DEF Thread, Requester

LEMMA Resting ==
    IdleThread \in ThreadState /\ IdleThread.fail = "UNKNOWN" /\ IdleThread.at = "idle"
  BY TriesType DEF IdleThread, ThreadState, Place, PeerState

LEMMA Starting ==
    /\ Replying \in ThreadState
    /\ Replying.fail = "UNKNOWN" /\ Replying.left > 0 /\ Replying.at = "check"
  BY TriesType DEF Replying, ThreadState, Place, PeerState

LEMMA StartingMarked ==
    ASSUME NEW tries \in 1..Tries
    PROVE  /\ Asking(tries) \in ThreadState
           /\ Asking(tries).fail = "UNKNOWN" /\ Asking(tries).left > 0
           /\ Asking(tries).at = "mark"
  BY TriesType DEF Asking, ThreadState, Place, PeerState

LEMMA OneTry == 1 \in 1..Tries /\ Tries \in 1..Tries
  BY TriesType

(* A step that gives one thread another good record keeps them all good.    *)
LEMMA OneThread ==
    ASSUME ThreadsGood, NEW n \in Node, NEW t \in Thread, NEW r, Good(t, r),
           thread' = [thread EXCEPT ![n][t] = r]
    PROVE  ThreadsGood'
  BY DEF ThreadsGood, Good

(* It takes no request away unless it is one that ends.                     *)
LEMMA RequestStays ==
    ASSUME ThreadsGood, NEW n \in Node, NEW t \in Thread, NEW r,
           thread' = [thread EXCEPT ![n][t] = r],
           NEW m \in Node, Requesting(m),
           \/ m # n \/ t = "worker"
           \/ thread[n][t].at \in {"idle", "check", "mark"}
           \/ r.at \in {"send", "wait", "slow", "next"}
    PROVE  Requesting(m)'
<1>1. PICK u \in Requester :
        thread[m][u].at \in {"send", "wait", "slow", "next"}
  BY DEF Requesting
<1>2. CASE m = n /\ u = t
  BY <1>1, <1>2, Threads DEF Requesting, ThreadsGood
<1>3. CASE ~ (m = n /\ u = t)
  <2>1. thread'[m][u] = thread[m][u]
    BY <1>3, Threads DEF ThreadsGood
  <2> QED BY <1>1, <2>1 DEF Requesting
<1> QED BY <1>2, <1>3

-------------------------------------------------------------------------------
(* What every step is shown to do: keep the invariant, and leave no mark    *)
(* except by a reply.                                                       *)
LeavesNone == \A m \in Node :
    Left(m)' /\ ~ Left(m) => thread[m]["worker"].fail = "PRESENTING"
Kept == IInv' /\ LeavesNone

(* A step of one thread that writes no mark.                                *)
LEMMA Unmarked ==
    ASSUME IInv, NEW n \in Node, NEW t \in Thread, NEW r, Good(t, r),
           thread' = [thread EXCEPT ![n][t] = r],
           \/ t = "worker"
           \/ thread[n][t].at \in {"idle", "check", "mark"}
           \/ r.at \in {"send", "wait", "slow", "next"},
           StateOK',
           \A m \in Node : state'[m] = "PRESENTING" => state[m] = "PRESENTING",
           NetOK'
    PROVE  Kept
<1>1. IInv'
  BY OneThread DEF IInv
<1>2. LeavesNone
  BY RequestStays DEF IInv, LeavesNone, Left
<1> QED BY <1>1, <1>2 DEF Kept

LEMMA Unwritten ==
    ASSUME IInv, NEW n \in Node, NEW t \in Thread, NEW r, Good(t, r),
           thread' = [thread EXCEPT ![n][t] = r],
           \/ t = "worker"
           \/ thread[n][t].at \in {"idle", "check", "mark"}
           \/ r.at \in {"send", "wait", "slow", "next"},
           state' = state, NetOK'
    PROVE  Kept
  BY Unmarked DEF IInv, StateOK

(* A step of one thread that writes the state: the mark only of a request   *)
(* that goes on, or as what a reply has read.                               *)
Writes(n, s) ==
    /\ StateOK' /\ state'[n] = s
    /\ \A m \in Node \ {n} :
        state'[m] = "PRESENTING" => state[m] = "PRESENTING"

LEMMA WritesOne ==
    ASSUME IInv, NEW n \in Node, NEW s \in PeerState,
           state' = [state EXCEPT ![n] = s]
    PROVE  Writes(n, s)
  BY DEF IInv, StateOK, Writes

LEMMA WritesBoth ==
    ASSUME IInv, NEW n \in Node, NEW t \in Thread, NEW s \in PeerState,
           Reaches(n, t, s)
    PROVE  Writes(n, s) /\ inbox' \in [Node -> SUBSET Kind]
<1>1. Message(t) \in Kind
  BY DEF Message, Kind
<1>2. "UNKNOWN" \in PeerState /\ "UNKNOWN" # "PRESENTING"
  BY DEF PeerState
<1> QED BY <1>1, <1>2, OtherNode DEF IInv, StateOK, NetOK, Reaches, Writes

LEMMA Written ==
    ASSUME IInv, NEW n \in Node, NEW t \in Thread, NEW r, Good(t, r),
           thread' = [thread EXCEPT ![n][t] = r],
           NEW s \in PeerState, Writes(n, s),
           s = "PRESENTING" =>
               \/ t # "worker" /\ r.at \in {"send", "wait", "slow", "next"}
               \/ t = "worker" /\ s = thread[n][t].fail,
           NetOK'
    PROVE  Kept
<1>1. IInv'
  BY OneThread DEF IInv, Writes
<1>2. ASSUME NEW m \in Node, Left(m)', ~ Left(m)
      PROVE  thread[m]["worker"].fail = "PRESENTING"
  <2>1. CASE m # n
    BY <1>2, <2>1, RequestStays DEF IInv, Writes, Left
  <2>2. CASE m = n
    <3>1. s = "PRESENTING" /\ ~ Requesting(n)'
      BY <1>2, <2>2 DEF Writes, Left
    <3>2. ~ (t # "worker" /\ r.at \in {"send", "wait", "slow", "next"})
      <4>1. thread'[n][t] = r
        BY DEF IInv, ThreadsGood
      <4> QED BY <3>1, <4>1, Threads DEF Requesting
    <3> QED BY <2>2, <3>1, <3>2
  <2> QED BY <2>1, <2>2
<1> QED BY <1>1, <1>2 DEF Kept, LeavesNone

-------------------------------------------------------------------------------
(* robusto_send_presentation, step by step.                                 *)
LEMMA ChecksKept ==
    ASSUME IInv, NEW n \in Node, Checks(n)
    PROVE  Kept
<1> DEFINE r == IF state[n] = "PRESENTING" THEN IdleThread
                ELSE [thread[n]["worker"] EXCEPT !.at = "mark"]
<1>1. Good("worker", r)
  BY Resting, Threads DEF IInv, ThreadsGood, Good, Checks, ThreadState, Place
<1>2. thread' = [thread EXCEPT ![n]["worker"] = r]
  BY DEF Checks, Leaves, Moves
<1> HIDE DEF r
<1>3. state' = state /\ NetOK'
  BY DEF Checks, IInv, NetOK
<1> QED BY <1>1, <1>2, <1>3, Threads, Unwritten

LEMMA MarksKept ==
    ASSUME IInv, NEW n \in Node, NEW t \in Thread, Marks(n, t)
    PROVE  Kept
<1>1. CASE t = "worker"
  <2> DEFINE r == [thread[n][t] EXCEPT !.at = "send", !.fail = state[n]]
  <2>1. Good(t, r)
    BY <1>1 DEF IInv, StateOK, ThreadsGood, Good, Marks, ThreadState, Place
  <2>2. thread' = [thread EXCEPT ![n][t] = r]
    BY <1>1 DEF Marks
  <2> QED BY <1>1, <2>1, <2>2, Unwritten DEF Marks, IInv, NetOK
<1>2. CASE t # "worker"
  <2> DEFINE r == [thread[n][t] EXCEPT !.at = "send"]
  <2>1. Good(t, r) /\ r.at = "send"
    BY DEF IInv, ThreadsGood, Good, Marks, ThreadState, Place
  <2>2. thread' = [thread EXCEPT ![n][t] = r]
    BY <1>2 DEF Marks, Moves
  <2>3. state' = [state EXCEPT ![n] = "PRESENTING"]
    BY <1>2 DEF Marks, Becomes
  <2>4. NetOK'
    BY DEF Marks, IInv, NetOK
  <2> HIDE DEF r
  <2> QED BY <1>2, <2>1, <2>2, <2>3, <2>4, Written, WritesOne DEF PeerState
<1> QED BY <1>1, <1>2

(* Whoever falls back writes UNKNOWN, or what a reply has read.             *)
LEMMA FallState ==
    ASSUME IInv, NEW n \in Node, NEW t \in Thread
    PROVE  /\ thread[n][t].fail \in PeerState
           /\ t # "worker" => thread[n][t].fail = "UNKNOWN"
  BY DEF IInv, ThreadsGood, ThreadState, Good

LEMMA FallingTo ==
    ASSUME IInv, NEW n \in Node, NEW t \in Thread, NetOK',
           Writes(n, thread[n][t].fail),
           NEW r, Good(t, r), thread' = [thread EXCEPT ![n][t] = r]
    PROVE  Kept
  BY FallState, Written

LEMMA FallingBack ==
    ASSUME IInv, NEW n \in Node, NEW t \in Thread, FallBack(n, t), NetOK',
           NEW r, Good(t, r), thread' = [thread EXCEPT ![n][t] = r]
    PROVE  Kept
<1>1. state' = [state EXCEPT ![n] = thread[n][t].fail]
  BY DEF FallBack, Becomes
<1> QED BY <1>1, FallState, WritesOne, FallingTo

LEMMA TriedIsGood ==
    ASSUME IInv, NEW n \in Node, NEW t \in Thread, thread[n][t].at = "send",
           NEW place \in {"wait", "next"}
    PROVE  Good(t, [thread[n][t] EXCEPT !.at = place,
                                        !.left = thread[n][t].left - 1])
<1>1. /\ thread[n][t] \in ThreadState /\ thread[n][t].left > 0
      /\ t # "worker" => thread[n][t].fail = "UNKNOWN"
  BY DEF IInv, ThreadsGood, Good
<1> DEFINE r == [thread[n][t] EXCEPT !.at = place,
                                     !.left = thread[n][t].left - 1]
<1>2. r.left \in 0..Tries
  BY <1>1, TriesType DEF ThreadState, IInv
<1>3. place \in Place /\ place \notin {"check", "mark", "send"}
  BY DEF Place
<1>4. r.fail = thread[n][t].fail /\ r.at = place
  BY <1>1 DEF ThreadState
<1>5. r \in ThreadState
  BY <1>1, <1>2, <1>3 DEF ThreadState
<1> QED BY <1>1, <1>3, <1>4, <1>5 DEF Good

(* A thread that has sent: a reply falls back, a request keeps the state.   *)
LEMMA SentKept ==
    ASSUME IInv, NEW n \in Node, NEW t \in Thread, Sent(n, t),
           Writes(n, Own(n, t)), NetOK'
    PROVE  Kept
<1> DEFINE r(place) ==
        [thread[n][t] EXCEPT !.at = place, !.left = thread[n][t].left - 1]
<1>1. Good(t, r("wait")) /\ Good(t, r("next"))
  BY TriedIsGood DEF Sent
<1>2. CASE t = "worker"
  <2>1. thread' = [thread EXCEPT ![n][t] = r("next")]
    BY <1>2 DEF Sent, Tried
  <2>2. Own(n, t) = thread[n][t].fail
    BY <1>2 DEF Own
  <2> HIDE DEF r
  <2> QED BY <1>1, <2>1, <2>2, FallingTo
<1>3. CASE t # "worker"
  <2>1. thread' = [thread EXCEPT ![n][t] = r("wait")]
    BY <1>3 DEF Sent, Tried
  <2>2. r("wait").at = "wait"
    BY DEF IInv, ThreadsGood, ThreadState
  <2>3. Own(n, t) = state[n]
    BY <1>3 DEF Own
  <2>4. /\ StateOK'
        /\ \A m \in Node : state'[m] = "PRESENTING" => state[m] = "PRESENTING"
    BY <2>3 DEF Writes
  <2> HIDE DEF r
  <2> QED BY <1>1, <2>1, <2>2, <2>4, Unmarked
<1> QED BY <1>2, <1>3

LEMMA OwnState ==
    ASSUME IInv, NEW n \in Node, NEW t \in Thread
    PROVE  Own(n, t) \in PeerState
  BY FallState DEF Own, IInv, StateOK

LEMMA SendPassesKept ==
    ASSUME IInv, NEW n \in Node, NEW t \in Thread, SendPasses(n, t)
    PROVE  Kept
<1>1. Writes(n, Own(n, t)) /\ inbox' \in [Node -> SUBSET Kind]
  BY OwnState, WritesBoth DEF SendPasses
<1>2. NetOK'
  BY <1>1 DEF SendPasses, IInv, NetOK
<1> QED BY <1>1, <1>2, SentKept DEF SendPasses

LEMMA LosesKept ==
    ASSUME IInv, NEW n \in Node, NEW t \in Thread, Loses(n, t)
    PROVE  Kept
<1>1. Writes(n, Own(n, t))
  BY OwnState, WritesOne DEF Loses, Becomes
<1>2. NetOK'
  BY TriesType DEF Loses, Fault, IInv, NetOK
<1> QED BY <1>1, <1>2, SentKept DEF Loses

LEMMA SendFailsKept ==
    ASSUME IInv, NEW n \in Node, NEW t \in Thread,
           NEW why \in {"refused", "failed", "late"}, SendFails(n, t, why)
    PROVE  Kept
<1> DEFINE r == [thread[n][t] EXCEPT !.at = "next",
                                     !.left = thread[n][t].left - 1]
<1>1. Good(t, r)
  BY TriedIsGood DEF SendFails
<1>2. thread' = [thread EXCEPT ![n][t] = r]
  BY DEF SendFails, Tried
<1>3. faults' \in 0..MaxFaults
  BY TriesType DEF SendFails, Fault, IInv, NetOK
<1>4. r.at = "next"
  BY DEF IInv, ThreadsGood, ThreadState
<1> HIDE DEF r
<1>5. CASE why = "late"
  <2>1. Reaches(n, t, thread[n][t].fail)
    BY <1>5 DEF SendFails
  <2>2. Writes(n, thread[n][t].fail) /\ inbox' \in [Node -> SUBSET Kind]
    BY <2>1, FallState, WritesBoth
  <2> QED BY <1>1, <1>2, <1>3, <2>2, FallingTo DEF NetOK
<1>6. CASE why # "late"
  <2>1. inbox' = inbox /\ (state' = state \/ FallBack(n, t))
    BY <1>6 DEF SendFails
  <2>2. NetOK'
    BY <1>3, <2>1 DEF IInv, NetOK
  <2> QED BY <1>1, <1>2, <1>4, <2>1, <2>2, FallingBack, Unwritten
<1> QED BY <1>5, <1>6

LEMMA AnsweredKept ==
    ASSUME IInv, NEW n \in Node, NEW t \in Thread, Answered(n, t)
    PROVE  Kept
<1>1. Good(t, IdleThread) /\ thread' = [thread EXCEPT ![n][t] = IdleThread]
  BY Resting DEF Good, IInv, Answered, Leaves
<1>2. state' = [state EXCEPT ![n] = "KNOWN"] /\ NetOK'
  BY DEF Answered, IInv, StateOK, NetOK
<1> QED BY <1>1, <1>2, Written, WritesOne DEF PeerState

LEMMA GivesUpKept ==
    ASSUME IInv, NEW n \in Node, NEW t \in Thread, GivesUp(n, t)
    PROVE  Kept
<1> DEFINE r == [thread[n][t] EXCEPT !.at = "slow"]
<1>1. Good(t, r) /\ r.at = "slow"
  BY DEF IInv, ThreadsGood, Good, ThreadState, Place
<1>2. thread' = [thread EXCEPT ![n][t] = r] /\ state' = state
  BY DEF GivesUp, Moves
<1>3. NetOK'
  BY TriesType DEF GivesUp, Fault, IInv, NetOK
<1> HIDE DEF r
<1> QED BY <1>1, <1>2, <1>3, Unwritten

LEMMA FallsBackKept ==
    ASSUME IInv, NEW n \in Node, NEW t \in Thread, FallsBack(n, t)
    PROVE  Kept
<1> DEFINE r == [thread[n][t] EXCEPT !.at = "next"]
<1>1. Good(t, r)
  BY DEF IInv, ThreadsGood, Good, ThreadState, Place
<1>2. thread' = [thread EXCEPT ![n][t] = r] /\ FallBack(n, t) /\ NetOK'
  BY DEF FallsBack, Moves, IInv, NetOK
<1> HIDE DEF r
<1> QED BY <1>1, <1>2, FallingBack

LEMMA GoesOnKept ==
    ASSUME IInv, NEW n \in Node, NEW t \in Thread, GoesOn(n, t)
    PROVE  Kept
<1> DEFINE r == [thread[n][t] EXCEPT !.at = "send"]
<1>1. Good(t, r) /\ r.at = "send"
  BY DEF GoesOn, IInv, ThreadsGood, Good, ThreadState, Place
<1>2. thread' = [thread EXCEPT ![n][t] = r] /\ state' = state /\ NetOK'
  BY DEF GoesOn, Moves, IInv, NetOK
<1> HIDE DEF r
<1> QED BY <1>1, <1>2, Unwritten

LEMMA EndsKept ==
    ASSUME IInv, NEW n \in Node, NEW t \in Thread, Ends(n, t)
    PROVE  Kept
<1>1. Good(t, IdleThread) /\ thread' = [thread EXCEPT ![n][t] = IdleThread] /\ NetOK'
  BY Resting DEF Good, Ends, Leaves, IInv, NetOK
<1>2. CASE Unsettled(n)
  BY <1>1, <1>2, FallingBack DEF Ends
<1>3. CASE ~ Unsettled(n)
  <2>1. state[n] \in PeerState /\ state[n] # "PRESENTING"
    BY <1>3 DEF Unsettled, IInv, StateOK
  <2>2. state' = [state EXCEPT ![n] = state[n]]
    BY <1>3 DEF Ends, IInv, StateOK
  <2> QED BY <1>1, <2>1, <2>2, Written, WritesOne
<1> QED BY <1>2, <1>3

-------------------------------------------------------------------------------
(* The steps outside robusto_send_presentation.                             *)
LEMMA HandleKept ==
    ASSUME IInv, NEW n \in Node, NEW k \in Kind, Handle(n, k)
    PROVE  Kept
<1> DEFINE r == IF k = "HI" THEN Replying ELSE thread[n]["worker"]
<1>1. Good("worker", r)
  BY Starting, Threads DEF Good, IInv, ThreadsGood
<1>2. thread' = [thread EXCEPT ![n]["worker"] = r]
  BY Threads DEF Handle, IInv, ThreadsGood
<1>3. state' = [state EXCEPT ![n] = "KNOWN"] /\ NetOK'
  BY DEF Handle, Becomes, IInv, NetOK
<1> HIDE DEF r
<1> QED BY <1>1, <1>2, <1>3, Threads, Written, WritesOne DEF PeerState

(* A thread that was idle starts a presentation.                            *)
LEMMA StartKept ==
    ASSUME IInv, NEW n \in Node, NEW t \in Requester, thread[n][t].at = "idle",
           thread' = [thread EXCEPT ![n][t] = Asking(1)], state' = state, NetOK'
    PROVE  Kept
<1>1. Good(t, Asking(1))
  BY StartingMarked, OneTry DEF Good, IInv
<1> QED BY <1>1, Threads, Unwritten

LEMMA FindsUnknownKept ==
    ASSUME IInv, NEW n \in Node, FindsUnknown(n)
    PROVE  Kept
  BY Threads, StartKept DEF FindsUnknown, IInv, NetOK

LEMMA ForsakenKept ==
    ASSUME IInv, NEW n \in Node, Recovers(n) \/ RecoversInVain(n)
    PROVE  Kept
<1>1. NetOK'
  BY TriesType DEF Recovers, RecoversInVain, Forsaken, Fault, IInv, NetOK
<1> QED BY <1>1, Threads, StartKept DEF Recovers, RecoversInVain, Forsaken

LEMMA StartsGood ==
    ASSUME NEW start
    PROVE  /\ ThreadsAt(start) \in [Thread -> ThreadState]
           /\ \A t \in Thread : Good(t, ThreadsAt(start)[t])
           /\ StateAt(start) \in PeerState \ {"PRESENTING"}
<1>1. \A t \in Thread : Good(t, ThreadsAt(start)[t])
  BY StartingMarked, OneTry, Resting DEF ThreadsAt, Good
<1>2. ThreadsAt(start) \in [Thread -> ThreadState]
  BY <1>1 DEF Good, ThreadsAt
<1> QED BY <1>1, <1>2 DEF StateAt, PeerState

LEMMA RestartsKept ==
    ASSUME IInv, NEW n \in Node, NEW start, Restarts(n, start)
    PROVE  Kept
<1>1. StateOK'
  BY StartsGood DEF IInv, StateOK, Restarts, Becomes
<1>2. ThreadsGood'
  BY StartsGood DEF IInv, ThreadsGood, Restarts
<1>3. NetOK'
  BY TriesType DEF IInv, NetOK, Restarts, Fault
<1>4. ASSUME NEW m \in Node, Left(m)' PROVE Left(m)
  <2>1. m # n
    BY <1>4, StartsGood DEF Left, IInv, StateOK, Restarts, Becomes
  <2>2. state'[m] = state[m] /\ thread'[m] = thread[m]
    BY <2>1 DEF IInv, StateOK, ThreadsGood, Restarts, Becomes
  <2>3. Requesting(m)' <=> Requesting(m)
    BY <2>2 DEF Requesting
  <2> QED BY <1>4, <2>2, <2>3 DEF Left
<1> QED BY <1>1, <1>2, <1>3, <1>4 DEF Kept, LeavesNone, IInv

-------------------------------------------------------------------------------
LEMMA InitInv == PresentationInit => IInv
<1> SUFFICES ASSUME PresentationInit PROVE IInv
  OBVIOUS
<1>1. PICK start \in [Node -> {"alone", "recovered", "app"}] :
        /\ state = [n \in Node |-> StateAt(start[n])]
        /\ thread = [n \in Node |-> ThreadsAt(start[n])]
  BY DEF PresentationInit
<1>2. StateOK /\ ThreadsGood
  BY <1>1, StartsGood DEF StateOK, ThreadsGood
<1> QED BY <1>2, TriesType DEF PresentationInit, IInv, NetOK

LEMMA StepKept == IInv /\ PresentationNext => Kept
<1> SUFFICES ASSUME IInv, PresentationNext PROVE Kept
  OBVIOUS
<1>1. PICK n \in Node :
        \/ \E t \in Thread :
            \/ Presents(n, t) \/ Loses(n, t)
            \/ \E why \in {"refused", "failed", "late"} : SendFails(n, t, why)
        \/ Checks(n) \/ \E k \in Kind : Handle(n, k)
        \/ FindsUnknown(n) \/ Recovers(n) \/ RecoversInVain(n)
        \/ \E start \in Start(n) : Restarts(n, start)
  BY DEF PresentationNext
<1>2. ASSUME NEW t \in Thread, Presents(n, t) PROVE Kept
  BY <1>2, MarksKept, SendPassesKept, AnsweredKept, GivesUpKept,
     FallsBackKept, GoesOnKept, EndsKept DEF Presents
<1> QED
  BY <1>1, <1>2, ChecksKept, HandleKept, LosesKept, SendFailsKept,
     FindsUnknownKept, ForsakenKept, RestartsKept

LEMMA StutterKept == IInv /\ UNCHANGED presentationVars => Kept
  BY DEF IInv, StateOK, ThreadsGood, NetOK, presentationVars, Kept, LeavesNone, Left,
         Requesting

LEMMA Typed == IInv => PresentationTypeOK
<1>1. ThreadsGood => thread \in [Node -> [Thread -> ThreadState]]
  BY DEF ThreadsGood
<1> QED BY <1>1 DEF IInv, StateOK, NetOK, PresentationTypeOK, ThreadState

(* The types of the presentation module hold in every reachable state       *)
(* (robusto_presentation.c), for any number of media and faults.            *)
THEOREM PresentationTypeCorrect ==
    PresentationSpec => []PresentationTypeOK
<1>1. IInv /\ [PresentationNext]_presentationVars => IInv'
  BY StepKept, StutterKept DEF Kept
<1> QED BY <1>1, InitInv, Typed, PTL DEF PresentationSpec

(* A request takes its mark with it, and only a reply that writes back what *)
(* it read leaves a peer marked as presenting (robusto_send_presentation).  *)
THEOREM MarksAreOfReplies ==
    PresentationSpec => OnlyRepliesLeaveMarks
<1>1. IInv /\ [PresentationNext]_presentationVars => IInv'
  BY StepKept, StutterKept DEF Kept
<1>2. IInv /\ [PresentationNext]_presentationVars => [ \A n \in Node :
        Left(n)' /\ ~ Left(n) => thread[n]["worker"].fail = "PRESENTING" ]_presentationVars
  BY StepKept DEF Kept, LeavesNone
<1> QED BY <1>1, <1>2, InitInv, PTL DEF PresentationSpec, OnlyRepliesLeaveMarks

=============================================================================
