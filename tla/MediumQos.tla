------------------------------ MODULE MediumQos ------------------------------
(***************************************************************************)
(* Quality of service of one medium between two nodes (network/src/qos).   *)
(*                                                                         *)
(* Each node keeps, for the other, the state of the medium and when it     *)
(* last sent, last received, and was last told that the other had heard    *)
(* it.  Its repeater calls two functions in turn: the monitor, which       *)
(* compares these instants with the clock and changes the state, and the   *)
(* heartbeat, which tells the other node how long ago it was heard.  A     *)
(* medium that has had a problem for too long gets a recovery task of its  *)
(* own, which presents the node again or sends a heartbeat.                *)
(*                                                                         *)
(* Instants are kept as ages in periods of HEARTBEAT_DELAY: Tick makes     *)
(* them one older, writing the clock to one makes its age 0.  In a period  *)
(* every repeater gets to run both of its functions; the monitor may run   *)
(* more often, as its skip count is a tenth of that of the heartbeat.  The *)
(* faults are that the links change, that a task cannot be created, and    *)
(* that a large message postpones QoS.                                     *)
(***************************************************************************)
EXTENDS TwoNodes

CONSTANTS
  Limit,         \* HEARD_FROM_LIMIT in periods (6 in the code)
  FieldMax,      \* the longest silence that the field of a heartbeat can tell,
                 \* in periods (UINT16_MAX milliseconds)
  Links          \* ways in which the two links can be, as what becomes of what
                 \* each node transmits

ASSUME LimitAssumption == Limit \in Nat \ {0}
ASSUME FieldAssumption == FieldMax \in Nat /\ FieldMax > Limit + 1
ASSUME LinkAssumption == Links \subseteq [Node -> {"up", "lost", "fails"}]

VARIABLES
  medium,    \* of each node: the robusto_media_t it keeps for the other node
  peer,      \* of each node: the state of the other node, peer->state
  repeater,  \* of each node: what its repeater task is doing
  due,       \* of each node: what the repeater has still to run in the period
  task,      \* of each node: what its recovery task is doing
  link,      \* of each node: what becomes of what it transmits
  silent     \* of each node: periods since it really heard from the other or
             \* was made patient by a large message

vars == <<medium, peer, repeater, due, task, link, faults,
          silent>>

\* Ages beyond what any comparison tells apart are not distinguished.
Old == Limit + 2
Oldest == FieldMax + 1
\* last_peer_receive doubles as a counter: LAST_PEER_RECEIVED_LIFESPAN and 0.
Once  == Old + 1
Never == Old + 2

States == {"working", "problem", "recovering", "initiating"}
Problems == {"none", "cannot_reach", "silence", "send_problem", "unknown"}

AllUp == [n \in Node |-> "up"]

Medium == [state : States, problem : Problems, postpone : BOOLEAN,
           change : 0 .. Old, sent : 0 .. Old, received : 0 .. Oldest,
           heard : 0 .. Never]

TypeOK ==
  /\ medium \in [Node -> Medium]
  /\ peer \in [Node -> {"unknown", "presenting", "known"}]
  /\ repeater \in [Node -> {"idle", "presenting", "late"}]
  /\ due \in [Node -> SUBSET {"monitor", "heartbeat"}]
  /\ task \in [Node -> {"none", "start", "presenting", "late", "beat"}]
  /\ link \in Links \cup {AllUp}
  /\ faults \in 0 .. MaxFaults
  /\ silent \in [Node -> 0 .. Oldest]

(***************************************************************************)
(* A peer that has just been added, by peer_stat_reset and the init_peer   *)
(* of the medium, and is not known yet.                                    *)
(***************************************************************************)
Added == [state |-> "initiating", problem |-> "none", postpone |-> FALSE,
          change |-> 0, sent |-> 0, received |-> 0, heard |-> 0]

Init ==
  /\ medium = [n \in Node |-> Added]
  /\ peer = [n \in Node |-> "unknown"]
  /\ repeater = [n \in Node |-> "idle"]
  /\ due = [n \in Node |-> {"monitor", "heartbeat"}]
  /\ task = [n \in Node |-> "none"]
  /\ link = AllUp
  /\ faults = 0
  /\ silent = [n \in Node |-> 0]

-----------------------------------------------------------------------------
(* What the functions do to the record of the medium.                      *)

SetState(m, state, problem) ==
  IF m.state = state /\ m.problem = problem
  THEN m
  ELSE [m EXCEPT !.state = state, !.problem = problem, !.change = 0]

Works(m) == SetState(m, "working", "none")

\* An instant that lies before last_heartbeat_time - HEARD_FROM_LIMIT.
TooOld(age) == age > Limit + 1

\* check_peer: postponed checks of a working medium begin anew.
Patient(m) == m.postpone /\ m.state = "working"
Resumed(m) ==
  [(IF Patient(m)
    THEN [m EXCEPT !.sent = 0, !.received = 0, !.heard = 0]
    ELSE m) EXCEPT !.postpone = FALSE]

\* check_media: has what the problem was about happened since the change?
\* Of two instants in one period either can be the later: tie says which.
Resolved(m, tie) ==
  LET Since(age) == age < m.change \/ (age = m.change /\ tie)
  IN  CASE m.problem = "send_problem" -> Since(m.sent)
        [] m.problem = "silence" -> Since(m.received)
        [] m.problem = "cannot_reach" -> Since(m.heard)
        [] OTHER -> TRUE

CheckMedia(m, known, tie) ==
  IF TooOld(m.sent) THEN
    IF m.problem = "send_problem" THEN m
    ELSE SetState(m, "problem", "send_problem")
  ELSE IF TooOld(m.received) THEN
    IF m.problem = "silence" THEN m
    ELSE SetState(m, "problem", "silence")
  ELSE IF TooOld(m.heard) /\ m.heard # Never THEN
    IF m.problem = "cannot_reach" THEN m
    ELSE SetState([m EXCEPT !.heard = IF @ = Once THEN Never ELSE Once],
                  "problem", "cannot_reach")
  ELSE IF m.state \in {"problem", "initiating"} /\ known /\ Resolved(m, tie)
  THEN Works(m)
  ELSE m

\* transition_state and the action of the state that it leads to.
Transition(m, known, tie) ==
  IF m.state = "recovering" THEN m ELSE CheckMedia(m, known, tie)

TooLong(m) == m.state = "problem" /\ m.change >= 2

\* The state actions.  That problem_state checks a problem of the last period
\* once more changes nothing.
\* Mutant: recovery is left without news.
StateActionBlind(m) ==
  IF TooLong(m) THEN SetState(m, "recovering", m.problem)
  ELSE IF m.state = "recovering" THEN Works(m) ELSE m

StateAction(m) ==
  IF TooLong(m) THEN SetState(m, "recovering", m.problem)
  ELSE IF m.state = "recovering" /\ ~TooOld(m.heard) THEN Works(m)
  ELSE m

-----------------------------------------------------------------------------
(* What arrives.                                                           *)

Deka(age) == IF age > FieldMax THEN Oldest ELSE age

\* Mutant: a heartbeat counts as being heard, whatever it says.
ParsedFresh(field) == 0

\* The receiver of a heartbeat computes when it was heard.
Parsed(field) == IF TooOld(field) THEN Old ELSE field

Arrives(n) == link[n] = "up"

\* send_heartbeat_message, as the record of the sender and that of the
\* receiver are left.
HeartbeatBy(n, m) ==
  LET o == Other(n)
      sender == IF link[n] = "fails" THEN m ELSE [m EXCEPT !.sent = 0]
      receiver == [medium[o] EXCEPT !.received = 0,
                                    !.heard = Parsed(Deka(m.received))]
  IN  /\ medium' = [medium EXCEPT ![n] = sender,
                                  ![o] = IF Arrives(n) THEN receiver ELSE @]
      /\ silent' = IF Arrives(n) THEN [silent EXCEPT ![o] = 0] ELSE silent

-----------------------------------------------------------------------------
(* Presentations: the medium sees who gets to know whom.                   *)

\* robusto_handle_presentation.
Presented(m) == Works([m EXCEPT !.received = 0])

\* The end of robusto_send_presentation by n.  It succeeds if the other node
\* gets the presentation and its reply arrives, or if a presentation of the
\* other node has made it known meanwhile.
Success(n) == (Arrives(n) /\ Arrives(Other(n))) \/ peer[n] = "known"

\* A presentation that could not be sent at all is a send problem.
PresentedBy(n, m) ==
  LET o == Other(n)
      replied == Arrives(n) /\ Arrives(o)
      sent == IF link[n] = "fails" THEN m ELSE [m EXCEPT !.sent = 0]
  IN  IF replied THEN Presented(sent)
      ELSE IF link[n] = "fails" /\ sent.state = "working" /\ ~Success(n)
      THEN SetState(sent, "problem", "send_problem")
      ELSE sent

\* What the presentation leaves behind; m is the record of n after it.
PresentationEnds(n, m) ==
  LET o == Other(n)
      reached == Arrives(n)
      replied == reached /\ Arrives(o)
  IN  /\ medium' = [medium EXCEPT ![n] = m,
                      ![o] = IF reached
                             THEN Presented(IF link[o] = "fails" THEN @
                                            ELSE [@ EXCEPT !.sent = 0])
                             ELSE @]
      /\ peer' = [peer EXCEPT ![n] = IF Success(n) THEN "known" ELSE "unknown",
                              ![o] = IF reached THEN "known" ELSE @]
      /\ silent' = [silent EXCEPT ![n] = IF replied THEN 0 ELSE @,
                                  ![o] = IF reached THEN 0 ELSE @]

-----------------------------------------------------------------------------
(* The repeater: qos_state_cb and heartbeat_cb for the one peer.           *)

Idle(n) == repeater[n] = "idle"
Ran(n, what) == due' = [due EXCEPT ![n] = @ \ {what}]

\* No checks during a presentation.
MonitorSkips(n) ==
  /\ Idle(n)
  /\ "monitor" \in due[n]
  /\ peer[n] = "presenting"
  /\ Ran(n, "monitor")
  /\ UNCHANGED <<medium, peer, repeater, task, link, faults,
                 silent>>

\* check_peer.  A medium that enters recovery gets a task, unless it cannot be
\* created; an unknown peer is presented to, and the repeater waits for that.
Monitor(n) ==
  /\ Idle(n)
  /\ "monitor" \in due[n]
  /\ peer[n] # "presenting"
  /\ \E tie, created \in BOOLEAN :
       LET checked == Transition(Resumed(medium[n]), peer[n] = "known", tie)
       IN  /\ medium' = [medium EXCEPT ![n] = StateAction(checked)]
           /\ IF TooLong(checked)
              THEN IF created
                   THEN /\ task' = [task EXCEPT ![n] = "start"]
                        /\ UNCHANGED faults
                   ELSE /\ faults < MaxFaults
                        /\ faults' = faults + 1
                        /\ UNCHANGED task
              ELSE created /\ UNCHANGED <<task, faults>>
  /\ IF peer[n] = "unknown"
     THEN /\ peer' = [peer EXCEPT ![n] = "presenting"]
          /\ repeater' = [repeater EXCEPT ![n] = "presenting"]
     ELSE UNCHANGED <<peer, repeater>>
  /\ silent' = [silent EXCEPT ![n] = IF Patient(medium[n]) THEN 0 ELSE @]
  /\ Ran(n, "monitor")
  /\ UNCHANGED link

\* The presentation of any_state has come to its end.
MonitorPresented(n) ==
  /\ repeater[n] \in {"presenting", "late"}
  /\ PresentationEnds(n, PresentedBy(n, medium[n]))
  /\ repeater' = [repeater EXCEPT ![n] = "idle"]
  /\ UNCHANGED <<due, task, link, faults>>

\* Mutant: no heartbeats over a medium with a problem.
HeartbeatIfFine(n) ==
  /\ Idle(n)
  /\ "heartbeat" \in due[n]
  /\ IF peer[n] = "presenting" \/ medium[n].postpone
        \/ medium[n].state = "problem"
     THEN UNCHANGED <<medium, silent>>
     ELSE HeartbeatBy(n, medium[n])
  /\ Ran(n, "heartbeat")
  /\ UNCHANGED <<peer, repeater, task, link, faults>>

\* heartbeat_cb.  Nothing but the mock medium writes last_sent_heartbeat, so
\* that a heartbeat is due whenever this runs.
Heartbeat(n) ==
  /\ Idle(n)
  /\ "heartbeat" \in due[n]
  /\ IF peer[n] = "presenting" \/ medium[n].postpone
     THEN UNCHANGED <<medium, silent>>
     ELSE HeartbeatBy(n, medium[n])
  /\ Ran(n, "heartbeat")
  /\ UNCHANGED <<peer, repeater, task, link, faults>>

-----------------------------------------------------------------------------
(* The recovery task (task_recover).                                       *)

\* It presents only if every medium to that peer has a problem, which the
\* state of the other media decides.
TaskStarts(n) ==
  /\ task[n] = "start"
  /\ \E all \in BOOLEAN :
       LET known == peer[n] = "known"
           m == SetState([medium[n] EXCEPT !.postpone = ~known \/ all],
                         "recovering", "unknown")
       IN  /\ known \/ all
           /\ medium' = [medium EXCEPT ![n] = m]
           /\ task' = [task EXCEPT ![n] = IF ~known THEN "none"
                                          ELSE IF all THEN "presenting"
                                          ELSE "beat"]
           /\ peer' = IF known /\ all THEN [peer EXCEPT ![n] = "presenting"]
                      ELSE peer
  /\ UNCHANGED <<repeater, due, link, faults, silent>>

TaskPresented(n) ==
  /\ task[n] \in {"presenting", "late"}
  /\ LET sent == PresentedBy(n, [medium[n] EXCEPT !.postpone = FALSE])
     IN  PresentationEnds(n, IF Success(n) THEN Works(sent)
                             ELSE SetState(sent, "problem", "unknown"))
  /\ task' = [task EXCEPT ![n] = IF Success(n) THEN "none" ELSE "beat"]
  /\ UNCHANGED <<repeater, due, link, faults>>

TaskBeats(n) ==
  /\ task[n] = "beat"
  /\ IF medium[n].postpone THEN UNCHANGED <<medium, silent>>
     ELSE HeartbeatBy(n, medium[n])
  /\ task' = [task EXCEPT ![n] = "none"]
  /\ UNCHANGED <<peer, repeater, due, link, faults>>

-----------------------------------------------------------------------------
(* The rest of the node and the world.                                     *)

\* Sending or handling a fragment of a large message.
Postpones(n) ==
  /\ ~medium[n].postpone
  /\ faults < MaxFaults
  /\ faults' = faults + 1
  /\ medium' = [medium EXCEPT ![n].postpone = TRUE]
  /\ UNCHANGED <<peer, repeater, due, task, link, silent>>

Aged(age, last) == IF age \in 0 .. last - 1 THEN age + 1 ELSE age

\* Between two periods the links may break or be restored, both at once.
LinksChange ==
  \/ UNCHANGED <<link, faults>>
  \/ /\ faults < MaxFaults
     /\ faults' = faults + 1
     /\ link' \in Links \ {link}

\* A period passes.  A presentation may take longer than what is left of the
\* period it was begun in, but not longer than another one.
Waits(status) == IF status = "presenting" THEN "late" ELSE status
Tick ==
  /\ \A n \in Node : /\ repeater[n] = "presenting" \/ (Idle(n) /\ due[n] = {})
                     /\ task[n] \in {"none", "presenting"}
  /\ medium' = [n \in Node |->
       [medium[n] EXCEPT !.change = Aged(@, Old), !.sent = Aged(@, Old),
                         !.received = Aged(@, Oldest), !.heard = Aged(@, Old)]]
  /\ repeater' = [n \in Node |-> Waits(repeater[n])]
  /\ task' = [n \in Node |-> Waits(task[n])]
  /\ due' = [n \in Node |-> {"monitor", "heartbeat"}]
  /\ silent' = [n \in Node |-> Aged(silent[n], Oldest)]
  /\ LinksChange
  /\ UNCHANGED peer

Next ==
  \/ \E n \in Node :
       \/ MonitorSkips(n) \/ Monitor(n) \/ MonitorPresented(n) \/ Heartbeat(n)
       \/ TaskStarts(n) \/ TaskPresented(n) \/ TaskBeats(n)
       \/ Postpones(n)
  \/ Tick

Spec == Init /\ [][Next]_vars

\* The repeater and the recovery task are tasks of the scheduler, and time
\* goes on.  The heartbeat is counted down by the passes of the repeater,
\* however long the monitor takes in each, so that a node that presents again
\* and again still gets to its heartbeats: strong fairness.
FairSpec ==
  /\ Spec
  /\ WF_vars(Tick)
  /\ \A n \in Node :
       /\ WF_vars(MonitorSkips(n) \/ Monitor(n) \/ MonitorPresented(n))
       /\ SF_vars(Heartbeat(n))
       /\ WF_vars(TaskStarts(n) \/ TaskPresented(n) \/ TaskBeats(n))

-----------------------------------------------------------------------------
\* A node that hears nothing from the other does not go on believing that the
\* medium works: check_media notices within HEARD_FROM_LIMIT, and neither a
\* recovery, nor a presentation, nor a heartbeat of its own takes that back.
SilenceIsNoticed ==
  \A n \in Node : silent[n] > Limit + 2
                   => medium[n].state # "working"

\* Nor does a node that the other no longer hears, although it hears the
\* other: its heartbeats say so.  A presentation of the other node, which gets no
\* reply, makes the medium work again, and last_peer_receive, counted down to
\* zero, hides the problem until the next heartbeat; but it always comes back.
DeafnessIsNoticed ==
  \A n \in Node : <>[](link[n] # "up")
                   => []<>(medium[n].state # "working")

\* When the links work again, so do both media, for good, whatever state the
\* loss and the recovery have left them in.
Heals ==
  <>[](link = AllUp)
    => <>[](\A n \in Node : medium[n].state = "working")

=============================================================================
