---------------------------- MODULE ConductorServer ----------------------------
(***************************************************************************)
(* The server of the conductor (conductor/src) and its deep sleep          *)
(* (base/src/sleep): it is awake for a while in every cycle, and tasks     *)
(* that have not finished ask it to stay awake longer.  Nothing keeps a    *)
(* task that asks, another one and the waiting server from taking steps in *)
(* between: the times they share have no lock.                             *)
(*                                                                         *)
(* Time is discrete.  clock is r_millis(): it starts at 0 when the         *)
(* processor wakes, and a negative value is the time left to sleep.  What  *)
(* has to happen at an instant happens before the time goes on.            *)
(***************************************************************************)
EXTENDS Integers, TLC

CONSTANTS
  Width,         \* the range of uint32_t
  CycleTime, AwakeTime,    \* CONFIG_ROBUSTO_CONDUCTOR_SERVER_
  Askers,        \* tasks of the server that may ask for time
  Asks,          \* for how long they ask
  TakenBy        \* bound: the application gives control to the server by then

Timebox == AwakeTime * 2

\* robusto_conductor.h refuses a cycle that is shorter than the timebox.
ASSUME ServerAssumption ==
  /\ {Width, CycleTime, AwakeTime} \subseteq Nat \ {0}
  /\ Timebox <= CycleTime /\ CycleTime < Width
  /\ TakenBy \in 1 .. Timebox

\* A task does not ask for so much (49 days) that the comparison with the
\* timebox wraps around.
ASSUME AskAssumption ==
  Asks \subseteq Nat /\ \A ask \in Asks : 2 * Timebox + ask < Width

VARIABLES
  clock, phase,                \* the clock of the server, where it is
  lastSleep, lastDuration,     \* kept in RTC memory over the sleep
  nextTime,                    \* when it is to wake up next
  started, wait, requested,    \* wait_for_sleep_started, wait_time, requested_time
  asker,                       \* where each task is in ask_for_time
  promised,                    \* until when tasks were told that it is awake
  raced,                       \* how requests of this cycle went wrong
  overran                      \* the timebox limit was reached in this cycle

sleep == <<lastSleep, lastDuration>>
waiting == <<started, wait, requested>>
asking == <<asker, promised, raced>>
server == <<clock, phase, sleep, nextTime, waiting, asking, overran>>

Wrap(n) == n % Width

(* What a task that asks remembers.  It reckons with the wait during which  *)
(* it has read the time: none if there was none, one that is on or over, or *)
(* one that is on and for which another has been granted more since it has  *)
(* compared.                                                                *)
Idle == [at |-> "idle", ask |-> 0, left |-> 0, until |-> 0, reckons |-> "none"]

Asker == [at : {"idle", "tests", "grants"}, ask : Asks \cup {0},
          left : 0 .. Width - 1, until : Nat,
          reckons : {"none", "on", "crossed", "over"}]

TypeOK ==
  /\ clock \in -Width .. Timebox
  /\ phase \in {"asleep", "up", "waiting", "extending", "entering", "leaving"}
  /\ {lastSleep, lastDuration, nextTime, started, wait, requested}
       \subseteq 0 .. Width - 1
  /\ asker \in [Askers -> Asker]
  /\ promised \in Nat
  /\ raced \subseteq {"early", "stale", "overwritten"}
  /\ overran \in BOOLEAN

Init ==
  /\ clock = 0 /\ phase = "asleep"
  /\ lastSleep = 0 /\ lastDuration = 0 /\ nextTime = 0
  /\ started = 0 /\ wait = 0 /\ requested = 0
  /\ asker = [a \in Askers |-> Idle]
  /\ promised = 0 /\ raced = {} /\ overran = FALSE

-----------------------------------------------------------------------------
(* The cycle.                                                              *)

\* robusto_sleep_get_time_since_start
SinceStart == IF lastSleep > 0 THEN Wrap(lastSleep + lastDuration + clock)
                               ELSE clock

\* robusto_conductor_server_init calculates the next time.
Wake ==
  /\ phase = "asleep"
  /\ clock = 0
  /\ phase' = "up"
  /\ nextTime' = Wrap(SinceStart + CycleTime - clock)
  /\ UNCHANGED <<clock, sleep, waiting, asking, overran>>

Up == phase # "asleep" /\ clock > 0

\* robusto_conductor_server_take_control
TakeControl ==
  /\ Up
  /\ phase = "up"
  /\ phase' = "entering"
  /\ wait' = IF AwakeTime > clock THEN AwakeTime - clock ELSE 0
  /\ UNCHANGED <<clock, sleep, nextTime, started, requested, asking, overran>>

\* The head of its loop.  A wait that does not fit into the timebox ends it.
Waits ==
  /\ phase = "entering"
  /\ IF clock + wait > Timebox
     THEN phase' = "leaving" /\ overran' = TRUE /\ UNCHANGED started
     ELSE phase' = "waiting" /\ started' = clock /\ UNCHANGED overran
  /\ UNCHANGED <<clock, sleep, nextTime, wait, requested, asking>>

\* What was read during the wait is of no use from now on.
Outdated == [a \in Askers |->
  IF asker[a].reckons = "none" THEN asker[a]
  ELSE [asker[a] EXCEPT !.reckons = "over"]]

WaitEnds ==
  /\ phase = "waiting"
  /\ clock = started + wait
  /\ IF requested > 0
     THEN phase' = "extending" /\ wait' = requested
     ELSE phase' = "leaving" /\ UNCHANGED wait
  /\ asker' = Outdated
  /\ UNCHANGED <<clock, sleep, nextTime, started, requested, promised, raced,
                 overran>>

Extend ==
  /\ phase = "extending"
  /\ phase' = "entering"
  /\ requested' = 0
  /\ UNCHANGED <<clock, sleep, nextTime, started, wait, asking, overran>>

\* Mutant: the server sleeps for a cycle, however long it was awake.
SleepLengthFixed == Wrap(CycleTime)

SleepLength == Wrap(CycleTime - clock)

\* robusto_goto_sleep.  All but what is in RTC memory is lost.
GoToSleep ==
  /\ phase = "leaving"
  /\ phase' = "asleep"
  /\ lastSleep' = SinceStart
  /\ lastDuration' = SleepLength
  /\ clock' = -SleepLength
  /\ nextTime' = 0 /\ started' = 0 /\ wait' = 0 /\ requested' = 0
  /\ asker' = [a \in Askers |-> Idle]
  /\ promised' = 0 /\ raced' = {} /\ overran' = FALSE

-----------------------------------------------------------------------------
(* Any task calls robusto_conductor_server_ask_for_time: it reads how long *)
(* the server is still going to wait, compares, and stores.                *)

WaitTimeLeft == Wrap(started + wait - clock)

AskReads(a, ask) ==
  /\ Up
  /\ asker[a].at = "idle"
  /\ asker' = [asker EXCEPT ![a] =
       [at |-> "tests", ask |-> ask, left |-> WaitTimeLeft,
        until |-> clock + ask,
        reckons |-> IF phase = "waiting" THEN "on" ELSE "none"]]
  /\ UNCHANGED <<clock, phase, sleep, nextTime, waiting, promised, raced,
                 overran>>

\* Mutant: the request is compared with no earlier one.
NeededNow(a) == asker[a].left < asker[a].ask

Needed(a) ==
  /\ asker[a].left < asker[a].ask
  /\ requested < asker[a].ask - asker[a].left

\* Mutant: only the time that is asked for has to fit.
FitsWithoutWait(a) == Wrap(asker[a].ask) < Timebox

Fits(a) == Wrap(clock + asker[a].left + asker[a].ask) < Timebox

\* The task is told TRUE: the server is going to be awake.
Told(a) ==
  promised' = IF asker[a].until > promised THEN asker[a].until ELSE promised

\* It is told so, too, if the request is unnecessary, which is what every
\* request seems to be before the server waits.
Unnecessary(a) ==
  /\ asker[a].at = "tests"
  /\ ~Needed(a)
  /\ Told(a)
  /\ raced' = IF asker[a].reckons = "none" THEN raced \cup {"early"} ELSE raced
  /\ asker' = [asker EXCEPT ![a] = Idle]
  /\ UNCHANGED <<clock, phase, sleep, nextTime, waiting, overran>>

Denied(a) ==
  /\ asker[a].at = "tests"
  /\ Needed(a) /\ ~Fits(a)
  /\ asker' = [asker EXCEPT ![a] = Idle]
  /\ UNCHANGED <<clock, phase, sleep, nextTime, waiting, promised, raced,
                 overran>>

Approved(a) ==
  /\ asker[a].at = "tests"
  /\ Needed(a) /\ Fits(a)
  /\ asker' = [asker EXCEPT ![a].at = "grants"]
  /\ UNCHANGED <<clock, phase, sleep, nextTime, waiting, promised, raced,
                 overran>>

AskTests(a) == Unnecessary(a) \/ Denied(a) \/ Approved(a)

\* How the request in hand goes wrong: it reckons with a wait that is not the
\* one that is on, or it takes from another what that was granted meanwhile.
Wrongs(a) ==
  (IF asker[a].reckons \in {"none", "over"} THEN {"stale"} ELSE {}) \cup
  (IF asker[a].reckons = "crossed" /\ requested > asker[a].ask - asker[a].left
   THEN {"overwritten"} ELSE {})

\* Those that are about to store have compared with what was there before.
Crossed(a) == [b \in Askers |->
  CASE b = a -> Idle
    [] b # a /\ asker[b].at = "grants" /\ asker[b].reckons = "on" ->
         [asker[b] EXCEPT !.reckons = "crossed"]
    [] OTHER -> asker[b]]

AskGrants(a) ==
  /\ asker[a].at = "grants"
  /\ requested' = asker[a].ask - asker[a].left
  /\ Told(a)
  /\ raced' = raced \cup Wrongs(a)
  /\ asker' = Crossed(a)
  /\ UNCHANGED <<clock, phase, sleep, nextTime, started, wait, overran>>

-----------------------------------------------------------------------------
ServerPending ==
  \/ phase = "asleep" /\ clock = 0
  \/ phase = "up" /\ clock = TakenBy
  \/ phase = "waiting" /\ clock = started + wait
  \/ phase \in {"extending", "entering", "leaving"}

ServerTick ==
  /\ ~ServerPending
  /\ clock' = clock + 1
  /\ UNCHANGED <<phase, sleep, nextTime, waiting, asking, overran>>

ServerSteps == Wake \/ TakeControl \/ Waits \/ WaitEnds \/ Extend \/ GoToSleep

AskerSteps == \E a \in Askers :
  (\E ask \in Asks : AskReads(a, ask)) \/ AskTests(a) \/ AskGrants(a)

ServerNext == ServerSteps \/ AskerSteps \/ ServerTick

ServerSpec == Init /\ [][ServerNext]_server

-----------------------------------------------------------------------------
\* The server finds that it has reached the limit of the timebox in no cycle,
\* unless a task has stored a request that reckons with another wait than the
\* one that is on: no sequence of requests gets there, however many tasks ask.
TimeboxKept == overran => "stale" \in raced

\* The server does not leave before the latest of the moments until which tasks
\* were told that it is awake, unless a request came before it waited, was
\* stored after its wait, or took from another what that was granted while it
\* was being compared.
GrantedTimeIsKept == phase = "leaving" /\ raced = {} => clock >= promised

\* The limit is not reached at all: "Shouldn't happen if ask for time works"
\* (robusto_conductor_server.c).
LimitIsNotReached == ~overran

\* A task that is told TRUE has its time: it can "ask to wait with sleep for a
\* specific amount of time from now" and gets FALSE if the request is denied
\* (robusto_conductor.h).  Here, of tasks that ask while the server waits.
TrueMeansTimeInAWait ==
  phase = "leaving" /\ "early" \notin raced => clock >= promised

\* The same of all tasks, as long as the steps of one that asks and those of the
\* server and of other tasks do not come between each other.
TrueMeansTimeAlone ==
  phase = "leaving" /\ raced \subseteq {"early"} => clock >= promised

\* Tasks are alike.
Tasks == Permutations(Askers)

=============================================================================
