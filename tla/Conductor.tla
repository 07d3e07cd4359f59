------------------------------ MODULE Conductor ------------------------------
(***************************************************************************)
(* The conductor with a client (conductor/src), which gives control to the *)
(* server: it finds out whether it knows the server since it woke, asks    *)
(* when the server is next available and sleeps until then.  Several       *)
(* clients do not meet in this code, so that one stands for all.           *)
(*                                                                         *)
(* r_millis() of the client is myClock, which starts at 0 when its         *)
(* processor wakes and, as no moment is remembered beyond it, when a call  *)
(* to give control has come back.  Time passes for both processors alike.  *)
(***************************************************************************)
EXTENDS ConductorServer

CONSTANTS
  ServerMargin,  \* CONFIG_ROBUSTO_CONDUCTOR_SERVER_MARGIN_S
  Try, Tries,    \* the client asks so often, so long apart (10, 5 s)
  Patience,      \* for so long it waits until the server is known (6 s)
  RetryWait,     \* CONFIG_ROBUSTO_CONDUCTOR_RETRY_WAIT_S
  AwakeMargin,   \* CONFIG_ROBUSTO_CONDUCTOR_AWAKE_MARGIN_MS
  MaxWork,       \* bound: the client gives control by then
  MaxDelay       \* bound: how long a message is under way

None == -1

ASSUME ClientAssumption ==
  /\ {ServerMargin, Try, Tries, Patience, RetryWait} \subseteq Nat \ {0}
  /\ {AwakeMargin, MaxWork, MaxDelay} \subseteq Nat
  /\ RetryWait < Width

\* The server is asleep when its cycle ends, and a check of the client after it
\* got its answer comes before the time the answer tells.
ASSUME CycleAssumption ==
  /\ Timebox + Try <= CycleTime + ServerMargin
  /\ CycleTime + ServerMargin + MaxDelay + AwakeMargin < Width

\* The time a message takes and the margins leave something of the time the
\* server is awake in any case.
ASSUME MeetingAssumption == ServerMargin + MaxDelay + AwakeMargin < AwakeTime

VARIABLES
  myClock, myPhase,            \* the client
  known,                       \* the conductor peer is known since it woke
  checkAt, tries,              \* when it looks for an answer next
  availability,                \* next_availability of the conductor peer
  inStep,                      \* it sleeps, or slept, as the server told it to
  when, answers                \* messages under way, with their age

client == <<myClock, myPhase, known, checkAt, tries, availability, inStep>>
network == <<when, answers>>
vars == <<server, client, network>>

Longest == MaxWork + Patience + Try * Tries

ClientTypeOK ==
  /\ myClock \in -Width .. Longest
  /\ myPhase \in {"asleep", "working", "finding", "asking", "returned"}
  /\ checkAt \in 0 .. Longest
  /\ tries \in 0 .. Tries
  /\ availability \in 0 .. Width - 1
  /\ {known, inStep} \subseteq BOOLEAN
  /\ when \in None .. MaxDelay
  /\ answers \subseteq [delta : 0 .. Width - 1, age : 0 .. MaxDelay]

\* The server and the client are switched on at any time.
ConductorInit ==
  /\ Init
  /\ myClock \in -CycleTime .. 0 /\ myPhase = "asleep"
  /\ known = FALSE
  /\ checkAt = 0 /\ tries = 0 /\ availability = 0 /\ inStep = FALSE
  /\ when = None /\ answers = {}

-----------------------------------------------------------------------------
(* The client.                                                             *)

MyWake ==
  /\ myPhase = "asleep"
  /\ myClock = 0
  /\ myPhase' = "working"
  /\ UNCHANGED <<server, myClock, known, checkAt, tries, availability, inStep,
                 network>>

\* The client presents itself to the conductor it adds when it has woken, and
\* the two know each other if both are awake and neither message is lost.  It
\* does so once; the server may do so later.
Introduced ==
  /\ Up /\ myPhase # "asleep"
  /\ ~known
  /\ known' = TRUE
  /\ UNCHANGED <<server, myClock, myPhase, checkAt, tries, availability, inStep,
                 network>>

\* robusto_conductor_client_send_when_message; then the client waits.
Asking ==
  /\ when' = 0
  /\ checkAt' = myClock + Try

\* The rest of robusto_conductor_client_give_control with a known conductor.
StartsAsking ==
  /\ known
  /\ myPhase' = "asking"
  /\ availability' = 0
  /\ tries' = 0
  /\ Asking
  /\ UNCHANGED <<server, myClock, known, inStep, answers>>

\* robusto_conductor_client_get_conductor
GiveControl ==
  /\ myPhase = "working"
  /\ \/ StartsAsking
     \/ /\ ~known
        /\ myPhase' = "finding"
        /\ checkAt' = myClock + Patience
        /\ UNCHANGED <<server, myClock, known, tries, availability, inStep,
                       network>>

Finds == myPhase = "finding" /\ myClock < checkAt /\ StartsAsking

\* It waited in vain, and the call comes back.
FindsNobody ==
  /\ myPhase = "finding" /\ myClock = checkAt
  /\ myPhase' = "returned"
  /\ inStep' = FALSE
  /\ myClock' = 0 /\ checkAt' = 0
  /\ UNCHANGED <<server, known, tries, availability, network>>

\* The application may call again, or somebody switches the node on again.
CallsAgain ==
  /\ myPhase = "returned"
  /\ myPhase' = "working"
  /\ known' \in {known, FALSE}
  /\ UNCHANGED <<server, myClock, checkAt, tries, availability, inStep, network>>

Sleeps(length) ==
  /\ myPhase' = "asleep"
  /\ myClock' = -length
  /\ known' = FALSE
  /\ checkAt' = 0 /\ tries' = 0 /\ availability' = 0
  /\ UNCHANGED <<server, network>>

\* robusto_conductor_client_sleep_until_available
SleepsUntilAvailable ==
  /\ myPhase = "asking" /\ myClock = checkAt
  /\ availability > 0
  /\ inStep' = TRUE
  /\ Sleeps(Wrap(availability - myClock + AwakeMargin))

AsksAgain ==
  /\ myPhase = "asking" /\ myClock = checkAt
  /\ availability = 0
  /\ tries + 1 < Tries
  /\ tries' = tries + 1
  /\ Asking
  /\ UNCHANGED <<server, myClock, myPhase, known, availability, inStep, answers>>

\* Mutant: a client that has no answer sleeps for a cycle.
GivesUpForACycle ==
  /\ myPhase = "asking" /\ myClock = checkAt
  /\ availability = 0
  /\ tries + 1 = Tries
  /\ inStep' = FALSE
  /\ Sleeps(CycleTime - myClock)

GivesUp ==
  /\ myPhase = "asking" /\ myClock = checkAt
  /\ availability = 0
  /\ tries + 1 = Tries
  /\ inStep' = FALSE
  /\ Sleeps(RetryWait)

-----------------------------------------------------------------------------
(* Messages.  Some are late, some are lost, all are if nobody is awake.    *)

\* robusto_conductor_server_send_then_message
WhenArrives ==
  /\ when # None
  /\ Up
  /\ when' = None
  /\ answers' = answers \cup
       {[delta |-> Wrap(nextTime - SinceStart + ServerMargin), age |-> 0]}
  /\ UNCHANGED <<server, client>>

\* on_incoming_conductor_client
ThenArrives(answer) ==
  /\ myPhase # "asleep"
  /\ answers' = answers \ {answer}
  /\ availability' = Wrap(myClock + answer.delta)
  /\ UNCHANGED <<server, myClock, myPhase, known, checkAt, tries, inStep,
                 when>>

Lost ==
  /\ \/ when # None /\ when' = None /\ UNCHANGED answers
     \/ \E answer \in answers : answers' = answers \ {answer} /\ UNCHANGED when
  /\ UNCHANGED <<server, client>>

MyPending ==
  \/ myPhase = "asleep" /\ myClock = 0
  \/ myPhase = "working" /\ myClock = MaxWork
  \/ myPhase = "finding" /\ (known \/ myClock = checkAt)
  \/ myPhase = "asking" /\ myClock = checkAt
  \/ when = MaxDelay
  \/ \E answer \in answers : answer.age = MaxDelay

Tick ==
  /\ ServerTick /\ ~MyPending
  /\ myClock' = IF myPhase = "returned" THEN myClock ELSE myClock + 1
  /\ when' = IF when = None THEN None ELSE when + 1
  /\ answers' = {[answer EXCEPT !.age = @ + 1] : answer \in answers}
  /\ UNCHANGED <<myPhase, known, checkAt, tries, availability, inStep>>

-----------------------------------------------------------------------------
ServerAlone == (ServerSteps \/ AskerSteps) /\ UNCHANGED <<client, network>>
ClientSteps ==
  \/ MyWake \/ GiveControl \/ Finds \/ FindsNobody
  \/ SleepsUntilAvailable \/ AsksAgain \/ GivesUp
Answered == \E answer \in answers : ThenArrives(answer)

\* A presentation and messages that arrive at the instant they were sent.
IntroducedAtOnce == myPhase = "working" /\ myClock = 0 /\ Introduced
ArrivesAtOnce == when = 0 /\ WhenArrives
AnsweredAtOnce ==
  /\ myPhase = "asking"
  /\ \E answer \in answers : answer.age = 0 /\ ThenArrives(answer)

Next ==
  \/ ServerAlone \/ ClientSteps \/ Introduced \/ CallsAgain
  \/ WhenArrives \/ Answered \/ Lost
  \/ Tick

Spec == ConductorInit /\ [][Next]_vars

\* Time goes on, both processors do what is due, no message is under way for
\* ever and not all of those that could arrive at once are late or lost.  The
\* application does not have to call again.
Fairness ==
  /\ WF_vars(Tick) /\ WF_vars(ServerSteps /\ UNCHANGED <<client, network>>)
  /\ WF_vars(ClientSteps) /\ WF_vars(Lost)
  /\ SF_vars(IntroducedAtOnce)
  /\ SF_vars(ArrivesAtOnce) /\ SF_vars(AnsweredAtOnce)

FairSpec == Spec /\ Fairness

-----------------------------------------------------------------------------
\* A client that slept as it was told to finds the server started and not yet
\* at the end of the time it is awake in any case, in whatever cycle, however
\* long the server was awake and whenever the client asked.
ClientsMeetServer ==
  inStep /\ myPhase = "working" /\ myClock = 0 =>
    /\ phase \in {"up", "entering", "waiting"}
    /\ clock \in ServerMargin .. AwakeTime - 1

\* A client that was switched on at any time, or has lost the server, comes into
\* step with it, again and again, unless a call of it comes back because the
\* server was not known: what happens then is up to the application.
ComesIntoStep == <>(myPhase = "returned") \/ []<>inStep

\* A call to give control does not come back: the client "checks with the peer
\* when its available next, and goes to sleep until then" (robusto_conductor.h),
\* or sleeps for the retry delay, "how long to wait before we try to reconnect
\* to the conductor if we fail connecting" (conductor/README.md).
SleepsAfterTheCall == myPhase # "returned"

=============================================================================
