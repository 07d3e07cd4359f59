--------------------------- MODULE ConductorProofs ---------------------------
(***************************************************************************)
(* Safety of the conductor for every cycle, margin, delay and request that *)
(* fit into the clock: the server keeps its timebox and its promises, and  *)
(* a client that slept as it was told to meets it.                         *)
(*                                                                         *)
(* The clocks wrap around, so that nothing can be compared once and for    *)
(* all.  What is invariant is a distance: how far away is the moment at    *)
(* which the server's next period begins, ServerMargin into it.            *)
(***************************************************************************)
EXTENDS Conductor, TLAPS

Awake == phase # "asleep"

(* When the server went to sleep last and for how long, before the wrap.    *)
Base == IF lastSleep > 0 THEN lastSleep + lastDuration ELSE 0

(* No request was stored that reckons with another wait than the one on.    *)
Clean == "stale" \notin raced

(* What the server keeps in each of its phases: in any case, as long as no  *)
(* request was stale, and as long as no request raced.                      *)
Asleep == phase = "asleep" =>
  /\ clock \in -CycleTime .. 0
  /\ started = 0 /\ wait = 0 /\ requested = 0 /\ promised = 0
  /\ asker = [a \in Askers |-> Idle]

Started == phase = "up" =>
  /\ clock <= TakenBy
  /\ started = 0 /\ wait = 0
  /\ Clean => requested = 0
  /\ raced = {} => promised <= clock

Entering == phase = "entering" =>
  /\ AwakeTime <= clock + wait
  /\ AwakeTime <= clock \/ clock + wait <= Timebox
  /\ Clean => requested = 0 /\ clock + wait <= Timebox
  /\ raced = {} => promised <= clock + wait

Waiting == phase = "waiting" =>
  /\ started <= clock /\ clock <= started + wait
  /\ AwakeTime <= started + wait /\ started + wait <= Timebox
  /\ Clean => started + wait + requested <= Timebox
  /\ raced = {} => promised <= started + wait + requested

Extending == phase = "extending" =>
  /\ AwakeTime <= clock
  /\ Clean => requested = wait /\ clock + wait <= Timebox
  /\ raced = {} => promised <= clock + wait

Leaving == phase = "leaving" =>
  /\ AwakeTime <= clock
  /\ Clean => requested = 0
  /\ raced = {} => promised <= clock

Clocked == Awake => clock \in 0 .. Timebox /\ nextTime = Wrap(Base + CycleTime)

CycleInv ==
  /\ Asleep /\ Started /\ Entering /\ Waiting /\ Extending /\ Leaving /\ Clocked
  /\ Clean => ~overran

(* A task reckons with the wait that is on until it is over: what it has    *)
(* compared with fits, and unless another has been granted more, it is the  *)
(* most that has been.                                                      *)
Current(a) == asker[a].reckons \in {"on", "crossed"}

AskerInv(a) ==
  /\ asker[a].ask <= asker[a].until
  /\ asker[a].at = "grants" => asker[a].left < asker[a].ask
  /\ Current(a) =>
       /\ phase = "waiting"
       /\ asker[a].until + asker[a].left = started + wait + asker[a].ask
       /\ asker[a].until <= clock + asker[a].ask
  /\ Current(a) /\ asker[a].at = "grants" =>
       started + wait + asker[a].ask <= Timebox
  /\ asker[a].reckons = "on" /\ asker[a].at = "grants" =>
       requested < asker[a].ask - asker[a].left
  /\ asker[a].reckons = "over" =>
       asker[a].until + asker[a].left <= clock + asker[a].ask

AskersInv == \A a \in Askers : AskerInv(a)

ServerInv == CycleInv /\ AskersInv

(* The client waits for a conductor it does not know, and asks at most Tries *)
(* times, a Try apart.                                                      *)
AskingInv ==
  /\ myPhase = "asleep" => myClock <= 0
  /\ myPhase = "working" => myClock \in 0 .. MaxWork
  /\ myPhase = "finding" =>
       0 <= myClock /\ myClock <= checkAt /\ checkAt <= MaxWork + Patience
  /\ myPhase = "asking" =>
       /\ tries + 1 <= Tries
       /\ 0 <= myClock /\ myClock <= checkAt /\ checkAt <= myClock + Try
       /\ checkAt <= MaxWork + Patience + Try * (tries + 1)
  /\ myPhase = "returned" => myClock = 0 /\ ~inStep

(* The beginning of the period the server tells of is this far away.        *)
Aim(far) ==
  \/ Awake /\ far = CycleTime - clock + ServerMargin
  \/ far = ServerMargin - clock

(* The same for one who has heard of it late.                               *)
Aimed(far, slack) == \E late \in 0 .. slack : Aim(far - late)

(* Answers under way, the answer the client has got, and a client asleep.   *)
AnswersInv == \A answer \in answers :
  /\ ServerMargin + CycleTime - Timebox <= answer.delta
  /\ Aim(answer.delta - answer.age)

HeardInv == myPhase = "asking" /\ availability > 0 =>
  \E far \in checkAt - myClock .. Width - 1 :
    availability = Wrap(myClock + far) /\ Aimed(far, MaxDelay)

InStepInv ==
  inStep /\ (myPhase = "asleep" \/ (myPhase = "working" /\ myClock = 0)) =>
    Aimed(-myClock, MaxDelay + AwakeMargin)

MeetingInv == AskingInv /\ AnswersInv /\ HeardInv /\ InStepInv


-----------------------------------------------------------------------------
(* The constants as the proofs use them.                                    *)
LEMMA Constants ==
  /\ Width \in Nat \ {0} /\ CycleTime \in Nat \ {0} /\ AwakeTime \in Nat \ {0}
  /\ ServerMargin \in Nat \ {0} /\ Try \in Nat \ {0} /\ Tries \in Nat \ {0}
  /\ Patience \in Nat \ {0}
  /\ RetryWait \in Nat \ {0} /\ AwakeMargin \in Nat /\ MaxWork \in Nat
  /\ MaxDelay \in Nat
  /\ Timebox \in Nat /\ Timebox = AwakeTime + AwakeTime
  /\ TakenBy \in 1 .. Timebox
  /\ \A ask \in Asks : ask \in Nat /\ 2 * Timebox + ask < Width
BY ServerAssumption, AskAssumption, ClientAssumption DEF Timebox

(* What the numbers of a clock are equal up to.                             *)
LEMMA Quotient ==
  ASSUME NEW n \in Int
  PROVE  Wrap(n) \in 0 .. Width - 1 /\ \E q \in Int : n = q * Width + Wrap(n)
<1>1. Width \in Nat \ {0}
  BY Constants
<1>2. PICK q \in Int : q = n \div Width
  BY <1>1
<1>3. PICK m \in 0 .. Width - 1 : m = n % Width
  BY <1>1
<1>4. n = q * Width + m
  BY <1>1, <1>2, <1>3
<1>5. QED
  BY <1>3, <1>4 DEF Wrap

(* A number in the range of the clock is what all that differ by whole      *)
(* turns wrap to.                                                           *)
LEMMA Turns ==
  ASSUME NEW n \in Int, NEW q \in Int, NEW r \in 0 .. Width - 1,
         n = q * Width + r
  PROVE  Wrap(n) = r
<1>1. Width \in Nat \ {0}
  BY Constants
<1>2. QED
  BY <1>1 DEF Wrap

(* What fits does not wrap.                                                 *)
LEMMA NoWrap ==
  ASSUME NEW n \in 0 .. Width - 1
  PROVE  Wrap(n) = n
<1>1. Width \in Nat \ {0}
  BY Constants
<1>2. QED
  BY <1>1 DEF Wrap

(* Whole turns make no difference.                                          *)
LEMMA WholeTurns ==
  ASSUME NEW n \in Int, NEW k \in Int
  PROVE  Wrap(n + k * Width) = Wrap(n)
<1>1. Width \in Int
  BY Constants
<1>2. PICK q \in Int : n = q * Width + Wrap(n)
  BY Quotient
<1>3. PICK r \in 0 .. Width - 1 : r = Wrap(n)
  BY Quotient
<1>4. (q + k) * Width = q * Width + k * Width
  BY <1>1
<1>5. PICK i \in Int : i = q * Width
  BY <1>1
<1>6. PICK j \in Int : j = k * Width
  BY <1>1
<1>7. n + j = (q + k) * Width + r
  <2>1. n = i + r
    BY <1>2, <1>3, <1>5
  <2>2. (q + k) * Width = i + j
    BY <1>4, <1>5, <1>6
  <2>3. QED
    BY <2>1, <2>2
<1>8. q + k \in Int /\ n + j \in Int
  BY <1>6
<1>9. Wrap(n + j) = r
  BY <1>7, <1>8, Turns
<1>10. QED
  BY <1>3, <1>6, <1>9

(* It does not matter whether a sum is wrapped before.                      *)
LEMMA WrapAdd ==
  ASSUME NEW a \in Int, NEW b \in Int
  PROVE  Wrap(Wrap(a) + b) = Wrap(a + b)
<1>1. Width \in Int
  BY Constants
<1>2. PICK q \in Int : a = q * Width + Wrap(a)
  BY Quotient
<1>3. PICK r \in Int : r = Wrap(a)
  BY <1>1, Quotient
<1>4. PICK i \in Int : i = q * Width
  BY <1>1
<1>5. a + b = (r + b) + q * Width
  BY <1>2, <1>3, <1>4
<1>6. Wrap((r + b) + q * Width) = Wrap(r + b)
  BY WholeTurns
<1>7. QED
  BY <1>3, <1>5, <1>6

(* The distance of two moments can be read from wrapped clocks, as long as  *)
(* it is shorter than a turn.                                               *)
LEMMA WrapDistance ==
  ASSUME NEW a \in Int, NEW b \in Int, NEW e \in Int,
         a - b + e \in 0 .. Width - 1
  PROVE  Wrap(Wrap(a) - Wrap(b) + e) = a - b + e
<1>1. Width \in Int
  BY Constants
<1>2. PICK q \in Int : a = q * Width + Wrap(a)
  BY Quotient
<1>3. PICK p \in Int : b = p * Width + Wrap(b)
  BY Quotient
<1>4. PICK r \in Int : r = Wrap(a)
  BY <1>1, Quotient
<1>5. PICK s \in Int : s = Wrap(b)
  BY <1>1, Quotient
<1>6. PICK i \in Int : i = q * Width
  BY <1>1
<1>7. PICK j \in Int : j = p * Width
  BY <1>1
<1>8. (p - q) * Width = p * Width - q * Width
  BY <1>1
<1>9. r - s + e = (a - b + e) + (p - q) * Width
  BY <1>2, <1>3, <1>4, <1>5, <1>6, <1>7, <1>8
<1>10. Wrap((a - b + e) + (p - q) * Width) = Wrap(a - b + e)
  BY WholeTurns
<1>11. QED
  BY <1>4, <1>5, <1>9, <1>10, NoWrap

-----------------------------------------------------------------------------
(* The types of the server's variables.                                     *)
CycleTyped ==
  /\ clock \in Int
  /\ phase \in {"asleep", "up", "waiting", "extending", "entering", "leaving"}
  /\ lastSleep \in 0 .. Width - 1 /\ lastDuration \in 0 .. Width - 1
  /\ nextTime \in 0 .. Width - 1
  /\ started \in 0 .. Width - 1 /\ wait \in 0 .. Width - 1
  /\ requested \in 0 .. Width - 1
  /\ promised \in Nat /\ overran \in BOOLEAN
  /\ raced \subseteq {"early", "stale", "overwritten"}

ServerTyped == CycleTyped /\ asker \in [Askers -> Asker]

(* A wrapped number is one of the clock's.                                  *)
LEMMA WrapType ==
  ASSUME NEW n \in Int
  PROVE  Wrap(n) \in 0 .. Width - 1
BY Quotient

(* While the server is awake, its clock and the times it was asleep add up. *)
LEMMA TimeSinceStart ==
  ASSUME CycleTyped, clock \in 0 .. Timebox
  PROVE  Base \in Int /\ SinceStart = Wrap(Base + clock)
<1>1. clock \in 0 .. Width - 1
  BY Constants, ServerAssumption
<1>2. Base \in Int
  BY Constants DEF Base, CycleTyped
<1>3. Wrap(clock) = clock
  BY <1>1, NoWrap
<1>4. QED
  BY <1>1, <1>2, <1>3 DEF Base, SinceStart, CycleTyped

(* What a task remembers has its types.                                     *)
LEMMA AskerTyped ==
  ASSUME ServerTyped, NEW a \in Askers
  PROVE  /\ asker[a] \in Asker
         /\ asker[a].ask \in Nat
         /\ asker[a].ask > 0 => 2 * Timebox + asker[a].ask < Width
         /\ asker[a].left \in 0 .. Width - 1 /\ asker[a].until \in Nat
         /\ asker[a].at \in {"idle", "tests", "grants"}
         /\ asker[a].reckons \in {"none", "on", "crossed", "over"}
<1>1. asker[a] \in Asker
  BY DEF ServerTyped
<1>2. asker[a].ask \in Asks \cup {0}
  BY <1>1 DEF Asker
<1>3. /\ asker[a].ask \in Nat
      /\ asker[a].ask > 0 => 2 * Timebox + asker[a].ask < Width
  BY <1>2, Constants
<1>4. QED
  BY <1>1, <1>3 DEF Asker

(* A task that asks for nothing remembers nothing.                          *)
LEMMA IdleTyped ==
  /\ Idle \in Asker
  /\ Idle.at = "idle" /\ Idle.ask = 0 /\ Idle.left = 0 /\ Idle.until = 0
  /\ Idle.reckons = "none"
<1>1. 0 \in 0 .. Width - 1 /\ 0 \in Nat
  BY Constants
<1>2. QED
  BY <1>1 DEF Idle, Asker

-----------------------------------------------------------------------------
(* The steps of the cycle keep the types of the server.                     *)
LEMMA CycleTypeStep ==
  ASSUME ServerTyped, CycleInv, ServerSteps
  PROVE  ServerTyped'
<1> USE Constants
<1>0. CycleTyped /\ asker \in [Askers -> Asker]
  BY DEF ServerTyped
<1>1. ASSUME Wake PROVE ServerTyped'
  <2>1. SinceStart + CycleTime - clock \in Int
    BY <1>0, <1>1, TimeSinceStart, WrapType DEF Wake, CycleTyped
  <2>2. QED
    BY <1>0, <1>1, <2>1, WrapType
    DEF Wake, ServerTyped, CycleTyped, sleep, waiting, asking
<1>2. ASSUME TakeControl PROVE ServerTyped'
  <2>1. wait' \in 0 .. Width - 1
    BY <1>0, <1>2, ServerAssumption DEF TakeControl, Up, CycleTyped
  <2>2. QED
    BY <1>0, <1>2, <2>1 DEF TakeControl, ServerTyped, CycleTyped, sleep, asking
<1>3. ASSUME Waits PROVE ServerTyped'
  <2>1. clock \in 0 .. Width - 1
    BY <1>0, <1>3, ServerAssumption DEF Waits, CycleInv, Clocked, Awake
  <2>2. started' \in 0 .. Width - 1 /\ phase' \in {"waiting", "leaving"}
    BY <1>0, <1>3, <2>1 DEF Waits, CycleTyped
  <2>3. overran' \in BOOLEAN
    BY <1>0, <1>3, Zenon DEF Waits, CycleTyped
  <2>4. QED
    BY <1>0, <1>3, <2>2, <2>3 DEF Waits, ServerTyped, CycleTyped, sleep, asking
<1>4. ASSUME WaitEnds PROVE ServerTyped'
  <2>1. wait' \in 0 .. Width - 1 /\ phase' \in {"extending", "leaving"}
    BY <1>0, <1>4 DEF WaitEnds, CycleTyped
  <2>2. ASSUME NEW a \in Askers PROVE Outdated[a] \in Asker
    <3>1. asker[a] \in Asker
      BY <1>0
    <3>2. [asker[a] EXCEPT !.reckons = "over"] \in Asker
      BY <3>1 DEF Asker
    <3>3. QED
      BY <3>1, <3>2 DEF Outdated
  <2>3. Outdated \in [Askers -> Asker]
    BY <2>2 DEF Outdated
  <2>4. QED
    BY <1>0, <1>4, <2>1, <2>3 DEF WaitEnds, ServerTyped, CycleTyped, sleep
<1>5. ASSUME Extend PROVE ServerTyped'
  <2>1. 0 \in 0 .. Width - 1
    OBVIOUS
  <2>2. QED
    BY <1>0, <1>5, <2>1 DEF Extend, ServerTyped, CycleTyped, sleep, asking
<1>6. ASSUME GoToSleep PROVE ServerTyped'
  <2>1. SleepLength \in 0 .. Width - 1
    BY <1>0, WrapType DEF SleepLength, CycleTyped
  <2>2. SinceStart \in 0 .. Width - 1
    BY <1>0, <1>6, TimeSinceStart, WrapType
    DEF GoToSleep, CycleTyped, CycleInv, Clocked, Awake
  <2>3. [a \in Askers |-> Idle] \in [Askers -> Asker]
    BY IdleTyped
  <2>4. /\ -SleepLength \in Int /\ -Width <= -SleepLength
        /\ -SleepLength <= Timebox /\ 0 \in 0 .. Width - 1 /\ 0 \in Nat
    BY <2>1
  <2>5. /\ clock' = -SleepLength /\ phase' = "asleep" /\ lastSleep' = SinceStart
        /\ lastDuration' = SleepLength /\ nextTime' = 0 /\ started' = 0
        /\ wait' = 0 /\ requested' = 0 /\ promised' = 0 /\ raced' = {}
        /\ asker' = [a \in Askers |-> Idle]
    BY <1>6 DEF GoToSleep
  <2>6. overran' = FALSE
    BY <1>6 DEF GoToSleep
  <2>7. overran' \in BOOLEAN
    BY <2>6, Zenon
  <2>8. QED
    BY <2>1, <2>2, <2>3, <2>4, <2>5, <2>7 DEF ServerTyped, CycleTyped
<1>7. QED
  BY <1>1, <1>2, <1>3, <1>4, <1>5, <1>6 DEF ServerSteps

(* So do the steps of a task that asks.                                     *)
LEMMA AskerTypeStep ==
  ASSUME ServerTyped, AskersInv, AskerSteps
  PROVE  ServerTyped'
<1> USE Constants
<1>0. CycleTyped /\ asker \in [Askers -> Asker]
  BY DEF ServerTyped
<1>1. ASSUME NEW a \in Askers, NEW ask \in Asks, AskReads(a, ask)
      PROVE  ServerTyped'
  <2> DEFINE how == IF phase = "waiting" THEN "on" ELSE "none"
  <2>1. WaitTimeLeft \in 0 .. Width - 1
    BY <1>0, WrapType DEF WaitTimeLeft, CycleTyped
  <2>2. clock + ask \in Nat
    BY <1>0, <1>1 DEF AskReads, Up, CycleTyped
  <2>3. how \in {"none", "on", "crossed", "over"}
    OBVIOUS
  <2>4. [at |-> "tests", ask |-> ask, left |-> WaitTimeLeft,
         until |-> clock + ask, reckons |-> how] \in Asker
    BY <2>1, <2>2, <2>3 DEF Asker
  <2>5. asker' \in [Askers -> Asker]
    BY <1>0, <1>1, <2>4 DEF AskReads
  <2>6. QED
    BY <1>0, <1>1, <2>5 DEF AskReads, ServerTyped, CycleTyped, sleep, waiting
<1>2. ASSUME NEW a \in Askers, AskTests(a) PROVE ServerTyped'
  <2>1. asker[a] \in Asker /\ asker[a].until \in Nat
    BY AskerTyped
  <2>2. [asker[a] EXCEPT !.at = "grants"] \in Asker
    BY <2>1 DEF Asker
  <2>3. asker' \in [Askers -> Asker]
    BY <1>0, <1>2, <2>2, IdleTyped DEF AskTests, Unnecessary, Denied, Approved
  <2>4. promised' \in Nat
    BY <1>0, <1>2, <2>1
    DEF AskTests, Unnecessary, Denied, Approved, Told, CycleTyped
  <2>5. raced' \subseteq {"early", "stale", "overwritten"}
    BY <1>0, <1>2 DEF AskTests, Unnecessary, Denied, Approved, CycleTyped
  <2>6. UNCHANGED <<clock, phase, lastSleep, lastDuration, nextTime, started,
                    wait, requested, overran>>
    BY <1>2 DEF AskTests, Unnecessary, Denied, Approved, sleep, waiting
  <2>7. QED
    BY <1>0, <2>3, <2>4, <2>5, <2>6 DEF ServerTyped, CycleTyped
<1>3. ASSUME NEW a \in Askers, AskGrants(a) PROVE ServerTyped'
  <2>1. /\ asker[a].ask \in Nat
        /\ asker[a].ask > 0 => 2 * Timebox + asker[a].ask < Width
        /\ asker[a].left \in 0 .. Width - 1 /\ asker[a].until \in Nat
    BY AskerTyped
  <2>2. asker[a].left < asker[a].ask
    BY <1>3 DEF AskGrants, AskersInv, AskerInv
  <2>3. requested' \in 0 .. Width - 1
    BY <1>3, <2>1, <2>2 DEF AskGrants
  <2>4. promised' \in Nat
    BY <1>0, <1>3, <2>1 DEF AskGrants, Told, CycleTyped
  <2>5. raced' \subseteq {"early", "stale", "overwritten"}
    BY <1>0, <1>3 DEF AskGrants, Wrongs, CycleTyped
  <2>6. ASSUME NEW b \in Askers PROVE Crossed(a)[b] \in Asker
    <3>1. asker[b] \in Asker
      BY <1>0
    <3>2. [asker[b] EXCEPT !.reckons = "crossed"] \in Asker
      BY <3>1 DEF Asker
    <3>3. QED
      BY <3>1, <3>2, IdleTyped DEF Crossed
  <2>7. Crossed(a) \in [Askers -> Asker]
    BY <2>6 DEF Crossed
  <2>8. UNCHANGED <<clock, phase, lastSleep, lastDuration, nextTime, started,
                    wait, overran>> /\ asker' = Crossed(a)
    BY <1>3 DEF AskGrants, sleep
  <2>9. QED
    BY <1>0, <2>3, <2>4, <2>5, <2>7, <2>8 DEF ServerTyped, CycleTyped
<1>4. QED
  BY <1>1, <1>2, <1>3 DEF AskerSteps

-----------------------------------------------------------------------------
(* What a task remembers stays true as long as the wait it reckons with is  *)
(* not touched and nobody stores a request.                                 *)
LEMMA AskerStays ==
  ASSUME ServerTyped, ServerTyped', NEW a \in Askers, AskerInv(a),
         asker'[a] = asker[a], clock <= clock',
         Current(a) => UNCHANGED <<phase, started, wait, requested>>
  PROVE  AskerInv(a)'
<1>1. /\ asker[a].ask \in Nat /\ asker[a].left \in Int /\ asker[a].until \in Nat
      /\ clock \in Int /\ clock' \in Int
  BY AskerTyped, Constants DEF ServerTyped, CycleTyped
<1>2. PICK later \in Int : later = clock'
  BY <1>1
<1>3. clock <= later
  BY <1>2
<1>4. /\ asker[a].until <= clock + asker[a].ask
           => asker[a].until <= later + asker[a].ask
      /\ asker[a].until + asker[a].left <= clock + asker[a].ask
           => asker[a].until + asker[a].left <= later + asker[a].ask
  BY <1>1, <1>2, <1>3
<1>5. CASE Current(a)
  BY <1>2, <1>4, <1>5 DEF AskerInv, Current
<1>6. CASE ~Current(a)
  BY <1>2, <1>4, <1>6 DEF AskerInv, Current
<1>7. QED
  BY <1>5, <1>6

(* A task that does not ask remembers nothing that could be wrong.          *)
LEMMA IdleAsker ==
  ASSUME NEW a \in Askers, asker'[a] = Idle
  PROVE  AskerInv(a)'
BY IdleTyped DEF AskerInv, Current

(* A request that is made while the server waits reckons with the rest of   *)
(* the wait, and it is compared with the timebox as it is.                  *)
LEMMA RestOfTheWait ==
  ASSUME ServerTyped, CycleInv, phase = "waiting"
  PROVE  WaitTimeLeft = started + wait - clock
<1>1. started + wait - clock \in 0 .. Width - 1
  BY Constants, ServerAssumption
  DEF ServerTyped, CycleTyped, CycleInv, Waiting, Clocked, Awake
<1>2. QED
  BY <1>1, NoWrap DEF WaitTimeLeft

LEMMA FitsTheTimebox ==
  ASSUME ServerTyped, CycleInv, NEW a \in Askers, AskerInv(a), Current(a),
         Needed(a), Fits(a)
  PROVE  started + wait + asker[a].ask <= Timebox
<1>1. /\ asker[a].ask \in Nat /\ 2 * Timebox + asker[a].ask < Width
      /\ asker[a].left \in 0 .. Width - 1 /\ asker[a].until \in Nat
  BY AskerTyped, Constants DEF Needed
<1>2. /\ phase = "waiting" /\ asker[a].ask <= asker[a].until
      /\ asker[a].until + asker[a].left = started + wait + asker[a].ask
      /\ asker[a].until <= clock + asker[a].ask
  BY DEF AskerInv
<1>3. /\ clock \in 0 .. Timebox /\ started + wait <= Timebox
      /\ started \in Nat /\ wait \in Nat
  BY <1>2, Constants
  DEF ServerTyped, CycleTyped, CycleInv, Waiting, Clocked, Awake
<1>4. PICK sum \in Int : sum = clock + asker[a].left + asker[a].ask
  BY <1>1, <1>3, Constants
<1>5. sum \in 0 .. Width - 1
  BY <1>1, <1>2, <1>3, <1>4, Constants
<1>6. sum < Timebox
  BY <1>4, <1>5, NoWrap DEF Fits
<1>7. started + wait + asker[a].ask <= sum
  BY <1>1, <1>2, <1>3, <1>4, Constants
<1>8. QED
  BY <1>1, <1>3, <1>6, <1>7, Constants

(* A task is told nothing wrong when its request is unnecessary, unless it  *)
(* has asked too early.                                                     *)
LEMMA UnnecessaryIsRight ==
  ASSUME ServerTyped, CycleInv, NEW a \in Askers, AskerInv(a), Unnecessary(a),
         raced' = {}
  PROVE  /\ phase = "waiting" => asker[a].until <= started + wait + requested
         /\ phase \in {"entering", "extending"} => asker[a].until <= clock + wait
         /\ phase \in {"up", "leaving"} => asker[a].until <= clock
<1>1. /\ asker[a].ask \in Nat /\ asker[a].left \in Nat /\ asker[a].until \in Nat
      /\ asker[a].reckons \in {"none", "on", "crossed", "over"}
  BY AskerTyped, Constants
<1>2. raced = {} /\ Clean /\ asker[a].reckons # "none"
  BY DEF Unnecessary, Clean
<1>3. asker[a].left < asker[a].ask => requested >= asker[a].ask - asker[a].left
  BY <1>1, Constants DEF Unnecessary, Needed, ServerTyped, CycleTyped
<1>4. /\ clock \in Int /\ started \in Nat /\ wait \in Nat /\ requested \in Nat
  BY Constants DEF ServerTyped, CycleTyped
<1>5. CASE Current(a)
  <2>1. /\ phase = "waiting"
        /\ asker[a].until + asker[a].left = started + wait + asker[a].ask
    BY <1>5 DEF AskerInv
  <2>2. QED
    BY <1>1, <1>3, <1>4, <2>1
<1>6. CASE asker[a].reckons = "over"
  <2>1. asker[a].until + asker[a].left <= clock + asker[a].ask
    BY <1>6 DEF AskerInv
  <2>2. asker[a].until <= clock + requested
    BY <1>1, <1>3, <1>4, <2>1
  <2>3. CASE phase = "waiting"
    BY <1>1, <1>4, <2>2, <2>3 DEF CycleInv, Waiting
  <2>4. CASE phase \in {"entering", "extending", "up", "leaving"}
    BY <1>1, <1>2, <1>4, <2>2, <2>4
    DEF CycleInv, Entering, Extending, Started, Leaving
  <2>5. QED
    BY <2>3, <2>4
<1>7. QED
  BY <1>1, <1>2, <1>5, <1>6 DEF Current

-----------------------------------------------------------------------------
(* The steps of the cycle keep what the server keeps in each phase.         *)
LEMMA CycleStep ==
  ASSUME ServerTyped, CycleInv, ServerSteps
  PROVE  CycleInv'
<1> USE Constants
<1>0. CycleTyped
  BY DEF ServerTyped
<1>1. ASSUME Wake PROVE CycleInv'
  <2>1. /\ clock = 0 /\ started = 0 /\ wait = 0 /\ requested = 0 /\ promised = 0
        /\ Clean => ~overran
    BY <1>1 DEF Wake, CycleInv, Asleep
  <2>2. Base \in Int /\ SinceStart = Wrap(Base)
    BY <1>0, <2>1, TimeSinceStart
  <2>3. SinceStart + CycleTime - clock = Wrap(Base) + CycleTime
    BY <2>1, <2>2, WrapType
  <2>4. nextTime' = Wrap(Base + CycleTime)
    BY <1>1, <2>2, <2>3, WrapAdd DEF Wake
  <2>5. Base' = Base
    BY <1>1 DEF Wake, sleep, Base
  <2>6. QED
    BY <1>1, <2>1, <2>4, <2>5 DEF Wake, waiting, asking, Wrap, Clean, CycleInv,
       Asleep, Started, Entering, Waiting, Extending, Leaving, Clocked, Awake
<1>2. ASSUME TakeControl PROVE CycleInv'
  <2>1. /\ clock \in 1 .. Timebox
        /\ Clean => requested = 0
        /\ raced = {} => promised <= clock
    BY <1>0, <1>2 DEF TakeControl, Up, CycleTyped, CycleInv, Started, Clocked, Awake
  <2>2. PICK time \in Nat : time = wait'
    BY <1>2, <2>1 DEF TakeControl
  <2>3. clock + time <= Timebox /\ AwakeTime <= clock + time
    BY <1>2, <2>1, <2>2 DEF TakeControl
  <2>4. ASSUME raced = {} PROVE promised <= clock + time
    <3>1. promised \in Nat /\ promised <= clock
      BY <1>0, <2>1, <2>4 DEF CycleTyped
    <3>2. clock \in Int /\ time \in Nat
      BY <1>0, <2>2 DEF CycleTyped
    <3>3. \A m, n \in Int : m <= n => m <= n + time
      BY <3>2
    <3>4. QED
      BY <3>1, <3>2, <3>3
  <2>5. Entering'
    BY <1>2, <2>1, <2>2, <2>3, <2>4 DEF TakeControl, asking, Entering, Clean
  <2>6. QED
    BY <1>2, <2>1, <2>5 DEF TakeControl, sleep, asking, Clean, CycleInv, Asleep,
       Started, Waiting, Extending, Leaving, Clocked, Awake, Base, Wrap
<1>3. ASSUME Waits PROVE CycleInv'
  <2>1. /\ clock \in 0 .. Timebox /\ wait \in Nat /\ requested \in Nat
        /\ promised \in Nat /\ Entering
    BY <1>0, <1>3 DEF Waits, CycleTyped, CycleInv, Clocked, Awake
  <2>2. UNCHANGED <<clock, lastSleep, lastDuration, nextTime, wait, requested,
                    promised, raced>>
    BY <1>3 DEF Waits, sleep, asking
  <2>3. CASE clock + wait > Timebox
    <3>1. phase' = "leaving" /\ AwakeTime <= clock /\ ~Clean
      BY <1>3, <2>1, <2>3 DEF Waits, Entering
    <3>2. raced # {}
      BY <3>1 DEF Clean
    <3>3. QED
      BY <2>2, <3>1, <3>2 DEF Clean, CycleInv, Asleep, Started, Entering,
         Waiting, Extending, Leaving, Clocked, Awake, Base, Wrap
  <2>4. CASE ~(clock + wait > Timebox)
    <3>1. /\ phase = "entering" /\ phase' = "waiting" /\ started' = clock
          /\ UNCHANGED overran
      BY <1>3, <2>4 DEF Waits
    <3>2. /\ clock <= clock + wait /\ AwakeTime <= clock + wait
          /\ clock + wait <= Timebox
          /\ Clean => clock + wait + requested <= Timebox
          /\ raced = {} => promised <= clock + wait + requested
      BY <2>1, <2>4, <3>1 DEF Entering
    <3>3. Waiting'
      BY <2>1, <2>2, <3>1, <3>2 DEF Waiting, Clean
    <3>4. QED
      BY <2>2, <3>1, <3>3 DEF Clean, CycleInv, Asleep, Started, Entering,
         Extending, Leaving, Clocked, Awake, Base, Wrap
  <2>5. QED
    BY <2>3, <2>4
<1>4. ASSUME WaitEnds PROVE CycleInv'
  <2>1. /\ phase = "waiting" /\ clock = started + wait /\ AwakeTime <= clock
        /\ clock \in 0 .. Timebox /\ requested \in Nat /\ promised \in Nat
        /\ Clean => clock + requested <= Timebox
        /\ raced = {} => promised <= clock + requested
        /\ Clean => ~overran
    BY <1>0, <1>4 DEF WaitEnds, CycleTyped, CycleInv, Waiting, Clocked, Awake
  <2>2. UNCHANGED <<clock, lastSleep, lastDuration, nextTime, requested,
                    promised, raced, overran>>
    BY <1>4 DEF WaitEnds, sleep
  <2>3. CASE requested > 0
    <3>1. phase' = "extending" /\ wait' = requested
      BY <1>4, <2>3 DEF WaitEnds
    <3>2. QED
      BY <2>1, <2>2, <3>1 DEF Clean, CycleInv, Asleep, Started, Entering,
         Waiting, Extending, Leaving, Clocked, Awake, Base, Wrap
  <2>4. CASE ~(requested > 0)
    <3>1. phase' = "leaving" /\ requested = 0
      BY <1>4, <2>1, <2>4 DEF WaitEnds
    <3>2. QED
      BY <2>1, <2>2, <3>1 DEF Clean, CycleInv, Asleep, Started, Entering,
         Waiting, Extending, Leaving, Clocked, Awake, Base, Wrap
  <2>5. QED
    BY <2>3, <2>4
<1>5. ASSUME Extend PROVE CycleInv'
  <2>1. /\ phase = "extending" /\ phase' = "entering" /\ requested' = 0
        /\ UNCHANGED <<clock, lastSleep, lastDuration, nextTime, wait, promised,
                       raced, overran>>
    BY <1>5 DEF Extend, sleep, asking
  <2>2. AwakeTime <= clock + wait
    BY <1>0, <2>1 DEF CycleTyped, CycleInv, Extending
  <2>3. QED
    BY <2>1, <2>2 DEF Clean, CycleInv, Asleep, Started, Entering, Waiting,
       Extending, Leaving, Clocked, Awake, Base, Wrap
<1>6. ASSUME GoToSleep PROVE CycleInv'
  <2>1. clock \in 0 .. Timebox
    BY <1>6 DEF GoToSleep, CycleInv, Clocked, Awake
  <2>2. SleepLength = CycleTime - clock
    BY <2>1, ServerAssumption, NoWrap DEF SleepLength
  <2>3. clock' \in -CycleTime .. 0
    BY <1>6, <2>1, <2>2, ServerAssumption DEF GoToSleep
  <2>4. QED
    BY <1>6, <2>3 DEF GoToSleep, Clean, CycleInv, Asleep, Started, Entering,
       Waiting, Extending, Leaving, Clocked, Awake
<1>7. QED
  BY <1>1, <1>2, <1>3, <1>4, <1>5, <1>6 DEF ServerSteps

(* They keep what the tasks remember: the end of a wait leaves requests     *)
(* over that were made during it.                                           *)
LEMMA CycleKeepsAskers ==
  ASSUME ServerTyped, CycleInv, AskersInv, ServerSteps
  PROVE  AskersInv'
<1>0. ServerTyped' /\ CycleTyped
  BY CycleTypeStep DEF ServerTyped
<1>1. CASE WaitEnds
  <2>1. SUFFICES ASSUME NEW a \in Askers PROVE AskerInv(a)'
    BY DEF AskersInv
  <2>2. asker'[a] = Outdated[a] /\ clock' = clock /\ clock = started + wait
    BY <1>1 DEF WaitEnds
  <2>3. AskerInv(a) /\ asker[a] \in Asker
    BY AskerTyped DEF AskersInv
  <2>4. CASE asker[a].reckons = "none"
    <3>1. asker'[a] = asker[a] /\ ~Current(a)
      BY <2>2, <2>4 DEF Outdated, Current
    <3>2. clock <= clock'
      BY <1>0, <2>2 DEF CycleTyped
    <3>3. QED
      BY <1>0, <2>3, <3>1, <3>2, AskerStays
  <2>5. CASE asker[a].reckons # "none"
    <3>1. asker'[a] = [asker[a] EXCEPT !.reckons = "over"]
      BY <2>2, <2>5 DEF Outdated
    <3>2. /\ asker'[a].reckons = "over" /\ asker'[a].at = asker[a].at
          /\ asker'[a].ask = asker[a].ask /\ asker'[a].left = asker[a].left
          /\ asker'[a].until = asker[a].until
      BY <2>3, <3>1 DEF Asker
    <3>3. /\ asker[a].ask \in Nat /\ asker[a].left \in Int
          /\ asker[a].until \in Nat
          /\ asker[a].reckons \in {"none", "on", "crossed", "over"}
      BY AskerTyped, Constants
    <3>4. PICK due \in Int : due = clock
      BY <1>0 DEF CycleTyped
    <3>5. asker[a].until + asker[a].left <= due + asker[a].ask
      <4>1. CASE Current(a)
        BY <2>2, <2>3, <3>3, <3>4, <4>1 DEF AskerInv
      <4>2. CASE ~Current(a)
        BY <2>3, <2>5, <3>3, <3>4, <4>2 DEF AskerInv, Current
      <4>3. QED
        BY <4>1, <4>2
    <3>6. QED
      BY <2>2, <2>3, <3>2, <3>4, <3>5 DEF AskerInv, Current
  <2>6. QED
    BY <2>4, <2>5
<1>2. CASE GoToSleep
  <2>1. SUFFICES ASSUME NEW a \in Askers PROVE AskerInv(a)'
    BY DEF AskersInv
  <2>2. asker'[a] = Idle
    BY <1>2 DEF GoToSleep
  <2>3. QED
    BY <2>2, IdleAsker
<1>3. CASE Wake \/ TakeControl \/ Waits \/ Extend
  <2>1. SUFFICES ASSUME NEW a \in Askers PROVE AskerInv(a)'
    BY DEF AskersInv
  <2>2. asker' = asker /\ clock' = clock /\ phase # "waiting"
    BY <1>3 DEF Wake, TakeControl, Waits, Extend, asking
  <2>3. AskerInv(a) /\ ~Current(a)
    BY <2>2 DEF AskersInv, AskerInv
  <2>4. clock <= clock'
    BY <1>0, <2>2 DEF CycleTyped
  <2>5. QED
    BY <1>0, <2>2, <2>3, <2>4, AskerStays
<1>4. QED
  BY <1>1, <1>2, <1>3 DEF ServerSteps

-----------------------------------------------------------------------------
(* A task that reads, and one whose request is compared, keep everything.   *)
LEMMA ReadsStep ==
  ASSUME ServerTyped, ServerTyped', ServerInv, NEW a \in Askers, NEW ask \in Asks,
         AskReads(a, ask)
  PROVE  ServerInv'
<1> USE Constants
<1>0. /\ CycleTyped /\ asker \in [Askers -> Asker] /\ CycleInv /\ AskersInv
      /\ ask \in Nat
  BY DEF ServerTyped, ServerInv
<1>1. /\ UNCHANGED <<clock, phase, lastSleep, lastDuration, nextTime, started,
                     wait, requested, promised, raced, overran>>
      /\ phase # "asleep" /\ clock > 0
  BY DEF AskReads, Up, sleep, waiting
<1>2. CycleInv'
  BY <1>0, <1>1 DEF Clean, CycleInv, Asleep, Started, Entering, Waiting,
     Extending, Leaving, Clocked, Awake, Base, Wrap
<1>3. ASSUME NEW b \in Askers PROVE AskerInv(b)'
  <2>1. CASE b # a
    <3>1. asker'[b] = asker[b] /\ AskerInv(b)
      BY <1>0, <2>1 DEF AskReads, AskersInv
    <3>2. clock <= clock'
      BY <1>0, <1>1 DEF CycleTyped
    <3>3. QED
      BY <1>0, <1>1, <3>1, <3>2, AskerStays
  <2>2. CASE b = a
    <3> DEFINE how == IF phase = "waiting" THEN "on" ELSE "none"
    <3>1. asker'[a] = [at |-> "tests", ask |-> ask, left |-> WaitTimeLeft,
                       until |-> clock + ask, reckons |-> how]
      BY <1>0 DEF AskReads
    <3>2. /\ asker'[a].at = "tests" /\ asker'[a].ask = ask
          /\ asker'[a].left = WaitTimeLeft /\ asker'[a].until = clock + ask
          /\ asker'[a].reckons = how
      BY <3>1
    <3>3. clock \in Nat /\ started \in Int /\ wait \in Int
      BY <1>0, <1>1 DEF CycleTyped
    <3>4. CASE phase = "waiting"
      <4>1. WaitTimeLeft = started + wait - clock
        BY <1>0, <3>4, RestOfTheWait
      <4>2. (clock + ask) + WaitTimeLeft = started + wait + ask
        BY <1>0, <3>3, <4>1
      <4>3. ask <= clock + ask /\ clock + ask <= clock + ask
        BY <1>0, <3>3
      <4>4. how = "on"
        BY <3>4
      <4>5. QED
        BY <1>1, <2>2, <3>2, <3>4, <4>2, <4>3, <4>4 DEF AskerInv, Current
    <3>5. CASE phase # "waiting"
      <4>1. how = "none" /\ ask <= clock + ask
        BY <1>0, <3>3, <3>5
      <4>2. QED
        BY <2>2, <3>2, <4>1 DEF AskerInv, Current
    <3>6. QED
      BY <3>4, <3>5
  <2>3. QED
    BY <2>1, <2>2
<1>4. QED
  BY <1>2, <1>3 DEF ServerInv, AskersInv

LEMMA TestsStep ==
  ASSUME ServerTyped, ServerTyped', ServerInv, NEW a \in Askers, AskTests(a)
  PROVE  ServerInv'
<1> USE Constants
<1>0. CycleTyped /\ asker \in [Askers -> Asker] /\ CycleInv /\ AskersInv
  BY DEF ServerTyped, ServerInv
<1>1. /\ UNCHANGED <<clock, phase, lastSleep, lastDuration, nextTime, started,
                     wait, requested, overran>>
      /\ raced' = raced \/ (raced' = raced \cup {"early"})
      /\ asker[a].at = "tests"
  BY DEF AskTests, Unnecessary, Denied, Approved, sleep, waiting
<1>2. phase # "asleep"
  BY <1>0, <1>1, IdleTyped DEF CycleInv, Asleep
<1>3. /\ Clean' <=> Clean
      /\ raced' = {} => raced = {}
  BY <1>1 DEF Clean
<1>4. CycleInv'
  <2>1. CASE Unnecessary(a)
    <3>1. PICK told \in Nat : told = promised'
      BY DEF ServerTyped, CycleTyped
    <3>2. ASSUME raced' = {}
          PROVE  /\ phase = "waiting" => told <= started + wait + requested
                 /\ phase \in {"entering", "extending"} => told <= clock + wait
                 /\ phase \in {"up", "leaving"} => told <= clock
      <4>1. AskerInv(a)
        BY <1>0 DEF AskersInv
      <4>2. /\ phase = "waiting" => asker[a].until <= started + wait + requested
            /\ phase \in {"entering", "extending"} => asker[a].until <= clock + wait
            /\ phase \in {"up", "leaving"} => asker[a].until <= clock
        BY <1>0, <2>1, <3>2, <4>1, UnnecessaryIsRight
      <4>3. /\ phase = "waiting" => promised <= started + wait + requested
            /\ phase \in {"entering", "extending"} => promised <= clock + wait
            /\ phase \in {"up", "leaving"} => promised <= clock
        BY <1>0, <1>3, <3>2
        DEF CycleInv, Started, Entering, Waiting, Extending, Leaving
      <4>4. told = promised \/ told = asker[a].until
        BY <2>1, <3>1 DEF Unnecessary, Told
      <4>5. QED
        BY <4>2, <4>3, <4>4
    <3>3. QED
      BY <1>0, <1>1, <1>2, <1>3, <3>1, <3>2 DEF CycleInv, Asleep, Started,
         Entering, Waiting, Extending, Leaving, Clocked, Awake, Base, Wrap
  <2>2. CASE Denied(a) \/ Approved(a)
    <3>1. promised' = promised
      BY <2>2 DEF Denied, Approved
    <3>2. QED
      BY <1>0, <1>1, <1>2, <1>3, <3>1 DEF CycleInv, Asleep, Started, Entering,
         Waiting, Extending, Leaving, Clocked, Awake, Base, Wrap
  <2>3. QED
    BY <2>1, <2>2 DEF AskTests
<1>5. ASSUME NEW b \in Askers PROVE AskerInv(b)'
  <2>0. AskerInv(b) /\ asker[b] \in Asker
    BY <1>0 DEF AskersInv
  <2>1. CASE b # a
    <3>1. asker'[b] = asker[b]
      BY <1>0, <2>1 DEF AskTests, Unnecessary, Denied, Approved
    <3>2. clock <= clock'
      BY <1>0, <1>1 DEF CycleTyped
    <3>3. QED
      BY <1>1, <2>0, <3>1, <3>2, AskerStays
  <2>2. CASE b = a /\ (Unnecessary(a) \/ Denied(a))
    <3>1. asker'[b] = Idle
      BY <1>0, <2>2 DEF Unnecessary, Denied
    <3>2. QED
      BY <3>1, IdleAsker
  <2>3. CASE b = a /\ Approved(a)
    <3>1. asker'[a] = [asker[a] EXCEPT !.at = "grants"]
      BY <1>0, <2>3 DEF Approved
    <3>2. /\ asker'[a].at = "grants" /\ asker'[a].reckons = asker[a].reckons
          /\ asker'[a].ask = asker[a].ask /\ asker'[a].left = asker[a].left
          /\ asker'[a].until = asker[a].until
      BY <2>0, <2>3, <3>1 DEF Asker
    <3>3. /\ asker[a].left < asker[a].ask
          /\ requested < asker[a].ask - asker[a].left
      BY <2>3 DEF Approved, Needed
    <3>4. Current(a) => started + wait + asker[a].ask <= Timebox
      BY <1>0, <2>0, <2>3, FitsTheTimebox DEF Approved
    <3>5. QED
      BY <1>1, <2>0, <2>3, <3>2, <3>3, <3>4 DEF AskerInv, Current
  <2>4. QED
    BY <2>1, <2>2, <2>3 DEF AskTests
<1>6. QED
  BY <1>4, <1>5 DEF ServerInv, AskersInv

(* A task that stores its request breaks what is kept only if it is wrong   *)
(* to, and those that are about to store are crossed.                       *)
LEMMA GrantsStep ==
  ASSUME ServerTyped, ServerTyped', ServerInv, NEW a \in Askers, AskGrants(a)
  PROVE  ServerInv'
<1> USE Constants
<1>0. /\ CycleTyped /\ asker \in [Askers -> Asker] /\ CycleInv /\ AskersInv
      /\ AskerInv(a)
  BY DEF ServerTyped, ServerInv, AskersInv
<1>1. /\ UNCHANGED <<clock, phase, lastSleep, lastDuration, nextTime, started,
                     wait, overran>>
      /\ asker[a].at = "grants" /\ requested' = asker[a].ask - asker[a].left
      /\ raced' = raced \cup Wrongs(a)
  BY DEF AskGrants, sleep
<1>2. phase # "asleep"
  BY <1>0, <1>1, IdleTyped DEF CycleInv, Asleep
<1>3. /\ asker[a].ask \in Nat /\ asker[a].left \in Nat /\ asker[a].until \in Nat
      /\ asker[a].reckons \in {"none", "on", "crossed", "over"}
      /\ asker[a].left < asker[a].ask
  BY <1>0, <1>1, AskerTyped DEF AskerInv
<1>4. /\ clock \in Int /\ started \in Nat /\ wait \in Nat /\ requested \in Nat
      /\ promised \in Nat
  BY <1>0 DEF CycleTyped
<1>5. PICK extra \in Nat : extra = asker[a].ask - asker[a].left
  BY <1>3
<1>6. PICK told \in Nat : told = promised'
  BY DEF ServerTyped, CycleTyped
<1>7. (Clean' => Clean) /\ (raced' = {} => raced = {})
  BY <1>1 DEF Clean
<1>8. CycleInv'
  <2>1. CASE ~Current(a)
    <3>1. ~Clean' /\ raced' # {}
      BY <1>1, <1>3, <2>1 DEF Wrongs, Clean, Current
    <3>2. QED
      BY <1>0, <1>1, <1>2, <3>1 DEF CycleInv, Asleep, Started, Entering,
         Waiting, Extending, Leaving, Clocked, Awake, Base, Wrap
  <2>2. CASE Current(a)
    <3>1. /\ phase = "waiting"
          /\ asker[a].until + asker[a].left = started + wait + asker[a].ask
          /\ started + wait + asker[a].ask <= Timebox
      BY <1>0, <1>1, <2>2 DEF AskerInv
    <3>2. asker[a].until = started + wait + extra
      BY <1>3, <1>4, <1>5, <3>1
    <3>3. started + wait + extra <= Timebox
      BY <1>3, <1>4, <1>5, <3>1
    <3>4. ASSUME raced' = {} PROVE told <= started + wait + extra
      <4>1. requested <= extra
        <5>1. Wrongs(a) = {}
          BY <1>1, <3>4
        <5>2. CASE asker[a].reckons = "crossed"
          <6>1. ~(requested > asker[a].ask - asker[a].left)
            BY <5>1, <5>2 DEF Wrongs
          <6>2. QED
            BY <1>4, <1>5, <6>1
        <5>3. CASE asker[a].reckons = "on"
          <6>1. requested < asker[a].ask - asker[a].left
            BY <1>0, <1>1, <5>3 DEF AskerInv
          <6>2. QED
            BY <1>4, <1>5, <6>1
        <5>4. QED
          BY <2>2, <5>2, <5>3 DEF Current
      <4>2. promised <= started + wait + requested
        BY <1>0, <1>7, <3>1, <3>4 DEF CycleInv, Waiting
      <4>3. promised <= started + wait + extra
        BY <1>4, <4>1, <4>2
      <4>4. told = promised \/ told = asker[a].until
        BY <1>6 DEF AskGrants, Told
      <4>5. started + wait + extra <= started + wait + extra
        BY <1>4
      <4>6. QED
        BY <3>2, <4>3, <4>4, <4>5
    <3>5. Waiting'
      BY <1>0, <1>1, <1>5, <1>6, <3>1, <3>3, <3>4 DEF CycleInv, Waiting
    <3>6. QED
      BY <1>0, <1>1, <1>7, <3>1, <3>5 DEF CycleInv, Asleep, Started, Entering,
         Extending, Leaving, Clocked, Awake, Base, Wrap
  <2>3. QED
    BY <2>1, <2>2
<1>9. ASSUME NEW b \in Askers PROVE AskerInv(b)'
  <2>0. AskerInv(b) /\ asker[b] \in Asker /\ asker'[b] = Crossed(a)[b]
    BY <1>0 DEF AskersInv, AskGrants
  <2>1. CASE b = a
    <3>1. asker'[b] = Idle
      BY <2>0, <2>1 DEF Crossed
    <3>2. QED
      BY <3>1, IdleAsker
  <2>2. CASE b # a /\ asker[b].at = "grants" /\ asker[b].reckons = "on"
    <3>1. asker'[b] = [asker[b] EXCEPT !.reckons = "crossed"]
      BY <2>0, <2>2 DEF Crossed
    <3>2. /\ asker'[b].reckons = "crossed" /\ asker'[b].at = asker[b].at
          /\ asker'[b].ask = asker[b].ask /\ asker'[b].left = asker[b].left
          /\ asker'[b].until = asker[b].until
      BY <2>0, <3>1 DEF Asker
    <3>3. QED
      BY <1>1, <2>0, <2>2, <3>2 DEF AskerInv, Current
  <2>3. CASE b # a /\ ~(asker[b].at = "grants" /\ asker[b].reckons = "on")
    <3>1. asker'[b] = asker[b]
      BY <2>0, <2>3 DEF Crossed
    <3>2. QED
      BY <1>1, <2>0, <2>3, <3>1 DEF AskerInv, Current
  <2>4. QED
    BY <2>1, <2>2, <2>3
<1>10. QED
  BY <1>8, <1>9 DEF ServerInv, AskersInv

(* As time goes on, the server waits or sleeps, and nothing is due.         *)
LEMMA TimeStep ==
  ASSUME ServerTyped, ServerInv, ServerTick
  PROVE  ServerTyped' /\ ServerInv'
<1> USE Constants
<1>0. CycleTyped /\ CycleInv /\ AskersInv
  BY DEF ServerTyped, ServerInv
<1>1. /\ ~(phase = "asleep" /\ clock = 0)
      /\ ~(phase = "up" /\ clock = TakenBy)
      /\ ~(phase = "waiting" /\ clock = started + wait)
      /\ phase \notin {"extending", "entering", "leaving"}
  BY DEF ServerTick, ServerPending
<1>2. clock' = clock + 1
  BY DEF ServerTick
<1>3. UNCHANGED <<phase, lastSleep, lastDuration, nextTime, started, wait,
                  requested, asker, promised, raced, overran>>
  BY DEF ServerTick, sleep, waiting, asking
<1>4. ServerTyped'
  BY <1>2, <1>3 DEF ServerTyped, CycleTyped
<1>5. Asleep' /\ Started' /\ Entering' /\ Waiting' /\ Extending' /\ Leaving'
  BY <1>0, <1>1, <1>2, <1>3 DEF CycleTyped, CycleInv, Asleep, Started, Entering,
     Waiting, Extending, Leaving, Clean
<1>6. Awake => clock' \in 0 .. Timebox
  BY <1>0, <1>1, <1>2
  DEF CycleTyped, CycleInv, Started, Waiting, Clocked, Awake
<1>7. CycleInv'
  BY <1>0, <1>3, <1>5, <1>6 DEF CycleInv, Clocked, Awake, Base, Wrap, Clean
<1>8. ASSUME NEW a \in Askers PROVE AskerInv(a)'
  <2>1. AskerInv(a) /\ asker'[a] = asker[a]
    BY <1>0, <1>3 DEF AskersInv
  <2>2. clock <= clock'
    BY <1>0, <1>2 DEF CycleTyped
  <2>3. QED
    BY <1>3, <1>4, <2>1, <2>2, AskerStays
<1>9. QED
  BY <1>4, <1>7, <1>8 DEF ServerInv, AskersInv

(* Nothing that leaves the server alone changes what it keeps.              *)
LEMMA ServerStutters ==
  ASSUME ServerTyped, ServerInv, UNCHANGED server
  PROVE  ServerTyped' /\ ServerInv'
BY DEF server, sleep, waiting, asking, ServerTyped, CycleTyped, ServerInv,
   CycleInv, AskersInv, AskerInv, Current, Asleep, Started, Entering, Waiting,
   Extending, Leaving, Clocked, Clean, Awake, Base, Wrap

(* Every step of the server keeps its types and what it keeps.              *)
LEMMA ServerStep ==
  ASSUME ServerTyped, ServerInv, [ServerNext]_server
  PROVE  ServerTyped' /\ ServerInv'
<1>0. CycleInv /\ AskersInv
  BY DEF ServerInv
<1>1. CASE ServerSteps
  BY <1>0, <1>1, CycleTypeStep, CycleStep, CycleKeepsAskers DEF ServerInv
<1>2. CASE AskerSteps
  <2>1. ServerTyped'
    BY <1>0, <1>2, AskerTypeStep
  <2>2. QED
    BY <1>2, <2>1, ReadsStep, TestsStep, GrantsStep DEF AskerSteps
<1>3. QED
  BY <1>1, <1>2, TimeStep, ServerStutters DEF ServerNext

(* The server is asleep at first.                                           *)
LEMMA ServerInit ==
  ASSUME Init
  PROVE  ServerTyped /\ ServerInv
<1> USE Constants DEF Init
<1>1. overran \in BOOLEAN
  BY Zenon
<1>2. asker \in [Askers -> Asker]
  BY IdleTyped
<1>3. 0 \in 0 .. Width - 1
  OBVIOUS
<1>4. ServerTyped
  BY <1>1, <1>2, <1>3 DEF ServerTyped, CycleTyped
<1>5. CycleInv
  BY DEF CycleInv, Asleep, Started, Entering, Waiting, Extending, Leaving,
     Clocked, Clean, Awake
<1>6. AskersInv
  BY IdleTyped DEF AskersInv, AskerInv, Current
<1>7. QED
  BY <1>4, <1>5, <1>6 DEF ServerInv

-----------------------------------------------------------------------------
(* The types of the client's variables and of the messages.                 *)
ClientTyped ==
  /\ myClock \in Int /\ -Width <= myClock
  /\ myPhase \in {"asleep", "working", "finding", "asking", "returned"}
  /\ checkAt \in 0 .. Longest
  /\ tries \in 0 .. Tries
  /\ availability \in 0 .. Width - 1
  /\ known \in BOOLEAN /\ inStep \in BOOLEAN

Answer == [delta : 0 .. Width - 1, age : 0 .. MaxDelay]

NetworkTyped == when \in None .. MaxDelay /\ answers \subseteq Answer

(* A number of tries takes no longer than more of them.                     *)
LEMMA MoreTries ==
  ASSUME NEW n \in Nat, NEW m \in Nat, n <= m
  PROVE  /\ Try * n \in Nat /\ Try * n <= Try * m
         /\ Try * (n + 1) = Try * n + Try
<1>1. Try \in Nat
  BY Constants
<1>2. PICK k \in Nat : m = n + k
  <2>1. m - n \in Nat /\ m = n + (m - n)
    OBVIOUS
  <2>2. QED
    BY <2>1
<1>3. Try * (n + k) = Try * n + Try * k /\ Try * (n + 1) = Try * n + Try
  BY <1>1
<1>4. Try * n \in Nat /\ Try * k \in Nat
  BY <1>1
<1>5. QED
  BY <1>2, <1>3, <1>4

(* For as long as the client waits at most.                                 *)
LEMMA LongestWait ==
  Longest \in Nat /\ MaxWork + Patience <= Longest
<1>1. Try * Tries \in Nat
  BY Constants
<1>2. QED
  BY <1>1, Constants DEF Longest

(* The client sleeps for a while.                                           *)
LEMMA SleepsStep ==
  ASSUME NEW length \in 0 .. Width - 1, Sleeps(length), inStep' \in BOOLEAN
  PROVE  ClientTyped' /\ AskingInv'
<1>1. Width \in Nat /\ MaxWork \in Nat /\ Tries \in Nat
  BY Constants
<1>2. Longest \in Nat
  BY LongestWait
<1>3. FALSE \in BOOLEAN
  BY Zenon
<1>4. /\ myPhase' = "asleep" /\ myClock' = -length /\ checkAt' = 0
      /\ tries' = 0 /\ availability' = 0 /\ known' = FALSE
  BY DEF Sleeps
<1>5. /\ -length \in Int /\ -Width <= -length /\ -length <= 0
      /\ 0 \in 0 .. Longest /\ 0 \in 0 .. Tries /\ 0 \in 0 .. Width - 1
  BY <1>1, <1>2
<1>6. ClientTyped'
  BY <1>3, <1>4, <1>5 DEF ClientTyped
<1>7. AskingInv'
  BY <1>4, <1>5 DEF AskingInv
<1>8. QED
  BY <1>6, <1>7

(* It asks, again or for the first time.                                    *)
LEMMA AskingStep ==
  ASSUME ClientTyped, Asking, myPhase' = "asking",
         UNCHANGED <<myClock, known, inStep>>,
         NEW n \in Nat, n < Tries, tries' = n, 0 <= myClock,
         myClock <= MaxWork + Patience + Try * n, availability' \in 0 .. Width - 1
  PROVE  ClientTyped' /\ AskingInv'
<1>1. Tries \in Nat /\ MaxWork \in Nat /\ Try \in Nat /\ Patience \in Nat
  BY Constants
<1>2. /\ Try * n \in Nat /\ Try * (n + 1) = Try * n + Try
      /\ Try * (n + 1) <= Try * Tries /\ Try * Tries \in Nat
  BY <1>1, MoreTries
<1>3. checkAt' = myClock + Try
  BY DEF Asking
<1>4. checkAt' <= MaxWork + Patience + Try * (n + 1)
  BY <1>1, <1>2, <1>3 DEF ClientTyped
<1>5. checkAt' \in 0 .. Longest
  BY <1>1, <1>2, <1>3, <1>4 DEF ClientTyped, Longest
<1>6. ClientTyped'
  BY <1>1, <1>5 DEF ClientTyped
<1>7. AskingInv'
  BY <1>1, <1>3, <1>4 DEF AskingInv, ClientTyped
<1>8. QED
  BY <1>6, <1>7

(* It starts to ask when the conductor is known.                            *)
LEMMA StartsAskingStep ==
  ASSUME ClientTyped, AskingInv, StartsAsking, myPhase \in {"working", "finding"}
  PROVE  ClientTyped' /\ AskingInv'
<1>1. 0 < Tries /\ 0 \in Nat /\ 0 \in 0 .. Width - 1 /\ Try * 0 = 0
  BY Constants
<1>2. 0 <= myClock /\ myClock <= MaxWork + Patience + Try * 0
  BY <1>1, Constants DEF AskingInv, ClientTyped
<1>3. QED
  BY <1>1, <1>2, AskingStep DEF StartsAsking

(* Every step keeps the types of the client and how often it asks.          *)
LEMMA ClientStep ==
  ASSUME ClientTyped, NetworkTyped, AskingInv, [Next]_vars
  PROVE  ClientTyped' /\ AskingInv'
<1>1. ASSUME MyWake PROVE ClientTyped' /\ AskingInv'
  BY <1>1, Constants DEF MyWake, ClientTyped, AskingInv
<1>2. ASSUME GiveControl \/ Finds PROVE ClientTyped' /\ AskingInv'
  <2>1. CASE StartsAsking
    BY <1>2, <2>1, StartsAskingStep DEF GiveControl, Finds
  <2>2. CASE ~StartsAsking
    <3>1. /\ myPhase = "working" /\ myPhase' = "finding"
          /\ checkAt' = myClock + Patience
          /\ UNCHANGED <<myClock, known, tries, availability, inStep>>
      BY <1>2, <2>2 DEF GiveControl, Finds
    <3>2. myClock \in 0 .. MaxWork
      BY <3>1 DEF AskingInv
    <3>3. /\ checkAt' \in 0 .. Longest /\ myClock <= checkAt'
          /\ checkAt' <= MaxWork + Patience
      BY <3>1, <3>2, LongestWait, Constants
    <3>4. ClientTyped'
      BY <3>1, <3>3 DEF ClientTyped
    <3>5. AskingInv'
      BY <3>1, <3>2, <3>3 DEF AskingInv
    <3>6. QED
      BY <3>4, <3>5
  <2>3. QED
    BY <2>1, <2>2
<1>3. ASSUME SleepsUntilAvailable PROVE ClientTyped' /\ AskingInv'
  <2>1. availability - myClock + AwakeMargin \in Int
    BY Constants DEF ClientTyped
  <2>2. inStep' \in BOOLEAN
    BY <1>3, Zenon DEF SleepsUntilAvailable
  <2>3. QED
    BY <1>3, <2>1, <2>2, WrapType, SleepsStep DEF SleepsUntilAvailable
<1>4. ASSUME AsksAgain PROVE ClientTyped' /\ AskingInv'
  <2>1. /\ tries + 1 \in Nat /\ tries + 1 < Tries /\ tries' = tries + 1
        /\ 0 <= myClock /\ myClock <= MaxWork + Patience + Try * (tries + 1)
        /\ myPhase' = "asking" /\ availability' \in 0 .. Width - 1
    BY <1>4 DEF AsksAgain, AskingInv, ClientTyped
  <2>2. QED
    BY <1>4, <2>1, AskingStep DEF AsksAgain
<1>5. ASSUME GivesUp PROVE ClientTyped' /\ AskingInv'
  <2>1. RetryWait \in 0 .. Width - 1
    BY Constants, ClientAssumption
  <2>2. inStep' \in BOOLEAN
    BY <1>5, Zenon DEF GivesUp
  <2>3. QED
    BY <1>5, <2>1, <2>2, SleepsStep DEF GivesUp
<1>6. ASSUME FindsNobody PROVE ClientTyped' /\ AskingInv'
  <2>1. /\ myPhase' = "returned" /\ myClock' = 0 /\ checkAt' = 0
        /\ UNCHANGED <<known, tries, availability>>
    BY <1>6 DEF FindsNobody
  <2>2. inStep' \in BOOLEAN
    BY <1>6, Zenon DEF FindsNobody
  <2>3. 0 \in 0 .. Longest /\ -Width <= 0 /\ 0 \in Int
    BY LongestWait, Constants
  <2>4. ClientTyped'
    BY <2>1, <2>2, <2>3 DEF ClientTyped
  <2>5. ~inStep'
    BY <1>6 DEF FindsNobody
  <2>6. AskingInv'
    BY <2>1, <2>5 DEF AskingInv
  <2>7. QED
    BY <2>4, <2>6
<1>7. ASSUME Introduced \/ CallsAgain PROVE ClientTyped' /\ AskingInv'
  <2>1. known' \in BOOLEAN
    BY <1>7, Zenon DEF Introduced, CallsAgain, ClientTyped
  <2>2. UNCHANGED <<myClock, checkAt, tries, availability, inStep>>
    BY <1>7 DEF Introduced, CallsAgain
  <2>3. \/ myPhase' = myPhase
        \/ myPhase = "returned" /\ myPhase' = "working"
    BY <1>7 DEF Introduced, CallsAgain
  <2>4. QED
    BY <2>1, <2>2, <2>3, Constants DEF ClientTyped, AskingInv
<1>8. ASSUME NEW answer \in answers, ThenArrives(answer)
      PROVE ClientTyped' /\ AskingInv'
  <2>1. myClock + answer.delta \in Int
    BY Constants DEF ClientTyped, NetworkTyped, Answer
  <2>2. QED
    BY <1>8, <2>1, WrapType DEF ThenArrives, ClientTyped, AskingInv
<1>9. ASSUME UNCHANGED client PROVE ClientTyped' /\ AskingInv'
  BY <1>9 DEF client, ClientTyped, AskingInv
<1>10. ASSUME Tick PROVE ClientTyped' /\ AskingInv'
  <2>1. /\ myPhase = "asleep" => myClock # 0
        /\ myPhase = "working" => myClock # MaxWork
        /\ myPhase = "finding" => myClock # checkAt
        /\ myPhase = "asking" => myClock # checkAt
    BY <1>10 DEF Tick, MyPending
  <2>2. UNCHANGED <<myPhase, known, checkAt, tries, availability, inStep>>
    BY <1>10 DEF Tick
  <2>3. CASE myPhase = "returned"
    <3>1. myClock' = myClock
      BY <1>10, <2>3 DEF Tick
    <3>2. QED
      BY <2>2, <2>3, <3>1 DEF ClientTyped, AskingInv
  <2>4. CASE myPhase # "returned"
    <3>1. myClock' = myClock + 1
      BY <1>10, <2>4 DEF Tick
    <3>2. ClientTyped'
      BY <2>2, <3>1, Constants DEF ClientTyped
    <3>3. AskingInv'
      BY <2>1, <2>2, <2>4, <3>1, Constants, LongestWait DEF ClientTyped, AskingInv
    <3>4. QED
      BY <3>2, <3>3
  <2>5. QED
    BY <2>3, <2>4
<1>11. QED
  BY <1>1, <1>2, <1>3, <1>4, <1>5, <1>6, <1>7, <1>8, <1>9, <1>10
  DEF Next, ServerAlone, ClientSteps, Answered, vars, WhenArrives, Lost

(* Every step keeps the types of the messages under way.                    *)
LEMMA NetworkStep ==
  ASSUME ServerTyped, NetworkTyped, [Next]_vars
  PROVE  NetworkTyped'
<1>1. ASSUME WhenArrives PROVE NetworkTyped'
  <2>1. SinceStart \in Int
    BY Constants, WrapType DEF SinceStart, ServerTyped, CycleTyped
  <2>2. nextTime - SinceStart + ServerMargin \in Int
    BY <2>1, Constants DEF ServerTyped, CycleTyped
  <2>3. [delta |-> Wrap(nextTime - SinceStart + ServerMargin), age |-> 0]
          \in Answer
    BY <2>2, WrapType, Constants DEF Answer
  <2>4. QED
    BY <1>1, <2>3, Constants DEF WhenArrives, NetworkTyped, None
<1>2. ASSUME NEW answer \in answers, ThenArrives(answer) PROVE NetworkTyped'
  BY <1>2 DEF ThenArrives, NetworkTyped
<1>3. ASSUME Lost PROVE NetworkTyped'
  BY <1>3, Constants DEF Lost, NetworkTyped, None
<1>4. ASSUME Asking, UNCHANGED answers PROVE NetworkTyped'
  BY <1>4, Constants DEF Asking, NetworkTyped, None
<1>5. ASSUME UNCHANGED network PROVE NetworkTyped'
  BY <1>5 DEF network, NetworkTyped
<1>6. ASSUME Tick PROVE NetworkTyped'
  <2>1. when # MaxDelay /\ \A answer \in answers : answer.age # MaxDelay
    BY <1>6 DEF Tick, MyPending
  <2>2. ASSUME NEW answer \in answers
        PROVE  [answer EXCEPT !.age = @ + 1] \in Answer
    BY <2>1, Constants DEF NetworkTyped, Answer
  <2>3. answers' \subseteq Answer
    BY <1>6, <2>2 DEF Tick
  <2>4. when' \in None .. MaxDelay
    BY <1>6, <2>1, Constants DEF Tick, NetworkTyped, None
  <2>5. QED
    BY <2>3, <2>4 DEF NetworkTyped
<1>7. QED
  BY <1>1, <1>2, <1>3, <1>4, <1>5, <1>6
  DEF Next, ServerAlone, ClientSteps, Answered, vars, network, MyWake, Introduced,
      CallsAgain, StartsAsking, GiveControl, Finds, FindsNobody,
      SleepsUntilAvailable, Sleeps, AsksAgain, GivesUp

-----------------------------------------------------------------------------
(* While time stands still, the beginning of the next period stays where it *)
(* is: when the server wakes and when it goes to sleep, too.  Only a period *)
(* that began AwakeTime ago may be over.                                    *)
LEMMA AimStays ==
  ASSUME ServerTyped, ServerInv, [Next]_vars, ~Tick,
         NEW far \in Int, Aim(far), ServerMargin - AwakeTime < far
  PROVE  Aim(far)'
<1> USE Constants
<1>1. ASSUME Wake PROVE Aim(far)'
  BY <1>1 DEF Wake, Aim, Awake
<1>2. ASSUME GoToSleep PROVE Aim(far)'
  <2>1. clock \in 0 .. Timebox /\ AwakeTime <= clock
    BY <1>2 DEF GoToSleep, ServerInv, CycleInv, Clocked, Leaving, Awake
  <2>2. SleepLength = CycleTime - clock
    BY <2>1, ServerAssumption, NoWrap DEF SleepLength
  <2>3. far = CycleTime - clock + ServerMargin
    BY <2>1 DEF Aim
  <2>4. clock' = -(CycleTime - clock)
    BY <1>2, <2>2 DEF GoToSleep
  <2>5. far = ServerMargin - clock'
    BY <2>1, <2>3, <2>4
  <2>6. QED
    BY <2>5 DEF Aim
<1>3. ASSUME UNCHANGED clock, Awake' <=> Awake PROVE Aim(far)'
  BY <1>3 DEF Aim
<1>4. CASE TakeControl \/ Waits \/ WaitEnds \/ Extend
  <2>1. UNCHANGED clock /\ (Awake' <=> Awake)
    BY <1>4 DEF TakeControl, Up, Waits, WaitEnds, Extend, Awake
  <2>2. QED
    BY <1>3, <2>1
<1>5. CASE AskerSteps
  <2>1. UNCHANGED <<clock, phase>>
    BY <1>5 DEF AskerSteps, AskReads, AskTests, Unnecessary, Denied, Approved,
       AskGrants
  <2>2. QED
    BY <1>3, <2>1 DEF Awake
<1>6. CASE UNCHANGED server
  BY <1>3, <1>6 DEF server, Awake
<1>7. QED
  BY <1>1, <1>2, <1>4, <1>5, <1>6
  DEF Next, ServerAlone, ServerSteps, ClientSteps, Answered, vars, MyWake,
      Introduced, CallsAgain, StartsAsking, GiveControl, Finds, FindsNobody,
      SleepsUntilAvailable, Sleeps, AsksAgain, GivesUp, WhenArrives, ThenArrives,
      Lost

(* As time goes on, it comes nearer.                                        *)
LEMMA AimNears ==
  ASSUME ServerTyped, Tick, NEW far \in Int, Aim(far)
  PROVE  Aim(far - 1)'
<1>1. clock' = clock + 1 /\ (Awake' <=> Awake)
  BY DEF Tick, ServerTick, Awake
<1>2. QED
  BY <1>1, Constants DEF Aim, ServerTyped, CycleTyped

(* It is never farther away than the cycle and the margin.                  *)
LEMMA AimRange ==
  ASSUME ServerTyped, ServerInv, NEW far \in Int, Aim(far)
  PROVE  far <= CycleTime + ServerMargin
BY Constants
DEF ServerTyped, CycleTyped, ServerInv, CycleInv, Asleep, Clocked, Awake, Aim

(* What the server tells is the beginning of the next period.               *)
LEMMA ServerTells ==
  ASSUME ServerTyped, ServerInv, Up
  PROVE  Wrap(nextTime - SinceStart + ServerMargin)
           = CycleTime - clock + ServerMargin
<1>1. clock \in 0 .. Timebox /\ nextTime = Wrap(Base + CycleTime)
  BY DEF Up, ServerInv, CycleInv, Clocked, Awake
<1>2. PICK base \in Int : base = Base
  BY <1>1, TimeSinceStart DEF ServerTyped
<1>3. SinceStart = Wrap(base + clock)
  BY <1>1, <1>2, TimeSinceStart DEF ServerTyped
<1>4. PICK a \in Int : a = base + CycleTime
  BY Constants
<1>5. PICK b \in Int : b = base + clock
  BY <1>1
<1>6. a - b + ServerMargin = CycleTime - clock + ServerMargin
  BY <1>1, <1>4, <1>5, Constants
<1>7. CycleTime - clock + ServerMargin \in 0 .. Width - 1
  BY <1>1, Constants, ServerAssumption, CycleAssumption
<1>8. Wrap(Wrap(a) - Wrap(b) + ServerMargin) = a - b + ServerMargin
  BY <1>6, <1>7, Constants, WrapDistance
<1>9. QED
  BY <1>1, <1>2, <1>3, <1>4, <1>5, <1>6, <1>8

(* Every step keeps the answers right: they tell the beginning of the next  *)
(* period from the moment at which they were sent.                          *)
LEMMA AnswersStep ==
  ASSUME ServerTyped, NetworkTyped, ServerInv, AnswersInv, [Next]_vars
  PROVE  AnswersInv'
<1> USE Constants
<1>1. CASE Tick
  <2>1. SUFFICES ASSUME NEW later \in answers'
                 PROVE  /\ ServerMargin + CycleTime - Timebox <= later.delta
                        /\ Aim(later.delta - later.age)'
    BY DEF AnswersInv
  <2>2. PICK answer \in answers : later = [answer EXCEPT !.age = @ + 1]
    BY <1>1, <2>1 DEF Tick
  <2>3. answer \in Answer
    BY DEF NetworkTyped
  <2>4. later.delta = answer.delta /\ later.age = answer.age + 1
    BY <2>2, <2>3 DEF Answer
  <2>5. PICK far \in Int : far = answer.delta - answer.age
    BY <2>3 DEF Answer
  <2>6. Aim(far)
    BY <2>5 DEF AnswersInv
  <2>7. Aim(far - 1)'
    BY <1>1, <2>6, AimNears
  <2>8. later.delta - later.age = far - 1
    BY <2>3, <2>4, <2>5 DEF Answer
  <2>9. QED
    BY <2>4, <2>7, <2>8 DEF AnswersInv
<1>2. CASE ~Tick
  <2>1. ASSUME NEW answer \in answers
        PROVE  Aim(answer.delta - answer.age)'
    <3>1. answer \in Answer
      BY DEF NetworkTyped
    <3>2. PICK far \in Int : far = answer.delta - answer.age
      BY <3>1 DEF Answer
    <3>3. ServerMargin - AwakeTime < far
      BY <3>1, <3>2, CycleAssumption, MeetingAssumption DEF AnswersInv, Answer
    <3>4. Aim(far)'
      BY <1>2, <3>2, <3>3, AimStays DEF AnswersInv
    <3>5. QED
      BY <3>2, <3>4
  <2>2. CASE answers' \subseteq answers
    BY <2>1, <2>2 DEF AnswersInv
  <2>3. CASE WhenArrives
    <3>1. PICK delta \in Int : delta = CycleTime - clock + ServerMargin
      BY DEF ServerTyped, CycleTyped
    <3>2. answers' = answers \cup {[delta |-> delta, age |-> 0]}
      BY <2>3, <3>1, ServerTells DEF WhenArrives
    <3>3. Awake /\ clock \in 0 .. Timebox
      BY <2>3 DEF WhenArrives, Up, ServerInv, CycleInv, Clocked, Awake
    <3>4. UNCHANGED clock /\ Awake'
      BY <2>3, <3>3 DEF WhenArrives, server, Awake
    <3>5. Aim(delta - 0)'
      BY <3>1, <3>4 DEF Aim
    <3>6. ServerMargin + CycleTime - Timebox <= delta
      BY <3>1, <3>3
    <3>7. QED
      BY <2>1, <3>2, <3>5, <3>6 DEF AnswersInv
  <2>4. QED
    BY <1>2, <2>2, <2>3
    DEF Next, ServerAlone, ClientSteps, Answered, vars, network, MyWake,
        Introduced, CallsAgain, StartsAsking, GiveControl, Finds, FindsNobody,
        SleepsUntilAvailable, Sleeps, AsksAgain, GivesUp, ThenArrives, Lost
<1>3. QED
  BY <1>1, <1>2

-----------------------------------------------------------------------------
(* The same for one who has heard of it late.                               *)
LEMMA AimedStays ==
  ASSUME ServerTyped, ServerInv, [Next]_vars, ~Tick, NEW slack \in Nat,
         NEW far \in Int, ServerMargin - AwakeTime + slack < far,
         Aimed(far, slack)
  PROVE  Aimed(far, slack)'
<1>1. PICK late \in 0 .. slack : Aim(far - late)
  BY DEF Aimed
<1>2. PICK exact \in Int : exact = far - late
  OBVIOUS
<1>3. ServerMargin - AwakeTime < exact
  BY <1>2, Constants
<1>4. Aim(exact)'
  BY <1>1, <1>2, <1>3, AimStays
<1>5. QED
  BY <1>2, <1>4 DEF Aimed

(* And it comes nearer for them as time goes on.                            *)
LEMMA AimedNears ==
  ASSUME ServerTyped, Tick, NEW slack \in Nat, NEW far \in Int,
         Aimed(far, slack)
  PROVE  Aimed(far - 1, slack)'
<1>1. PICK late \in 0 .. slack : Aim(far - late)
  BY DEF Aimed
<1>2. PICK exact \in Int : exact = far - late
  OBVIOUS
<1>3. Aim(exact - 1)'
  BY <1>1, <1>2, AimNears
<1>4. exact - 1 = (far - 1) - late
  BY <1>2
<1>5. QED
  BY <1>3, <1>4 DEF Aimed

(* Every step keeps what the client has heard: it is wrapped, but still     *)
(* tells when the next period begins, late by the delay of a message.       *)
LEMMA HeardStep ==
  ASSUME ServerTyped, ClientTyped, NetworkTyped, ServerInv, MeetingInv,
         [Next]_vars
  PROVE  HeardInv'
<1> USE Constants
<1>1. ASSUME NEW answer \in answers, ThenArrives(answer) PROVE HeardInv'
  <2>1. SUFFICES ASSUME myPhase' = "asking" PROVE HeardInv'
    BY DEF HeardInv
  <2>2. answer \in Answer
    BY DEF NetworkTyped
  <2>3. PICK far \in 0 .. Width - 1 : far = answer.delta
    BY <2>2 DEF Answer
  <2>4. PICK late \in 0 .. MaxDelay : late = answer.age
    BY <2>2 DEF Answer
  <2>5. /\ UNCHANGED <<clock, phase, myClock, checkAt>> /\ myPhase = "asking"
        /\ availability' = Wrap(myClock + far)
    BY <1>1, <2>1, <2>3 DEF ThenArrives, server
  <2>6. Aim(far - late)'
    BY <2>3, <2>4, <2>5 DEF MeetingInv, AnswersInv, Aim, Awake
  <2>7. Aimed(far, MaxDelay)'
    BY <2>6 DEF Aimed
  <2>8. checkAt - myClock <= far
    <3>1. ServerMargin + CycleTime - Timebox <= far
      BY <2>3 DEF MeetingInv, AnswersInv
    <3>2. Try <= far
      BY <3>1, CycleAssumption
    <3>3. checkAt <= myClock + Try
      BY <2>5 DEF MeetingInv, AskingInv
    <3>4. QED
      BY <3>2, <3>3 DEF ClientTyped
  <2>9. far \in checkAt' - myClock' .. Width - 1
    BY <2>5, <2>8 DEF ClientTyped
  <2>10. availability' = Wrap(myClock' + far)
    BY <2>5
  <2>11. QED
    BY <2>7, <2>9, <2>10 DEF HeardInv
<1>2. CASE Tick
  <2>1. SUFFICES ASSUME myPhase' = "asking", availability' > 0 PROVE HeardInv'
    BY DEF HeardInv
  <2>2. /\ UNCHANGED <<myPhase, availability, checkAt>>
        /\ myClock' = myClock + 1 /\ myClock # checkAt
    BY <1>2, <2>1 DEF Tick, MyPending
  <2>3. PICK far \in checkAt - myClock .. Width - 1 :
          availability = Wrap(myClock + far) /\ Aimed(far, MaxDelay)
    BY <2>1, <2>2 DEF MeetingInv, HeardInv
  <2>4. checkAt \in Int /\ myClock \in Int
    BY DEF ClientTyped
  <2>5. far \in Int
    BY <2>3, <2>4
  <2>6. PICK nearer \in Int : nearer = far - 1
    BY <2>5
  <2>7. Aimed(nearer, MaxDelay)'
    BY <1>2, <2>3, <2>5, <2>6, AimedNears
  <2>8. nearer \in checkAt' - myClock' .. Width - 1
    BY <2>2, <2>3, <2>4, <2>5, <2>6
  <2>9. myClock' + nearer = myClock + far
    BY <2>2, <2>4, <2>5, <2>6
  <2>10. availability' = Wrap(myClock' + nearer)
    BY <2>2, <2>3, <2>9
  <2>11. QED
    BY <2>7, <2>8, <2>10 DEF HeardInv
<1>3. CASE UNCHANGED <<myPhase, availability, checkAt, myClock>> /\ ~Tick
  <2>1. SUFFICES ASSUME myPhase' = "asking", availability' > 0 PROVE HeardInv'
    BY DEF HeardInv
  <2>2. UNCHANGED <<myPhase, availability, checkAt, myClock>>
    BY <1>3
  <2>3. PICK far \in checkAt - myClock .. Width - 1 :
          availability = Wrap(myClock + far) /\ Aimed(far, MaxDelay)
    BY <2>1, <2>2 DEF MeetingInv, HeardInv
  <2>4. checkAt \in Int /\ myClock \in Int /\ myClock <= checkAt
    BY <2>1, <2>2 DEF ClientTyped, MeetingInv, AskingInv
  <2>5. far \in Int /\ 0 <= far
    BY <2>3, <2>4
  <2>6. ServerMargin - AwakeTime + MaxDelay < far
    BY <2>5, MeetingAssumption
  <2>7. Aimed(far, MaxDelay)'
    BY <1>3, <2>3, <2>5, <2>6, AimedStays
  <2>8. QED
    BY <2>2, <2>3, <2>7 DEF HeardInv
<1>4. CASE \/ GiveControl \/ Finds \/ FindsNobody \/ CallsAgain \/ AsksAgain
          \/ MyWake \/ SleepsUntilAvailable \/ GivesUp
  <2>1. myPhase' # "asking" \/ availability' = 0
    BY <1>4 DEF GiveControl, Finds, StartsAsking, FindsNobody, CallsAgain,
       AsksAgain, MyWake, SleepsUntilAvailable, GivesUp, Sleeps
  <2>2. QED
    BY <2>1 DEF HeardInv
<1>5. CASE \E answer \in answers : ThenArrives(answer)
  BY <1>1, <1>5
<1>6. QED
  BY <1>2, <1>3, <1>4, <1>5
  DEF Next, ServerAlone, ClientSteps, Answered, vars, client, Introduced,
      WhenArrives, Lost

(* Every step keeps the moment at which a client in step wakes.             *)
LEMMA InStepStep ==
  ASSUME ServerTyped, ClientTyped, NetworkTyped, ServerInv, MeetingInv,
         [Next]_vars
  PROVE  InStepInv'
<1> USE Constants
<1>0. MaxDelay + AwakeMargin \in Nat
  OBVIOUS
<1>1. CASE SleepsUntilAvailable
  <2>1. /\ myPhase = "asking" /\ myClock = checkAt /\ availability > 0
        /\ myClock' = -Wrap(availability - myClock + AwakeMargin)
        /\ UNCHANGED <<clock, phase>>
    BY <1>1 DEF SleepsUntilAvailable, Sleeps, server
  <2>2. PICK far \in checkAt - myClock .. Width - 1 :
          availability = Wrap(myClock + far) /\ Aimed(far, MaxDelay)
    BY <2>1 DEF MeetingInv, HeardInv
  <2>3. checkAt \in Int /\ myClock \in Int /\ myClock \in 0 .. checkAt
    BY <2>1 DEF ClientTyped, MeetingInv, AskingInv
  <2>4. far \in Nat
    BY <2>1, <2>2, <2>3
  <2>5. PICK late \in 0 .. MaxDelay : Aim(far - late)
    BY <2>2 DEF Aimed
  <2>6. far <= CycleTime + ServerMargin + MaxDelay
    <3>1. PICK exact \in Int : exact = far - late
      BY <2>4
    <3>2. exact <= CycleTime + ServerMargin
      BY <2>5, <3>1, AimRange
    <3>3. QED
      BY <2>4, <3>1, <3>2
  <2>7. far + AwakeMargin \in 0 .. Width - 1
    BY <2>4, <2>6, CycleAssumption
  <2>8. availability - myClock + AwakeMargin
          = Wrap(myClock + far) + (AwakeMargin - myClock)
    BY <2>2, <2>3 DEF ClientTyped
  <2>9. Wrap(Wrap(myClock + far) + (AwakeMargin - myClock)) = far + AwakeMargin
    <3>1. PICK a \in Int : a = myClock + far
      BY <2>3, <2>4
    <3>2. PICK b \in Int : b = AwakeMargin - myClock
      BY <2>3
    <3>3. a + b = far + AwakeMargin
      BY <2>3, <2>4, <3>1, <3>2
    <3>4. QED
      BY <2>7, <3>1, <3>2, <3>3, WrapAdd, NoWrap
  <2>10. myClock' = -(far + AwakeMargin)
    BY <2>1, <2>8, <2>9
  <2>11. PICK more \in 0 .. MaxDelay + AwakeMargin : more = late + AwakeMargin
    OBVIOUS
  <2>12. -myClock' - more = far - late
    BY <2>4, <2>10, <2>11
  <2>13. Aim(-myClock - more)'
    BY <2>1, <2>5, <2>12 DEF Aim, Awake
  <2>14. QED
    BY <2>13 DEF InStepInv, Aimed
<1>2. CASE Tick
  <2>1. SUFFICES ASSUME inStep',
                        myPhase' = "asleep" \/ (myPhase' = "working" /\ myClock' = 0)
                 PROVE  Aimed(-myClock, MaxDelay + AwakeMargin)'
    BY DEF InStepInv
  <2>2. UNCHANGED <<myPhase, inStep>> /\ myClock' = myClock + 1
    BY <1>2, <2>1 DEF Tick
  <2>3. myPhase = "asleep"
    BY <2>1, <2>2 DEF ClientTyped, MeetingInv, AskingInv
  <2>4. PICK far \in Int : far = -myClock
    BY DEF ClientTyped
  <2>5. Aimed(far, MaxDelay + AwakeMargin)
    BY <2>1, <2>2, <2>3, <2>4 DEF MeetingInv, InStepInv
  <2>6. Aimed(far - 1, MaxDelay + AwakeMargin)'
    BY <1>0, <1>2, <2>5, AimedNears
  <2>7. far - 1 = -myClock'
    BY <2>2, <2>4 DEF ClientTyped
  <2>8. QED
    BY <2>6, <2>7
<1>3. CASE /\ ~Tick /\ UNCHANGED <<myClock, inStep>>
           /\ \/ myPhase' = myPhase \/ (MyWake /\ myPhase = "asleep")
              \/ myPhase' \in {"finding", "asking"}
  <2>1. SUFFICES ASSUME inStep',
                        myPhase' = "asleep" \/ (myPhase' = "working" /\ myClock' = 0)
                 PROVE  Aimed(-myClock, MaxDelay + AwakeMargin)'
    BY DEF InStepInv
  <2>2. /\ inStep
        /\ myPhase = "asleep" \/ (myPhase = "working" /\ myClock = 0)
    BY <1>3, <2>1
  <2>3. PICK far \in Int : far = -myClock
    BY DEF ClientTyped
  <2>4. Aimed(far, MaxDelay + AwakeMargin)
    BY <2>2, <2>3 DEF MeetingInv, InStepInv
  <2>5. 0 <= far
    BY <2>2, <2>3 DEF MeetingInv, AskingInv, ClientTyped
  <2>6. ServerMargin - AwakeTime + (MaxDelay + AwakeMargin) < far
    BY <2>5, MeetingAssumption
  <2>7. Aimed(far, MaxDelay + AwakeMargin)'
    BY <1>0, <1>3, <2>4, <2>6, AimedStays
  <2>8. far = -myClock'
    BY <1>3, <2>3
  <2>9. QED
    BY <2>7, <2>8
<1>4. CASE GivesUp \/ FindsNobody
  BY <1>4 DEF GivesUp, FindsNobody, InStepInv
<1>5. CASE CallsAgain
  <2>1. ~inStep'
    BY <1>5 DEF CallsAgain, MeetingInv, AskingInv
  <2>2. QED
    BY <2>1 DEF InStepInv
<1>6. QED
  BY <1>1, <1>2, <1>3, <1>4, <1>5
  DEF Next, ServerAlone, ClientSteps, Answered, vars, client, MyWake, Introduced,
      StartsAsking, GiveControl, Finds, AsksAgain, WhenArrives, ThenArrives, Lost

-----------------------------------------------------------------------------
(* The inductive invariant.                                                 *)
IInv == ServerTyped /\ ClientTyped /\ NetworkTyped /\ ServerInv /\ MeetingInv

(* Both processors are asleep at first, and nobody has been told anything.  *)
LEMMA InitIInv ==
  ASSUME ConductorInit
  PROVE  IInv
<1> USE Constants
<1>1. ServerTyped /\ ServerInv
  BY ServerInit DEF ConductorInit
<1>2. NetworkTyped
  BY DEF ConductorInit, NetworkTyped, None
<1>3. ClientTyped
  <2>1. 0 \in 0 .. Width - 1 /\ 0 \in 0 .. Tries /\ 0 \in 0 .. Longest
    BY LongestWait
  <2>2. myClock \in Int /\ -Width <= myClock
    BY ServerAssumption DEF ConductorInit
  <2>3. known \in BOOLEAN /\ inStep \in BOOLEAN
    BY Zenon DEF ConductorInit
  <2>4. QED
    BY <2>1, <2>2, <2>3 DEF ConductorInit, ClientTyped
<1>4. MeetingInv
  BY DEF ConductorInit, MeetingInv, AskingInv, AnswersInv, HeardInv, InStepInv
<1>5. QED
  BY <1>1, <1>2, <1>3, <1>4 DEF IInv

(* A step of the conductor is one of the server or leaves it alone.         *)
LEMMA StepsOfTheServer ==
  ASSUME [Next]_vars
  PROVE  [ServerNext]_server
BY DEF Next, ServerAlone, ClientSteps, Answered, vars, ServerNext, MyWake,
   Introduced, CallsAgain, StartsAsking, GiveControl, Finds, FindsNobody,
   SleepsUntilAvailable, Sleeps, AsksAgain, GivesUp, WhenArrives, ThenArrives,
   Lost, Tick

(* The invariant holds in every reachable state.                            *)
THEOREM CoreInvariant == Spec => []IInv
<1>1. ConductorInit => IInv
  BY InitIInv
<1>2. IInv /\ [Next]_vars => IInv'
  <2>1. SUFFICES ASSUME IInv, [Next]_vars PROVE IInv'
    OBVIOUS
  <2>2. /\ ServerTyped /\ ClientTyped /\ NetworkTyped /\ ServerInv
        /\ MeetingInv /\ AskingInv /\ AnswersInv
    BY <2>1 DEF IInv, MeetingInv
  <2>3. ServerTyped' /\ ServerInv'
    BY <2>1, <2>2, StepsOfTheServer, ServerStep
  <2>4. ClientTyped' /\ AskingInv'
    BY <2>1, <2>2, ClientStep
  <2>5. NetworkTyped'
    BY <2>1, <2>2, NetworkStep
  <2>6. AnswersInv'
    BY <2>1, <2>2, AnswersStep
  <2>7. HeardInv'
    BY <2>1, <2>2, HeardStep
  <2>8. InStepInv'
    BY <2>1, <2>2, InStepStep
  <2>9. QED
    BY <2>3, <2>4, <2>5, <2>6, <2>7, <2>8 DEF IInv, MeetingInv
<1>3. QED
  BY <1>1, <1>2, PTL DEF Spec

(* The same of the server alone, with whatever clients there are.           *)
THEOREM ServerInvariant == ServerSpec => [](ServerTyped /\ ServerInv)
<1>1. Init => ServerTyped /\ ServerInv
  BY ServerInit
<1>2. (ServerTyped /\ ServerInv) /\ [ServerNext]_server
        => (ServerTyped /\ ServerInv)'
  BY ServerStep
<1>3. QED
  BY <1>1, <1>2, PTL DEF ServerSpec

(* Type correctness, with bounds for the clocks of both processors.         *)
THEOREM TypeCorrect == Spec => [](TypeOK /\ ClientTypeOK)
<1>1. IInv => TypeOK /\ ClientTypeOK
  <2>1. SUFFICES ASSUME IInv PROVE TypeOK /\ ClientTypeOK
    OBVIOUS
  <2>2. clock \in -Width .. Timebox
    BY <2>1, Constants, ServerAssumption
    DEF IInv, ServerTyped, CycleTyped, ServerInv, CycleInv, Asleep, Clocked, Awake
  <2>3. myClock \in -Width .. Longest
    BY <2>1, LongestWait, Constants
    DEF IInv, ClientTyped, MeetingInv, AskingInv
  <2>4. TypeOK
    BY <2>1, <2>2 DEF TypeOK, IInv, ServerTyped, CycleTyped
  <2>5. ClientTypeOK
    BY <2>1, <2>3 DEF ClientTypeOK, IInv, ClientTyped, NetworkTyped, Answer
  <2>6. QED
    BY <2>4, <2>5
<1>2. QED
  BY <1>1, CoreInvariant, PTL

(* Whatever tasks ask for and whenever they do, the server finds that it    *)
(* has reached its timebox only in a cycle in which a task has stored a     *)
(* request that reckons with another wait than the one that is on.          *)
THEOREM TimeboxIsKept == ServerSpec => []TimeboxKept
<1>1. ServerInv => TimeboxKept
  BY DEF ServerInv, CycleInv, Clean, TimeboxKept
<1>2. QED
  BY <1>1, ServerInvariant, PTL

(* The server does not go to sleep before the last of the moments it has    *)
(* told its tasks, in a cycle in which no request raced: none was made      *)
(* before it waited, stored after its wait or in place of a larger one that *)
(* came while it was compared.                                              *)
THEOREM GrantsAreKept == ServerSpec => []GrantedTimeIsKept
<1>1. ServerTyped /\ ServerInv => GrantedTimeIsKept
  <2>1. SUFFICES ASSUME ServerTyped, ServerInv, phase = "leaving", raced = {}
                 PROVE  clock >= promised
    BY DEF GrantedTimeIsKept
  <2>2. promised <= clock /\ promised \in Nat /\ clock \in Int
    BY <2>1 DEF ServerTyped, CycleTyped, ServerInv, CycleInv, Leaving
  <2>3. QED
    BY <2>2
<1>2. QED
  BY <1>1, ServerInvariant, PTL

(* A client that slept as it was told to meets the server, in whatever      *)
(* cycle, across wraps of its clock and with late and lost messages.        *)
THEOREM MeetingsTakePlace == Spec => []ClientsMeetServer
<1>1. IInv => ClientsMeetServer
  <2>1. SUFFICES ASSUME IInv, inStep, myPhase = "working", myClock = 0
                 PROVE  /\ phase \in {"up", "entering", "waiting"}
                        /\ clock \in ServerMargin .. AwakeTime - 1
    BY DEF ClientsMeetServer
  <2>2. PICK late \in 0 .. MaxDelay + AwakeMargin : Aim(0 - late)
    BY <2>1 DEF IInv, MeetingInv, InStepInv, Aimed
  <2>3. ServerTyped /\ ServerInv
    BY <2>1 DEF IInv
  <2>4. clock = ServerMargin + late
    BY <2>2, <2>3, Constants, ServerAssumption, CycleAssumption
    DEF Aim, ServerTyped, CycleTyped, ServerInv, CycleInv, Clocked, Awake
  <2>5. clock \in ServerMargin .. AwakeTime - 1
    BY <2>2, <2>4, Constants, MeetingAssumption
  <2>6. phase \in {"up", "entering", "waiting"}
    BY <2>3, <2>5, Constants
    DEF ServerTyped, CycleTyped, ServerInv, CycleInv, Asleep, Extending, Leaving
  <2>7. QED
    BY <2>5, <2>6
<1>2. QED
  BY <1>1, CoreInvariant, PTL

=============================================================================
