------------------------------ MODULE MCConductor ------------------------------
(***************************************************************************)
(* The conductor for TLC.  Tasks that ask for time and a client do not     *)
(* meet, except in how long the server stays awake, so that they take part *)
(* one or the other: cast is who does.  What the tasks have to do with     *)
(* ends with the server's cycle, of which they see one.                    *)
(***************************************************************************)
EXTENDS Conductor

VARIABLE cast

MCInit ==
  /\ ConductorInit
  /\ cast \in {"tasks", "client"}
  /\ cast = "tasks" => myClock = 0

TasksTakePart ==
  /\ cast = "tasks" /\ lastDuration = 0
  /\ ServerNext
  /\ UNCHANGED <<client, network, cast>>

ClientTakesPart ==
  /\ cast = "client"
  /\ Next
  /\ UNCHANGED <<asker, cast>>

MCNext == TasksTakePart \/ ClientTakesPart

\* The fairness, which lets a client wake, excludes whatever ends without one:
\* of the tasks only invariants are checked.
MCSpec == MCInit /\ [][MCNext]_<<vars, cast>> /\ Fairness
================================================================================
