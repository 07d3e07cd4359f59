---------------------------- MODULE MCMediumQos ----------------------------
(* Two nodes for TLC.  The links break in one direction, in both, or       *)
(* because the radio of one node fails; what the other node would see in   *)
(* its place is the same by symmetry.                                      *)
EXTENDS MediumQos

CONSTANTS a, b

MCLinks ==
  {[n \in Node |-> "up"],
   [n \in Node |-> "lost"],
   [n \in Node |-> IF n = a THEN "lost" ELSE "up"],
   [n \in Node |-> IF n = a THEN "fails" ELSE "up"]}
=============================================================================
