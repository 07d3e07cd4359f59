------------------------------- MODULE TwoNodes -------------------------------
(***************************************************************************)
(* The two nodes of the modules about what nodes know of each other, and   *)
(* how much goes wrong between them: what a fault is, those modules say.   *)
(***************************************************************************)
EXTENDS Integers, FiniteSets

CONSTANTS
  Node,          \* the two nodes
  MaxFaults      \* bound: so many faults

ASSUME NodeAssumption == Cardinality(Node) = 2
ASSUME BoundAssumption == MaxFaults \in Nat

VARIABLE faults  \* how many faults there have been

Other(n) == CHOOSE o \in Node : o # n
=============================================================================
