---------------------------- MODULE MCWorkQueue ----------------------------
(* Instances of WorkQueue: which bytes a fresh queue_state may hold.        *)
EXTENDS WorkQueue

(* The bytes that matter to the protocol: final, in progress, dropped, none. *)
HeapBytes == {"SUCCEEDED", "RUNNING", "DROPPED", "OTHER"}
=============================================================================
