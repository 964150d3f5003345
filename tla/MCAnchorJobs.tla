---------------------------- MODULE MCAnchorJobs ----------------------------
(***************************************************************************)
(* Instance of AnchorJobs for TLC: three slices of one work and one of     *)
(* another, and a job frame that offers no work.                           *)
(***************************************************************************)
EXTENDS AnchorJobs

CONSTANTS work1, work2, ping

Slices ==
  {[id |-> work1, start |-> s, range |-> 3] : s \in 1 .. 3}
    \union {[id |-> work2, start |-> 1, range |-> 3]}
=============================================================================
