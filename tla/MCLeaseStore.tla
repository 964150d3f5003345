---------------------------- MODULE MCLeaseStore ----------------------------
(***************************************************************************)
(* Instances of LeaseStore for TLC. Two processes of holder h1 (a worker   *)
(* and its replacement, or one identity started twice) and one of h2.      *)
(***************************************************************************)
EXTENDS LeaseStore, TLC

CONSTANTS w1, w2, w3, h1, h2

ThreeWorkers == w1 :> h1 @@ w2 :> h1 @@ w3 :> h2

TwoWorkers == w1 :> h1 @@ w2 :> h2

TwoOfOneHolder == w1 :> h1 @@ w2 :> h1

SameHolder == Permutations({w1, w2})
=============================================================================
