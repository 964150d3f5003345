-------------------------- MODULE FencedOwnership --------------------------
(***************************************************************************)
(* What fencing tokens promise, with no clock, store or transaction: each  *)
(* task has at most one owner, an owner is a token, and a token owns in    *)
(* one uninterrupted tenure. A token that was replaced or given up is      *)
(* never an owner again, whatever its old bearer does with it. This is the *)
(* reading of the laws "LEASE_ID = FENCING_TOKEN" and                      *)
(* "OLD_FENCING_TOKEN != CURRENT_OWNER" of OBJECTIVE_LEASE_FENCING.json.   *)
(***************************************************************************)
CONSTANTS
  Task,
  Token,
  NoOwner       (* not a token                                              *)

VARIABLES
  owner,      (* [Task -> Token \union {NoOwner}]                          *)
  retired     (* the tokens whose tenure is over                           *)

vars == <<owner, retired>>

TypeOK ==
  /\ owner \in [Task -> Token \union {NoOwner}]
  /\ retired \subseteq Token

Init ==
  /\ owner = [t \in Task |-> NoOwner]
  /\ retired = {}

Current == {owner[t] : t \in Task} \ {NoOwner}

(* A token that never owned anything becomes the owner of t; the owner it
   replaces, if any, is retired. *)
Grant(t) ==
  /\ owner'[t] \in Token \ (retired \union Current)
  /\ owner' = [owner EXCEPT ![t] = owner'[t]]
  /\ retired' = retired \union ({owner[t]} \ {NoOwner})

Relinquish(t) ==
  /\ owner[t] # NoOwner
  /\ owner' = [owner EXCEPT ![t] = NoOwner]
  /\ retired' = retired \union {owner[t]}

Next == \E t \in Task : Grant(t) \/ Relinquish(t)

Spec == Init /\ [][Next]_vars
=============================================================================
