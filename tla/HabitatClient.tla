--------------------------- MODULE HabitatClient ---------------------------
(***************************************************************************)
(* The transport-neutral client of tools/habitat_git_swarm_client.py, as   *)
(* operators: what a lease is, when it is stale, what resuming requires,   *)
(* and what each operation of HabitatSwarmClient does to the DurableState  *)
(* it carries. The modules that give the client a clock, a store and a     *)
(* file system take these operators as their steps.                        *)
(***************************************************************************)
EXTENDS Naturals

CONSTANTS
  Task,         (* task ids that a handoff can name                        *)
  Holder,       (* holder_id of a worker                                   *)
  Binding,      (* source pins: the exact commits a lease is bound to      *)
  Authorizer,   (* values of authorization.authorized_by                   *)
  Trusted,      (* trusted_human_authorizers                               *)
  None          (* Python's None                                           *)

ASSUME TrustedAssumption == Trusted \subseteq Authorizer
HabitatState ==
  {"BOOT", "SYNC_LIVE_GIT", "WAIT", "POLL", "OBSERVE_LEDGER",
   "ELIGIBILITY_CHECK", "ACQUIRE_BOUNDED_LEASE", "WORK_LOCALLY", "CHECKPOINT",
   "VERIFY", "WRITE_RECEIPT", "RELEASE_LEASE", "COOLDOWN", "HOLD"}

----------------------------------------------------------------------------
(* Leases. The id is a digest of the seed (task, holder, pins, acquired_at);
   a digest is modelled by the seed itself, so equal seeds, and only they,
   have equal ids. *)

LeaseId == [task_id : Task, holder_id : Holder, source_pins : Binding,
            acquired_at : Nat]

Lease == [lease_id : LeaseId, task_id : Task, holder_id : Holder,
          source_pins : Binding, expires_at : Nat]

ASSUME NoneAssumption == /\ None \notin Task
                         /\ None \notin Holder
                         /\ None \notin LeaseId
                         /\ None \notin Lease

(* A bug: the seed has no time in it. *)
SeedWithoutTime(task, holder, pins, now) ==
  [task_id |-> task, holder_id |-> holder, source_pins |-> pins,
   acquired_at |-> 0]

Seed(task, holder, pins, now) ==
  [task_id |-> task, holder_id |-> holder, source_pins |-> pins,
   acquired_at |-> now]

(* ttl is at least 1 here, so max(1.0, ttl) is ttl. *)
NewLease(task, holder, pins, now, ttl) ==
  [lease_id    |-> Seed(task, holder, pins, now),
   task_id     |-> task,
   holder_id   |-> holder,
   source_pins |-> pins,
   expires_at  |-> now + ttl]

IsStale(lease, now) == now >= lease.expires_at

PinsMatch(lease, live) == lease.source_pins = live

(* LeaseConflict: an exclusive lease that is not stale, whoever holds it. *)
Conflicts(current, now) == current # None /\ ~IsStale(current, now)

(* The schema, the task id, the pins and the mode EXPLICIT_HUMAN are put in
   the envelope by ObjectiveLeaseFence.envelope; the authorizer is not. *)
HandoffIsAdmitted(authorizedBy) == authorizedBy \in Trusted

(* A bug: a lease bound to other commits is resumed. *)
MayResumeWithOldPins(lease, holder, live, now) ==
  /\ lease # None
  /\ lease.holder_id = holder
  /\ ~IsStale(lease, now)

(* resume_decision = "RESUME"; every other case is HOLD. *)
MayResume(lease, holder, live, now) ==
  /\ lease # None
  /\ lease.holder_id = holder
  /\ ~IsStale(lease, now)
  /\ PinsMatch(lease, live)

----------------------------------------------------------------------------
(* The part of DurableState that the lease operations read or write. *)

DurableState ==
  [state                 : HabitatState,
   last_admitted_handoff : Task \union {None},
   active_lease_id       : LeaseId \union {None},
   resume_state          : HabitatState \union {None}]

BootState ==
  [state |-> "BOOT", last_admitted_handoff |-> None,
   active_lease_id |-> None, resume_state |-> None]

(* A bug: the lease itself is stored for its id. *)
StartWorkWithLease(st, lease) ==
  [st EXCEPT !.state                 = "WORK_LOCALLY",
             !.last_admitted_handoff = lease.task_id,
             !.active_lease_id       = lease,
             !.resume_state          = "WORK_LOCALLY"]

(* The tail of acquire_lease, once the lease has been built. *)
StartWork(st, lease) ==
  [st EXCEPT !.state                 = "WORK_LOCALLY",
             !.last_admitted_handoff = lease.task_id,
             !.active_lease_id       = lease.lease_id,
             !.resume_state          = "WORK_LOCALLY"]
=============================================================================
