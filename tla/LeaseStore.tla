----------------------------- MODULE LeaseStore -----------------------------
(***************************************************************************)
(* Workers that share one SQLite lease store: RenewableDurableLeaseStore   *)
(* and ObjectiveLeaseFence (tools/habitat_objective_lease_fencing.py) over *)
(* DurableLeaseStore (tools/habitat_git_swarm_recovery.py).                *)
(*                                                                         *)
(* A worker is one process with one fence object. Its calls are            *)
(* synchronous, but `now` is an argument of every call: the caller reads   *)
(* its clock, and only then does the call wait for the write lock. So a    *)
(* call is a step that captures `now`, a step in which BEGIN IMMEDIATE     *)
(* gets the lock and the transaction reads and decides, and a step that    *)
(* commits; other workers, time, a lock timeout, a failing disk and a      *)
(* crash come in between.                                                  *)
(***************************************************************************)
EXTENDS HabitatClient

CONSTANTS
  Worker,       (* processes using the store                               *)
  HolderOf,     (* [Worker -> Holder]: two processes may share a holder_id *)
  Ttl,          (* ttl_seconds that callers pass                           *)
  ClockStep,    (* 1: two readings of the clock always differ; 0: they may
                   coincide                                                *)
  MaxClock      (* bound on the clock                                      *)

ASSUME HolderOfAssumption  == HolderOf \in [Worker -> Holder]
ASSUME TtlAssumption       == Ttl \subseteq Nat \ {0}
ASSUME ClockStepAssumption == ClockStep \in {0, 1}
ASSUME MaxClockAssumption  == MaxClock \in Nat
ASSUME NoneIsNoWorker      == None \notin Worker

VARIABLES
  clock,      (* the host's time, in units of the model                    *)
  row,        (* the committed row of task_leases for each task, or None   *)
  writer,     (* the worker whose transaction holds the write lock         *)
  pc,         (* where each worker is in its current call                  *)
  call,       (* the arguments and locals of that call                     *)
  handle,     (* the Lease object each worker holds                        *)
  binding,    (* binding_tokens of each worker's fence                     *)
  client,     (* the DurableState of each worker's client                  *)
  fence,      (* what the last assert_current told each worker             *)
  retired     (* history: ids of the leases that were deleted or replaced  *)

vars == <<clock, row, writer, pc, call, handle, binding, client, fence, retired>>

store  == <<row, retired>>
memory == <<handle, binding, client, fence>>

Op == {"none", "acquire", "renew", "release", "assert", "resume"}

Call == [op : Op, task : Task \union {None}, now : Nat,
         ttl : Ttl \union {0}, authorized_by : Authorizer \union {None},
         seen : Lease \union {None}]

NoCall == [op |-> "none", task |-> None, now |-> 0, ttl |-> 0,
           authorized_by |-> None, seen |-> None]

TypeOK ==
  /\ clock \in Nat
  /\ row \in [Task -> Lease \union {None}]
  /\ writer \in Worker \union {None}
  /\ pc \in [Worker -> {"idle", "waiting", "txn"}]
  /\ call \in [Worker -> Call]
  /\ handle \in [Worker -> Lease \union {None}]
  /\ binding \in [Worker -> Binding]
  /\ client \in [Worker -> DurableState]
  /\ fence \in [Worker -> {"unknown", "current", "lost"}]
  /\ retired \subseteq LeaseId

Init ==
  /\ clock = 0
  /\ row = [t \in Task |-> None]
  /\ writer = None
  /\ pc = [w \in Worker |-> "idle"]
  /\ call = [w \in Worker |-> NoCall]
  /\ handle = [w \in Worker |-> None]
  /\ binding \in [Worker -> Binding]
  /\ client = [w \in Worker |-> BootState]
  /\ fence = [w \in Worker |-> "unknown"]
  /\ retired = {}

----------------------------------------------------------------------------
(* Calling: the arguments are fixed, `now` among them. *)

Tick ==
  /\ clock < MaxClock
  /\ clock' = clock + 1
  /\ UNCHANGED <<store, writer, pc, call, memory>>

ReadClock ==
  /\ clock + ClockStep <= MaxClock
  /\ clock' = clock + ClockStep

Start(w, args) ==
  /\ pc[w] = "idle"
  /\ ReadClock
  /\ pc' = [pc EXCEPT ![w] = "waiting"]
  /\ call' = [call EXCEPT ![w] = args]
  /\ UNCHANGED <<store, writer, handle, binding, client>>

CallAcquire(w) ==
  \E t \in Task, ttl \in Ttl, a \in Authorizer :
    /\ Start(w, [NoCall EXCEPT !.op = "acquire", !.task = t, !.now = clock,
                               !.ttl = ttl, !.authorized_by = a])
    /\ UNCHANGED fence

CallRenew(w) ==
  /\ handle[w] # None
  /\ \E ttl \in Ttl :
       Start(w, [NoCall EXCEPT !.op = "renew", !.task = handle[w].task_id,
                               !.now = clock, !.ttl = ttl])
  /\ UNCHANGED fence

CallRelease(w) ==
  /\ handle[w] # None
  /\ Start(w, [NoCall EXCEPT !.op = "release", !.task = handle[w].task_id,
                             !.now = clock])
  /\ UNCHANGED fence

CallAssert(w) ==
  /\ handle[w] # None
  /\ Start(w, [NoCall EXCEPT !.op = "assert", !.task = handle[w].task_id,
                             !.now = clock])
  /\ fence' = [fence EXCEPT ![w] = "unknown"]

(* A restarted worker reads the lease it may have held; it decides on what
   it read in a later step. *)
CallResume(w) ==
  /\ handle[w] = None
  /\ \E t \in Task :
       Start(w, [NoCall EXCEPT !.op = "resume", !.task = t, !.now = clock,
                               !.seen = row[t]])
  /\ UNCHANGED fence

----------------------------------------------------------------------------
(* Inside a call. *)

Waits(w, op) == pc[w] = "waiting" /\ call[w].op = op

Return(w) ==
  /\ pc' = [pc EXCEPT ![w] = "idle"]
  /\ call' = [call EXCEPT ![w] = NoCall]

(* A bug: a deferred BEGIN, which takes the write lock only to write. *)
BeginDeferred(w) ==
  /\ writer' = w
  /\ pc' = [pc EXCEPT ![w] = "txn"]
  /\ call' = [call EXCEPT ![w] = [@ EXCEPT !.seen = row[call[w].task]]]

(* BEGIN IMMEDIATE takes the write lock, the SELECT reads the row. *)
Begin(w) ==
  /\ writer = None
  /\ writer' = w
  /\ pc' = [pc EXCEPT ![w] = "txn"]
  /\ call' = [call EXCEPT ![w] = [@ EXCEPT !.seen = row[call[w].task]]]

(* The call raised: rolled back, so nothing of it is in the store. *)
Raise(w) ==
  /\ Return(w)
  /\ UNCHANGED <<clock, store, writer, memory>>

Offer(w) == NewLease(call[w].task, HolderOf[w], binding[w], call[w].now, call[w].ttl)

(* A bug: the holder of a live lease may acquire again. *)
MayAcquireAgain(w, current) ==
  /\ HandoffIsAdmitted(call[w].authorized_by)
  /\ Conflicts(current, call[w].now) => current.holder_id = HolderOf[w]

MayAcquire(w, current) ==
  /\ HandoffIsAdmitted(call[w].authorized_by)
  /\ ~Conflicts(current, call[w].now)

(* client.acquire_lease accepts, and changes the client, before the INSERT
   or the UPDATE. *)
AcquireBegin(w) ==
  /\ Waits(w, "acquire")
  /\ MayAcquire(w, row[call[w].task])
  /\ Begin(w)
  /\ client' = [client EXCEPT ![w] = StartWork(@, Offer(w))]
  /\ UNCHANGED <<clock, store, handle, binding, fence>>

(* PermissionError or LeaseConflict. *)
AcquireRefused(w) ==
  /\ Waits(w, "acquire")
  /\ writer = None
  /\ ~MayAcquire(w, row[call[w].task])
  /\ Raise(w)

(* A bug: the fencing token is not compared. *)
SameHolderAndPins(left, right) ==
  /\ left.task_id = right.task_id
  /\ left.holder_id = right.holder_id
  /\ left.source_pins = right.source_pins

SameLease(left, right) ==
  /\ left.task_id = right.task_id
  /\ left.lease_id = right.lease_id
  /\ left.holder_id = right.holder_id
  /\ left.source_pins = right.source_pins

(* What renew and assert_current ask of the row. *)
IsCurrent(w, current) ==
  /\ current # None
  /\ SameLease(current, handle[w])
  /\ ~IsStale(current, call[w].now)
  /\ PinsMatch(current, binding[w])

RenewBegin(w) ==
  /\ Waits(w, "renew")
  /\ IsCurrent(w, row[call[w].task])
  /\ Begin(w)
  /\ UNCHANGED <<clock, store, memory>>

(* LeaseFenceLost. *)
RenewRefused(w) ==
  /\ Waits(w, "renew")
  /\ writer = None
  /\ ~IsCurrent(w, row[call[w].task])
  /\ Raise(w)

Holds(w, op) == pc[w] = "txn" /\ call[w].op = op

Retire(lease) == IF lease = None THEN {} ELSE {lease.lease_id}

(* INSERT when the SELECT found no row, else UPDATE ... WHERE lease_id = the
   one it found; COMMIT; the caller gets the lease. *)
AcquireCommit(w) ==
  LET t == call[w].task
      seen == call[w].seen
  IN /\ Holds(w, "acquire")
     /\ (row[t] = None) = (seen = None)
     /\ seen # None => row[t].lease_id = seen.lease_id
     /\ row' = [row EXCEPT ![t] = Offer(w)]
     /\ retired' = retired \union Retire(row[t])
     /\ handle' = [handle EXCEPT ![w] = Offer(w)]
     /\ writer' = None
     /\ Return(w)
     /\ UNCHANGED <<clock, binding, client, fence>>

(* A bug: the new term is added to the old one. *)
RenewedFromExpiry(w) ==
  [call[w].seen EXCEPT !.expires_at = @ + call[w].ttl]

Renewed(w) == [call[w].seen EXCEPT !.expires_at = call[w].now + call[w].ttl]

(* UPDATE ... WHERE every column is still the one that was read. *)
RenewCommit(w) ==
  LET t == call[w].task
  IN /\ Holds(w, "renew")
     /\ row[t] = call[w].seen
     /\ row' = [row EXCEPT ![t] = Renewed(w)]
     /\ handle' = [handle EXCEPT ![w] = Renewed(w)]
     /\ writer' = None
     /\ Return(w)
     /\ UNCHANGED <<clock, binding, client, fence, retired>>

(* One DELETE under the write lock: nobody sees it half done. The handle is a
   value and stays with the caller. *)
Release(w) ==
  LET t == call[w].task
      deletes == /\ row[t] # None
                 /\ row[t].lease_id = handle[w].lease_id
                 /\ row[t].holder_id = handle[w].holder_id
  IN /\ Waits(w, "release")
     /\ writer = None
     /\ row' = [row EXCEPT ![t] = IF deletes THEN None ELSE @]
     /\ retired' = retired \union (IF deletes THEN Retire(row[t]) ELSE {})
     /\ Return(w)
     /\ UNCHANGED <<clock, writer, memory>>

(* get() needs no write lock; it sees the committed row. *)
AssertCurrent(w) ==
  /\ Waits(w, "assert")
  /\ fence' = [fence EXCEPT ![w] =
                 IF IsCurrent(w, row[call[w].task]) THEN "current" ELSE "lost"]
  /\ Return(w)
  /\ UNCHANGED <<clock, store, writer, handle, binding, client>>

ResumeDecision(w) ==
  /\ Waits(w, "resume")
  /\ handle' = [handle EXCEPT ![w] =
                  IF MayResume(call[w].seen, HolderOf[w], binding[w], call[w].now)
                  THEN call[w].seen ELSE @]
  /\ Return(w)
  /\ UNCHANGED <<clock, store, writer, binding, client, fence>>

----------------------------------------------------------------------------
(* What goes wrong. *)

(* A bug: a wait for the lock without a timeout. *)
NeverBusy(w) == FALSE

(* busy_timeout ran out: "database is locked". A reader is locked out only
   while the writer's COMMIT is in progress. *)
Busy(w) ==
  /\ pc[w] = "waiting"
  /\ call[w].op \in {"acquire", "renew", "release", "assert"}
  /\ writer # None
  /\ Raise(w)

(* A bug: the exception leaves the transaction open. *)
TxnFailsOpen(w) ==
  /\ pc[w] = "txn"
  /\ Return(w)
  /\ UNCHANGED <<clock, store, writer, memory>>

(* The statement or the COMMIT failed: ROLLBACK, close, raise. What
   client.acquire_lease did to the client is not undone. *)
TxnFails(w) ==
  /\ pc[w] = "txn"
  /\ writer' = None
  /\ Return(w)
  /\ UNCHANGED <<clock, store, memory>>

(* The process dies and a new one, perhaps pinned to other commits, takes its
   place. SQLite rolls an open transaction back. *)
Restart(w) ==
  /\ writer' = IF writer = w THEN None ELSE writer
  /\ Return(w)
  /\ handle' = [handle EXCEPT ![w] = None]
  /\ client' = [client EXCEPT ![w] = BootState]
  /\ fence' = [fence EXCEPT ![w] = "unknown"]
  /\ \E b \in Binding : binding' = [binding EXCEPT ![w] = b]
  /\ UNCHANGED <<clock, store>>

Answer(w) ==
  \/ AcquireBegin(w) \/ AcquireRefused(w) \/ AcquireCommit(w)
  \/ RenewBegin(w) \/ RenewRefused(w) \/ RenewCommit(w)
  \/ Release(w) \/ AssertCurrent(w) \/ ResumeDecision(w)
  \/ Busy(w) \/ TxnFails(w)

Next ==
  \/ Tick
  \/ \E w \in Worker :
       \/ CallAcquire(w) \/ CallRenew(w) \/ CallRelease(w)
       \/ CallAssert(w) \/ CallResume(w)
       \/ Answer(w)
       \/ Restart(w)

Spec == Init /\ [][Next]_vars

(* A call that has begun is code running to its end: it answers or raises. *)
FairSpec == Spec /\ \A w \in Worker : WF_vars(Answer(w))

----------------------------------------------------------------------------
(* Properties. *)

(* The transaction that holds the write lock decided on the row that is still
   committed, so the compare-and-swap of acquire and of renew is never lost
   ("lease compare-and-swap lost"): BEGIN IMMEDIATE, not the WHERE clause, is
   what arbitrates. *)
WriterSeesCommittedRow ==
  \A w \in Worker :
    pc[w] = "txn" => /\ writer = w
                     /\ call[w].seen = row[call[w].task]

Granted(id) ==
  id \in retired \/ \E t \in Task : row[t] # None /\ row[t].lease_id = id

(* Whatever failed, raised or restarted before, a Lease object in a worker's
   hands was committed by the store, names this worker's holder_id and is
   bound to the commits this process runs: resume_decision lets neither
   another holder's lease nor one bound to old pins through. *)
HandlesAreOwnLeases ==
  \A w \in Worker :
    handle[w] # None => /\ Granted(handle[w].lease_id)
                        /\ handle[w].holder_id = HolderOf[w]
                        /\ handle[w].source_pins = binding[w]

(* A dead holder blocks its task for one ttl at most, counted from now: no
   sequence of renewals, late ones included, stores an expiry further away. *)
LeaseLapsesWithinTtl ==
  \A t \in Task :
    row[t] # None => \E ttl \in Ttl : row[t].expires_at <= clock + ttl

(* By the host's clock, a live lease is replaced by no acquire, however long
   that call waited with an old `now`, and is deleted only by a release whose
   own caller bears its id, however late or often that release comes. *)
LiveLeaseIsKept ==
  [][\A t \in Task :
       row[t] # None /\ ~IsStale(row[t], clock) =>
         \/ /\ row'[t] # None
            /\ row'[t].lease_id = row[t].lease_id
         \/ /\ row'[t] = None
            /\ \E w \in Worker : /\ Waits(w, "release") /\ pc'[w] = "idle"
                                 /\ handle[w] # None
                                 /\ handle[w].lease_id = row[t].lease_id]_vars

(* "stale takeover creates a different lease ID", also when the same holder
   with the same pins takes its own stale lease over, and also when readings
   of the clock coincide. *)
TakeoverMakesNewToken ==
  [][\A w \in Worker :
       LET t == call[w].task
       IN AcquireCommit(w) /\ row[t] # None =>
            row'[t].lease_id # row[t].lease_id]_vars

(* Once its lease was released or replaced, a worker that still has the Lease
   object is told "lost" by assert_current, for ever. *)
OldTokenFailsFence ==
  [][\A w \in Worker :
       /\ handle[w] # None
       /\ handle[w].lease_id \in retired
       /\ fence[w] = "unknown"
       => fence'[w] # "current"]_vars

(* The store implements fenced ownership: the id of the committed row is the
   owner. It needs readings of the clock that differ (ClockStep = 1). *)
Owner == [t \in Task |-> IF row[t] = None THEN None ELSE row[t].lease_id]

Ownership == INSTANCE FencedOwnership
               WITH Token <- LeaseId, NoOwner <- None, owner <- Owner

OwnershipIsFenced == Ownership!Spec

(* Every call returns or raises: the busy timeout bounds the wait for a lock
   that others keep taking, and no path leaves the lock taken. *)
EveryCallReturns == \A w \in Worker : pc[w] # "idle" ~> pc[w] = "idle"
LockIsFreed == writer # None ~> writer = None

(* Claims of the repository that the code does not keep. *)

(* "Once a lease is stale, it is not revivable by its old holder." *)
NoStaleRenewal ==
  [][\A t \in Task :
       /\ row[t] # None
       /\ IsStale(row[t], clock)
       /\ row'[t] # None
       /\ row'[t].lease_id = row[t].lease_id
       => row'[t].expires_at = row[t].expires_at]_vars
=============================================================================
