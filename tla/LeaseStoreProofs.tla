-------------------------- MODULE LeaseStoreProofs --------------------------
(***************************************************************************)
(* Theorems about LeaseStore for every set of workers, holders, tasks,     *)
(* pins and ttls, and for clocks whose readings may or may not coincide.   *)
(***************************************************************************)
EXTENDS LeaseStore, TLAPS

USE ClockStepAssumption, HolderOfAssumption, NoneAssumption, NoneIsNoWorker

LEMMA TtlIsPositive == \A ttl \in Ttl : ttl \in Nat /\ ttl >= 1
BY TtlAssumption

----------------------------------------------------------------------------
(* Types. *)

LEMMA NoCallType == NoCall \in Call
BY DEF NoCall, Call, Op

(* An offer made during an acquisition is a lease with a positive duration. *)
LEMMA OfferType ==
  ASSUME TypeOK, NEW w \in Worker, call[w].task \in Task, call[w].ttl \in Ttl
  PROVE  /\ Offer(w) \in Lease
         /\ Offer(w).lease_id = Seed(call[w].task, HolderOf[w], binding[w], call[w].now)
         /\ Offer(w).task_id = call[w].task
         /\ Offer(w).holder_id = HolderOf[w]
         /\ Offer(w).source_pins = binding[w]
         /\ Offer(w).expires_at = call[w].now + call[w].ttl
<1>1. call[w].now \in Nat /\ call[w].ttl \in Nat /\ binding[w] \in Binding /\ HolderOf[w] \in Holder
  BY TtlIsPositive DEF TypeOK, Call
<1> QED
  BY <1>1 DEF Offer, NewLease, Seed, Lease, LeaseId

LEMMA StartWorkType ==
  ASSUME NEW st \in DurableState, NEW l \in Lease
  PROVE  StartWork(st, l) \in DurableState
BY DEF StartWork, DurableState, Lease, HabitatState

LEMMA RetireType ==
  ASSUME NEW l \in Lease \union {None}
  PROVE  Retire(l) \subseteq LeaseId
BY DEF Retire, Lease

LEMMA TypeInit == Init => TypeOK
BY NoCallType DEF Init, TypeOK, BootState, DurableState, HabitatState

LEMMA StartType ==
  ASSUME TypeOK, NEW w \in Worker, NEW args \in Call, Start(w, args),
         fence' \in [Worker -> {"unknown", "current", "lost"}]
  PROVE  TypeOK'
<1>1. clock' \in Nat
  BY DEF TypeOK, Start, ReadClock
<1>2. pc' \in [Worker -> {"idle", "waiting", "txn"}]
  BY DEF TypeOK, Start
<1>3. call' \in [Worker -> Call]
  BY DEF TypeOK, Start
<1> QED
  BY <1>1, <1>2, <1>3 DEF TypeOK, Start, store

LEMMA ReturnType ==
  ASSUME TypeOK, NEW w \in Worker, Return(w)
  PROVE  /\ pc' \in [Worker -> {"idle", "waiting", "txn"}]
         /\ call' \in [Worker -> Call]
BY NoCallType DEF TypeOK, Return

LEMMA BeginType ==
  ASSUME TypeOK, NEW w \in Worker, Begin(w), call[w].task \in Task
  PROVE  /\ pc' \in [Worker -> {"idle", "waiting", "txn"}]
         /\ call' \in [Worker -> Call]
         /\ writer' \in Worker \union {None}
<1>1. row[call[w].task] \in Lease \union {None}
  BY DEF TypeOK
<1>2. [call[w] EXCEPT !.seen = row[call[w].task]] \in Call
  <2>1. call[w] \in Call
    BY DEF TypeOK
  <2> QED
    BY <1>1, <2>1 DEF Call
<1>3. call' = [call EXCEPT ![w] = [call[w] EXCEPT !.seen = row[call[w].task]]]
  BY DEF Begin
<1>4. call' \in [Worker -> Call]
  BY <1>2, <1>3 DEF TypeOK
<1>5. pc' \in [Worker -> {"idle", "waiting", "txn"}]
  BY DEF TypeOK, Begin
<1>6. writer' \in Worker \union {None}
  BY DEF TypeOK, Begin
<1> QED
  BY <1>4, <1>5, <1>6

(* While a call is in progress its arguments are there. *)
CallInProgress(w) ==
  /\ pc[w] # "idle" => /\ call[w].task \in Task
                       /\ call[w].op # "none"
                       /\ call[w].now + ClockStep <= clock
  /\ call[w].op \in {"acquire", "renew"} => call[w].ttl \in Ttl
  /\ pc[w] = "txn" => call[w].op \in {"acquire", "renew"} /\ writer = w
  /\ pc[w] = "txn" /\ call[w].op = "renew" => call[w].seen # None

TypeInv == TypeOK /\ \A w \in Worker : CallInProgress(w)

LEMMA ArgumentTypes ==
  ASSUME TypeOK
  PROVE /\ \A t \in Task, ttl \in Ttl, a \in Authorizer :
             [NoCall EXCEPT !.op = "acquire", !.task = t, !.now = clock,
                            !.ttl = ttl, !.authorized_by = a] \in Call
        /\ \A t \in Task, ttl \in Ttl :
             [NoCall EXCEPT !.op = "renew", !.task = t, !.now = clock,
                            !.ttl = ttl] \in Call
        /\ \A t \in Task, op \in {"release", "assert"} :
             [NoCall EXCEPT !.op = op, !.task = t, !.now = clock] \in Call
        /\ \A t \in Task :
             [NoCall EXCEPT !.op = "resume", !.task = t, !.now = clock,
                            !.seen = row[t]] \in Call
BY DEF NoCall, Call, Op, TypeOK

LEMMA TypeInvInit == Init => TypeInv
<1> SUFFICES ASSUME Init PROVE TypeInv
  OBVIOUS
<1>1. TypeOK
  BY TypeInit
<1>2. ASSUME NEW w \in Worker PROVE CallInProgress(w)
  BY <1>2 DEF Init, CallInProgress, NoCall
<1> QED
  BY <1>1, <1>2 DEF TypeInv

LEMMA TypeInvNext == TypeInv /\ [Next]_vars => TypeInv'
<1> SUFFICES ASSUME TypeInv, [Next]_vars PROVE TypeInv'
  OBVIOUS
<1>t. TypeOK /\ \A w \in Worker : CallInProgress(w)
  BY DEF TypeInv
<1>1. CASE Tick
  <2>1. TypeOK'
    BY <1>t, <1>1 DEF Tick, store, memory, TypeOK
  <2>2. \A w \in Worker : CallInProgress(w)'
    BY <1>t, <1>1 DEF Tick, CallInProgress, TypeOK, Call
  <2> QED
    BY <2>1, <2>2 DEF TypeInv
<1>2. CASE UNCHANGED vars
  BY <1>2 DEF vars, TypeInv, TypeOK, CallInProgress
<1>3. ASSUME NEW w \in Worker, NEW args \in Call, Start(w, args),
             fence' \in [Worker -> {"unknown", "current", "lost"}],
             args.task \in Task, args.op # "none", args.now = clock,
             args.op \in {"acquire", "renew"} => args.ttl \in Ttl
      PROVE  TypeInv'
  <2>1. TypeOK'
    BY <1>t, <1>3, StartType
  <2>2. ASSUME NEW v \in Worker PROVE CallInProgress(v)'
    BY <1>t, <1>3, <2>2 DEF TypeOK, Start, ReadClock, CallInProgress, Call
  <2> QED
    BY <2>1, <2>2 DEF TypeInv
<1>4. ASSUME NEW w \in Worker, Return(w), clock' = clock, writer' \in Worker \union {None},
             \A v \in Worker \ {w} : writer = v => writer' = v,
             row' \in [Task -> Lease \union {None}], retired' \subseteq LeaseId,
             handle' \in [Worker -> Lease \union {None}],
             binding' \in [Worker -> Binding],
             client' \in [Worker -> DurableState],
             fence' \in [Worker -> {"unknown", "current", "lost"}]
      PROVE  TypeInv'
  <2>1. TypeOK'
    BY <1>t, <1>4, ReturnType DEF TypeOK
  <2>2. ASSUME NEW v \in Worker PROVE CallInProgress(v)'
    BY <1>t, <1>4, <2>2 DEF TypeOK, Return, CallInProgress, NoCall
  <2> QED
    BY <2>1, <2>2 DEF TypeInv
<1>5. ASSUME NEW w \in Worker, Begin(w), pc[w] = "waiting",
             call[w].op \in {"acquire", "renew"}, clock' = clock, store' = store,
             handle' = handle, binding' = binding, fence' = fence,
             call[w].op = "renew" => row[call[w].task] # None,
             client' \in [Worker -> DurableState]
      PROVE  TypeInv'
  <2>0. call[w].task \in Task
    BY <1>t, <1>5 DEF CallInProgress
  <2>1. TypeOK'
    BY <1>t, <1>5, <2>0, BeginType DEF TypeOK, store
  <2>2. ASSUME NEW v \in Worker PROVE CallInProgress(v)'
    <3>1. call'[v] = IF v = w THEN [call[w] EXCEPT !.seen = row[call[w].task]] ELSE call[v]
      BY <1>t, <1>5 DEF Begin, TypeOK
    <3>2. call[v] \in Call
      BY <1>t DEF TypeOK
    <3>3. /\ call'[v].op = call[v].op
          /\ call'[v].task = call[v].task
          /\ call'[v].now = call[v].now
          /\ call'[v].ttl = call[v].ttl
          /\ call'[v].seen = IF v = w THEN row[call[w].task] ELSE call[v].seen
      BY <3>1, <3>2 DEF Call
    <3>4. pc'[v] = IF v = w THEN "txn" ELSE pc[v]
      BY <1>t, <1>5 DEF Begin, TypeOK
    <3>5. writer = None /\ writer' = w
      BY <1>5 DEF Begin
    <3>6. pc[v] # "txn"
      BY <1>t, <3>5 DEF CallInProgress
    <3> QED
      BY <1>t, <1>5, <3>3, <3>4, <3>5, <3>6 DEF CallInProgress
  <2> QED
    BY <2>1, <2>2 DEF TypeInv
<1>6. ASSUME NEW w \in Worker, CallAcquire(w) PROVE TypeInv'
  BY <1>t, <1>6, <1>3, ArgumentTypes DEF CallAcquire, NoCall, TypeOK
<1>7. ASSUME NEW w \in Worker, CallRenew(w) PROVE TypeInv'
  BY <1>t, <1>7, <1>3, ArgumentTypes DEF CallRenew, NoCall, TypeOK, Lease
<1>8. ASSUME NEW w \in Worker, CallRelease(w) PROVE TypeInv'
  BY <1>t, <1>8, <1>3, ArgumentTypes DEF CallRelease, NoCall, TypeOK, Lease
<1>9. ASSUME NEW w \in Worker, CallAssert(w) PROVE TypeInv'
  BY <1>t, <1>9, <1>3, ArgumentTypes DEF CallAssert, NoCall, TypeOK, Lease
<1>10. ASSUME NEW w \in Worker, CallResume(w) PROVE TypeInv'
  <2>1. PICK t \in Task :
          Start(w, [NoCall EXCEPT !.op = "resume", !.task = t, !.now = clock,
                                  !.seen = row[t]])
    BY <1>10 DEF CallResume
  <2>2. [NoCall EXCEPT !.op = "resume", !.task = t, !.now = clock,
                       !.seen = row[t]] \in Call
    BY <1>t, ArgumentTypes
  <2>3. fence' \in [Worker -> {"unknown", "current", "lost"}]
    BY <1>t, <1>10 DEF CallResume, TypeOK
  <2> QED
    BY <2>1, <2>2, <2>3, <1>3 DEF NoCall
<1>11. ASSUME NEW w \in Worker, AcquireBegin(w) PROVE TypeInv'
  <2>1. call[w].task \in Task /\ call[w].ttl \in Ttl
    BY <1>t, <1>11 DEF AcquireBegin, Waits, CallInProgress
  <2>2. client' \in [Worker -> DurableState]
    BY <1>t, <1>11, <2>1, OfferType, StartWorkType DEF AcquireBegin, TypeOK
  <2> QED
    BY <1>5, <1>11, <2>2 DEF AcquireBegin, Waits
<1>12. ASSUME NEW w \in Worker, RenewBegin(w) PROVE TypeInv'
  BY <1>t, <1>5, <1>12 DEF RenewBegin, IsCurrent, Waits, memory, TypeOK
<1>13. ASSUME NEW w \in Worker, Raise(w) PROVE TypeInv'
  BY <1>t, <1>4, <1>13 DEF Raise, store, memory, TypeOK
<1>14. ASSUME NEW w \in Worker, AcquireCommit(w) PROVE TypeInv'
  <2>1. call[w].task \in Task /\ call[w].ttl \in Ttl /\ writer = w
    BY <1>t, <1>14 DEF AcquireCommit, Holds, CallInProgress
  <2>2. Offer(w) \in Lease
    BY <1>t, <2>1, OfferType
  <2>3. Retire(row[call[w].task]) \subseteq LeaseId
    BY <1>t, <2>1, RetireType DEF TypeOK
  <2> QED
    BY <1>t, <1>4, <1>14, <2>1, <2>2, <2>3 DEF AcquireCommit, TypeOK
<1>15. ASSUME NEW w \in Worker, RenewCommit(w) PROVE TypeInv'
  <2>1. /\ call[w].task \in Task /\ call[w].ttl \in Ttl /\ writer = w
        /\ call[w].now \in Nat /\ call[w].seen \in Lease
    BY <1>t, <1>15 DEF RenewCommit, Holds, CallInProgress, TypeOK, Call
  <2>2. Renewed(w) \in Lease
    BY <2>1, TtlIsPositive DEF Renewed, Lease
  <2> QED
    BY <1>t, <1>4, <1>15, <2>1, <2>2 DEF RenewCommit, TypeOK
<1>16. ASSUME NEW w \in Worker, Release(w) PROVE TypeInv'
  <2>1. call[w].task \in Task
    BY <1>t, <1>16 DEF Release, Waits, CallInProgress
  <2>2. Retire(row[call[w].task]) \subseteq LeaseId
    BY <1>t, <2>1, RetireType DEF TypeOK
  <2>3. /\ row' \in [Task -> Lease \union {None}]
        /\ retired' \subseteq LeaseId
    BY <1>t, <1>16, <2>1, <2>2 DEF Release, TypeOK
  <2> QED
    BY <1>t, <1>4, <1>16, <2>3 DEF Release, memory, TypeOK
<1>17. ASSUME NEW w \in Worker, AssertCurrent(w) PROVE TypeInv'
  <2>1. fence' \in [Worker -> {"unknown", "current", "lost"}]
    BY <1>t, <1>17 DEF AssertCurrent, TypeOK
  <2> QED
    BY <1>t, <1>4, <1>17, <2>1 DEF AssertCurrent, store, TypeOK
<1>18. ASSUME NEW w \in Worker, ResumeDecision(w) PROVE TypeInv'
  <2>1. MayResume(call[w].seen, HolderOf[w], binding[w], call[w].now) =>
          call[w].seen \in Lease
    BY <1>t DEF MayResume, TypeOK, Call
  <2>2. handle' \in [Worker -> Lease \union {None}]
    BY <1>t, <1>18, <2>1 DEF ResumeDecision, TypeOK
  <2> QED
    BY <1>t, <1>4, <1>18, <2>2 DEF ResumeDecision, store, TypeOK
<1>19. ASSUME NEW w \in Worker, TxnFails(w) PROVE TypeInv'
  <2>1. writer = w
    BY <1>t, <1>19 DEF TxnFails, CallInProgress
  <2> QED
    BY <1>t, <1>4, <1>19, <2>1 DEF TxnFails, store, memory, TypeOK
<1>20. ASSUME NEW w \in Worker, Restart(w) PROVE TypeInv'
  <2>1. client' \in [Worker -> DurableState]
    BY <1>t, <1>20 DEF Restart, BootState, DurableState, HabitatState, TypeOK
  <2>2. /\ handle' \in [Worker -> Lease \union {None}]
        /\ binding' \in [Worker -> Binding]
        /\ fence' \in [Worker -> {"unknown", "current", "lost"}]
        /\ writer' \in Worker \union {None}
        /\ \A v \in Worker \ {w} : writer = v => writer' = v
    BY <1>t, <1>20 DEF Restart, TypeOK
  <2> QED
    BY <1>t, <1>4, <1>20, <2>1, <2>2 DEF Restart, store, TypeOK
<1> QED
  BY <1>1, <1>2, <1>6, <1>7, <1>8, <1>9, <1>10, <1>11, <1>12, <1>13, <1>14,
     <1>15, <1>16, <1>17, <1>18, <1>19, <1>20
     DEF Next, Answer, AcquireRefused, RenewRefused, Busy

(* Every variable keeps its type: what a call, a transaction, a failure or a
   restart writes is a row, a lease, a client state of the declared kind. *)
THEOREM TypeCorrect == Spec => []TypeOK
<1>1. TypeInv => TypeOK
  BY DEF TypeInv
<1> QED
  BY <1>1, TypeInvInit, TypeInvNext, PTL DEF Spec

----------------------------------------------------------------------------
(* The inductive invariant. *)

(* A lease as acquire_lease built it and renew may have extended it: the
   columns agree with the seed of its id, it was acquired in the past (of every
   later reading of the clock, if readings differ) and expires after that. *)
Built(l, c) ==
  /\ l.task_id = l.lease_id.task_id
  /\ l.holder_id = l.lease_id.holder_id
  /\ l.source_pins = l.lease_id.source_pins
  /\ l.lease_id.acquired_at < l.expires_at
  /\ l.lease_id.acquired_at + ClockStep <= c

RowInv ==
  \A t \in Task :
    row[t] # None => /\ Built(row[t], clock)
                     /\ row[t].task_id = t
                     /\ \E ttl \in Ttl : row[t].expires_at <= clock + ttl

HandleInv ==
  \A w \in Worker :
    handle[w] # None => /\ Built(handle[w], clock)
                        /\ Granted(handle[w].lease_id)
                        /\ handle[w].holder_id = HolderOf[w]
                        /\ handle[w].source_pins = binding[w]

Pending(w, ops) == pc[w] # "idle" /\ call[w].op \in ops

CallInv ==
  \A w \in Worker :
    /\ Pending(w, {"renew", "release", "assert"}) =>
         /\ handle[w] # None
         /\ call[w].task = handle[w].task_id
         /\ handle[w].lease_id.acquired_at <= call[w].now
    /\ Pending(w, {"resume"}) /\ call[w].seen # None =>
         /\ Built(call[w].seen, clock)
         /\ Granted(call[w].seen.lease_id)
    /\ pc[w] = "txn" => call[w].seen = row[call[w].task]
    /\ pc[w] = "txn" /\ call[w].op = "acquire" =>
         ~Conflicts(call[w].seen, call[w].now)
    /\ pc[w] = "txn" /\ call[w].op = "renew" =>
         SameLease(call[w].seen, handle[w])

(* Needs readings of the clock that differ. *)
FreshInv ==
  /\ \A id \in retired : id.acquired_at + ClockStep <= clock
  /\ \A w \in Worker : Pending(w, {"acquire"}) =>
       /\ \A id \in retired : id.acquired_at # call[w].now
       /\ \A t \in Task : row[t] # None => row[t].lease_id.acquired_at # call[w].now
  /\ \A v, w \in Worker :
       Pending(v, {"acquire"}) /\ Pending(w, {"acquire"}) /\ v # w =>
         call[v].now # call[w].now
  /\ \A t \in Task : row[t] # None => row[t].lease_id \notin retired

IInv == TypeInv /\ RowInv /\ HandleInv /\ CallInv

(* A step either changes the store by committing, or lets it be. *)
Commits(w) == AcquireCommit(w) \/ RenewCommit(w) \/ Release(w)

LEMMA StoreChanges ==
  ASSUME TypeInv, [Next]_vars
  PROVE  /\ clock' \in Nat /\ clock' >= clock
         /\ \/ row' = row /\ retired' = retired
            \/ \E w \in Worker : Commits(w) /\ clock' = clock
<1>1. CASE Tick
  BY <1>1 DEF Tick, store, TypeInv, TypeOK
<1>2. ASSUME NEW w \in Worker, NEW args, Start(w, args)
      PROVE  clock' \in Nat /\ clock' >= clock /\ row' = row /\ retired' = retired
  BY <1>2 DEF Start, ReadClock, store, TypeInv, TypeOK
<1>3. ASSUME NEW w \in Worker,
             CallAcquire(w) \/ CallRenew(w) \/ CallRelease(w) \/ CallAssert(w) \/ CallResume(w)
      PROVE  clock' \in Nat /\ clock' >= clock /\ row' = row /\ retired' = retired
  BY <1>2, <1>3 DEF CallAcquire, CallRenew, CallRelease, CallAssert, CallResume
<1>4. ASSUME NEW w \in Worker, Answer(w)
      PROVE  clock' = clock /\ ((row' = row /\ retired' = retired) \/ Commits(w))
  BY <1>4 DEF Answer, Commits, AcquireBegin, AcquireRefused, AcquireCommit,
     RenewBegin, RenewRefused, RenewCommit, Release, AssertCurrent,
     ResumeDecision, Busy, TxnFails, Raise, store
<1>5. ASSUME NEW w \in Worker, Restart(w)
      PROVE  clock' = clock /\ row' = row /\ retired' = retired
  BY <1>5 DEF Restart, store
<1>6. CASE UNCHANGED vars
  BY <1>6 DEF vars, TypeInv, TypeOK
<1> QED
  BY <1>1, <1>3, <1>4, <1>5, <1>6 DEF Next, TypeInv, TypeOK

(* What a commit writes. *)
LEMMA AcquireCommitWrites ==
  ASSUME IInv, NEW w \in Worker, AcquireCommit(w)
  PROVE  /\ call[w].task \in Task /\ call[w].ttl \in Ttl /\ call[w].now \in Nat
         /\ call[w].now + ClockStep <= clock
         /\ row' = [row EXCEPT ![call[w].task] = Offer(w)]
         /\ retired' = retired \union Retire(row[call[w].task])
         /\ Offer(w) \in Lease
         /\ Offer(w).lease_id = Seed(call[w].task, HolderOf[w], binding[w], call[w].now)
         /\ Offer(w).task_id = call[w].task
         /\ Offer(w).holder_id = HolderOf[w]
         /\ Offer(w).source_pins = binding[w]
         /\ Offer(w).expires_at = call[w].now + call[w].ttl
         /\ row[call[w].task] # None => call[w].now >= row[call[w].task].expires_at
<1>1. TypeOK /\ CallInProgress(w)
  BY DEF IInv, TypeInv
<1>2. pc[w] = "txn" /\ call[w].op = "acquire"
  BY DEF AcquireCommit, Holds
<1>3. call[w].task \in Task /\ call[w].ttl \in Ttl /\ call[w].now + ClockStep <= clock
  BY <1>1, <1>2 DEF CallInProgress
<1>4. call[w].now \in Nat
  BY <1>1 DEF TypeOK, Call
<1>5. row[call[w].task] # None => call[w].now >= row[call[w].task].expires_at
  BY <1>2 DEF IInv, CallInv, Conflicts, IsStale
<1> QED
  BY <1>1, <1>3, <1>4, <1>5, OfferType DEF AcquireCommit

LEMMA RenewCommitWrites ==
  ASSUME IInv, NEW w \in Worker, RenewCommit(w), NEW t, t = call[w].task
  PROVE  /\ t \in Task /\ call[w].ttl \in Ttl /\ call[w].now \in Nat
         /\ call[w].now + ClockStep <= clock
         /\ row[t] \in Lease
         /\ \A u \in Task : u # t => row'[u] = row[u]
         /\ row'[t] \in Lease
         /\ row'[t].expires_at = call[w].now + call[w].ttl
         /\ SameLease(row'[t], row[t])
         /\ retired' = retired
         /\ handle' = [handle EXCEPT ![w] = row'[t]]
         /\ row[t].lease_id.acquired_at <= call[w].now
         /\ SameLease(row[t], handle[w])
         /\ handle[w] \in Lease
<1>1. TypeOK /\ CallInProgress(w)
  BY DEF IInv, TypeInv
<1>2. pc[w] = "txn" /\ call[w].op = "renew"
  BY DEF RenewCommit, Holds
<1>3. t \in Task /\ call[w].ttl \in Ttl /\ call[w].now + ClockStep <= clock
      /\ call[w].seen # None
  BY <1>1, <1>2 DEF CallInProgress
<1>4. call[w].now \in Nat /\ call[w].ttl \in Nat
  BY <1>1, <1>3, TtlIsPositive DEF TypeOK, Call
<1>5. call[w].seen = row[t]
  BY <1>2 DEF IInv, CallInv
<1>6. row[t] \in Lease
  BY <1>1, <1>3, <1>5 DEF TypeOK
<1>7. /\ SameLease(row[t], handle[w])
      /\ handle[w] # None
      /\ handle[w].lease_id.acquired_at <= call[w].now
  BY <1>2, <1>5 DEF IInv, CallInv, Pending
<1>8. handle[w] \in Lease
  BY <1>1, <1>7 DEF TypeOK
<1>9. row' = [row EXCEPT ![t] = [row[t] EXCEPT !.expires_at = call[w].now + call[w].ttl]]
  BY <1>5 DEF RenewCommit, Renewed
<1>10. row'[t] = [row[t] EXCEPT !.expires_at = call[w].now + call[w].ttl]
  BY <1>1, <1>3, <1>9 DEF TypeOK
<1>11. /\ row'[t] \in Lease
       /\ row'[t].expires_at = call[w].now + call[w].ttl
       /\ SameLease(row'[t], row[t])
  BY <1>4, <1>6, <1>10 DEF Lease, SameLease
<1>12. \A u \in Task : u # t => row'[u] = row[u]
  BY <1>1, <1>3, <1>9 DEF TypeOK
<1>13. handle' = [handle EXCEPT ![w] = row'[t]]
  BY <1>5, <1>10 DEF RenewCommit, Renewed
<1>14. row[t].lease_id.acquired_at <= call[w].now
  BY <1>7 DEF SameLease
<1>15. retired' = retired
  BY DEF RenewCommit
<1> QED
  BY <1>3, <1>4, <1>6, <1>7, <1>8, <1>11, <1>12, <1>13, <1>14, <1>15

LEMMA BuiltStays ==
  ASSUME NEW l \in Lease, NEW c \in Nat, NEW d \in Nat, c <= d, Built(l, c)
  PROVE  Built(l, d)
BY DEF Built, Lease, LeaseId

LEMMA RowInvNext ==
  ASSUME IInv, [Next]_vars
  PROVE  RowInv'
<1>0. TypeInv /\ TypeOK /\ RowInv
  BY DEF IInv, TypeInv
<1>1. clock \in Nat /\ clock' \in Nat /\ clock' >= clock
  BY <1>0, StoreChanges DEF TypeOK
<1>2. ASSUME NEW t \in Task, row'[t] = row[t], row[t] # None
      PROVE  /\ Built(row'[t], clock')
             /\ row'[t].task_id = t
             /\ \E ttl \in Ttl : row'[t].expires_at <= clock' + ttl
  <2>1. row[t] \in Lease /\ row[t].expires_at \in Nat
    BY <1>0, <1>2 DEF TypeOK, Lease
  <2>2. Built(row[t], clock) /\ row[t].task_id = t
    BY <1>0, <1>2 DEF RowInv, Built
  <2>3. PICK ttl \in Ttl : row[t].expires_at <= clock + ttl
    BY <1>0, <1>2 DEF RowInv, Built
  <2>4. Built(row[t], clock')
    BY <1>0, <1>1, <2>1, <2>2, BuiltStays DEF TypeOK
  <2>5. row'[t].expires_at <= clock' + ttl
    BY <1>1, <1>2, <2>1, <2>3, TtlIsPositive
  <2> QED
    BY <1>2, <2>2, <2>4, <2>5
<1>3. CASE row' = row
  BY <1>2, <1>3 DEF RowInv, Built
<1>4. ASSUME NEW w \in Worker, AcquireCommit(w) PROVE RowInv'
  <2>1. ASSUME NEW t \in Task, t # call[w].task PROVE row'[t] = row[t]
    BY <1>0, <1>4, <2>1, AcquireCommitWrites DEF TypeOK
  <2>2. row'[call[w].task] = Offer(w)
    BY <1>0, <1>4, AcquireCommitWrites DEF TypeOK
  <2>a. /\ call[w].now \in Nat /\ call[w].ttl \in Nat /\ call[w].ttl >= 1
        /\ call[w].now + ClockStep <= clock
    BY <1>4, AcquireCommitWrites, TtlIsPositive
  <2>b. /\ Offer(w).lease_id.acquired_at = call[w].now
        /\ Offer(w).lease_id.task_id = call[w].task
        /\ Offer(w).lease_id.holder_id = HolderOf[w]
        /\ Offer(w).lease_id.source_pins = binding[w]
    <3>1. Offer(w).lease_id = Seed(call[w].task, HolderOf[w], binding[w], call[w].now)
      BY <1>4, AcquireCommitWrites
    <3> QED
      BY <3>1 DEF Seed
  <2>c. Built(Offer(w), clock')
    <3>1. /\ Offer(w).task_id = call[w].task
          /\ Offer(w).holder_id = HolderOf[w]
          /\ Offer(w).source_pins = binding[w]
          /\ Offer(w).expires_at = call[w].now + call[w].ttl
      BY <1>4, AcquireCommitWrites
    <3>2. Offer(w).lease_id.acquired_at < Offer(w).expires_at
      BY <2>a, <2>b, <3>1
    <3>3. Offer(w).lease_id.acquired_at + ClockStep <= clock'
      BY <1>1, <2>a, <2>b
    <3> QED
      BY <2>b, <3>1, <3>2, <3>3 DEF Built
  <2>3. Built(row'[call[w].task], clock')
    BY <2>2, <2>c
  <2>4. row'[call[w].task].expires_at <= clock' + call[w].ttl
    BY <1>1, <1>4, <2>2, <2>a, AcquireCommitWrites
  <2> QED
    BY <1>2, <1>4, <2>1, <2>2, <2>3, <2>4, AcquireCommitWrites DEF RowInv, Built
<1>5. ASSUME NEW w \in Worker, RenewCommit(w) PROVE RowInv'
  <2> DEFINE t == call[w].task
  <2>1. \A u \in Task : u # t => row'[u] = row[u]
    BY <1>5, RenewCommitWrites
  <2>2. /\ t \in Task /\ row[t] \in Lease /\ call[w].now \in Nat /\ call[w].ttl \in Ttl
        /\ call[w].now + ClockStep <= clock
        /\ row[t].lease_id.acquired_at <= call[w].now
        /\ call[w].ttl \in Nat /\ call[w].ttl >= 1
    BY <1>5, RenewCommitWrites, TtlIsPositive
  <2>3. /\ row'[t].expires_at = call[w].now + call[w].ttl
        /\ SameLease(row'[t], row[t])
    BY <1>5, RenewCommitWrites
  <2>4. Built(row[t], clock) /\ row[t].task_id = t
    BY <1>0, <2>2 DEF RowInv
  <2>5. row[t].lease_id.acquired_at \in Nat
    BY <2>2 DEF Lease, LeaseId
  <2>6. Built(row'[t], clock')
    BY <1>1, <2>2, <2>3, <2>4, <2>5 DEF Built, SameLease
  <2>7. row'[t].expires_at <= clock' + call[w].ttl
    BY <1>1, <2>2, <2>3
  <2> QED
    BY <1>2, <2>1, <2>2, <2>3, <2>4, <2>6, <2>7, ZenonT(60) DEF RowInv, Built, SameLease
<1>6. ASSUME NEW w \in Worker, Release(w) PROVE RowInv'
  <2>1. \A t \in Task : row'[t] = row[t] \/ row'[t] = None
    BY <1>0, <1>6 DEF Release, TypeOK
  <2> QED
    BY <1>2, <2>1 DEF RowInv, Built
<1> QED
  BY <1>0, <1>3, <1>4, <1>5, <1>6, StoreChanges DEF Commits

(* Granted, of given rows and retired ids. *)
GrantedIn(id, rows, old) ==
  id \in old \/ \E t \in Task : rows[t] # None /\ rows[t].lease_id = id

(* An id that was ever committed stays known: current, or else retired. *)
LEMMA GrantedStays ==
  ASSUME IInv, [Next]_vars, NEW id, Granted(id)
  PROVE  GrantedIn(id, row', retired')
<1>0. TypeInv /\ TypeOK
  BY DEF IInv, TypeInv
<1>1. CASE row' = row /\ retired' = retired
  BY <1>1 DEF GrantedIn, Granted
<1>2. ASSUME NEW w \in Worker, AcquireCommit(w) PROVE GrantedIn(id, row', retired')
  BY <1>0, <1>2, AcquireCommitWrites DEF GrantedIn, Granted, Retire, TypeOK
<1>3. ASSUME NEW w \in Worker, RenewCommit(w) PROVE GrantedIn(id, row', retired')
  BY <1>3, RenewCommitWrites DEF GrantedIn, Granted, SameLease
<1>4. ASSUME NEW w \in Worker, Release(w) PROVE GrantedIn(id, row', retired')
  BY <1>0, <1>4 DEF GrantedIn, Granted, Release, Retire, TypeOK
<1> QED
  BY <1>0, <1>1, <1>2, <1>3, <1>4, StoreChanges DEF Commits

(* A worker's lease and pins change only when it commits, resumes or restarts. *)
LEMMA HandleChanges ==
  ASSUME IInv, [Next]_vars, NEW v \in Worker
  PROVE  \/ handle'[v] = handle[v] /\ binding'[v] = binding[v]
         \/ handle'[v] = None
         \/ AcquireCommit(v) \/ RenewCommit(v) \/ ResumeDecision(v)
<1>0. TypeOK
  BY DEF IInv, TypeInv
<1>1. CASE Tick \/ UNCHANGED vars
  BY <1>1 DEF Tick, memory, vars
<1>2. ASSUME NEW w \in Worker,
             CallAcquire(w) \/ CallRenew(w) \/ CallRelease(w) \/ CallAssert(w) \/ CallResume(w)
      PROVE  handle' = handle /\ binding' = binding
  BY <1>2 DEF CallAcquire, CallRenew, CallRelease, CallAssert, CallResume, Start
<1>3. ASSUME NEW w \in Worker, Answer(w)
      PROVE  \/ handle'[v] = handle[v] /\ binding'[v] = binding[v]
             \/ AcquireCommit(v) \/ RenewCommit(v) \/ ResumeDecision(v)
  <2>1. CASE AcquireCommit(w) \/ RenewCommit(w) \/ ResumeDecision(w)
    BY <1>0, <2>1 DEF AcquireCommit, RenewCommit, ResumeDecision, TypeOK
  <2> QED
    BY <1>3, <2>1 DEF Answer, AcquireBegin, AcquireRefused, RenewBegin,
       RenewRefused, Release, AssertCurrent, Busy, TxnFails, Raise, memory
<1>4. ASSUME NEW w \in Worker, Restart(w)
      PROVE  (handle'[v] = handle[v] /\ binding'[v] = binding[v]) \/ handle'[v] = None
  BY <1>0, <1>4 DEF Restart, TypeOK
<1> QED
  BY <1>1, <1>2, <1>3, <1>4 DEF Next

LEMMA HandleInvNext ==
  ASSUME IInv, [Next]_vars
  PROVE  HandleInv'
<1>0. TypeOK /\ HandleInv /\ CallInv
  BY DEF IInv, TypeInv
<1>1. clock \in Nat /\ clock' \in Nat /\ clock' >= clock /\ TypeOK' /\ RowInv'
  BY <1>0, StoreChanges, TypeInvNext, RowInvNext DEF IInv, TypeInv, TypeOK
<1> SUFFICES ASSUME NEW v \in Worker, handle'[v] # None
             PROVE  /\ Built(handle'[v], clock')
                    /\ GrantedIn(handle'[v].lease_id, row', retired')
                    /\ handle'[v].holder_id = HolderOf[v]
                    /\ handle'[v].source_pins = binding'[v]
  BY DEF HandleInv, Built, Granted, GrantedIn
<1>2. CASE handle'[v] = handle[v] /\ binding'[v] = binding[v]
  <2>1. /\ handle[v] \in Lease /\ Built(handle[v], clock)
        /\ Granted(handle[v].lease_id)
        /\ handle[v].holder_id = HolderOf[v]
        /\ handle[v].source_pins = binding[v]
    BY <1>0, <1>2 DEF HandleInv, TypeOK
  <2>2. Built(handle[v], clock')
    BY <1>1, <2>1, BuiltStays
  <2>3. GrantedIn(handle[v].lease_id, row', retired')
    BY <2>1, GrantedStays
  <2> QED
    BY <1>2, <2>1, <2>2, <2>3
<1>3. CASE AcquireCommit(v)
  <2> DEFINE t == call[v].task
  <2>1. handle'[v] = Offer(v) /\ binding'[v] = binding[v]
    BY <1>0, <1>3 DEF AcquireCommit, TypeOK
  <2>2. /\ t \in Task /\ row'[t] = Offer(v) /\ Offer(v) \in Lease
        /\ Offer(v).holder_id = HolderOf[v]
        /\ Offer(v).source_pins = binding[v]
    BY <1>0, <1>3, AcquireCommitWrites DEF TypeOK
  <2>3. row'[t] # None /\ Built(row'[t], clock')
    BY <1>1, <2>2 DEF RowInv, Built
  <2> QED
    BY <2>1, <2>2, <2>3 DEF GrantedIn
<1>4. CASE RenewCommit(v)
  <2> DEFINE t == call[v].task
  <2>1. /\ t \in Task /\ row'[t] \in Lease
        /\ SameLease(row'[t], row[t])
        /\ SameLease(row[t], handle[v])
        /\ handle' = [handle EXCEPT ![v] = row'[t]]
    BY <1>4, RenewCommitWrites
  <2>2. handle'[v] = row'[t] /\ binding'[v] = binding[v]
    BY <1>0, <1>4, <2>1 DEF RenewCommit, TypeOK
  <2>3. handle[v] # None
    BY <1>0, <1>4 DEF CallInv, Pending, RenewCommit, Holds
  <2>4. row'[t] # None /\ Built(row'[t], clock')
    BY <1>1, <2>1 DEF RowInv, Built
  <2>5. handle'[v].holder_id = HolderOf[v] /\ handle'[v].source_pins = binding'[v]
    BY <1>0, <2>1, <2>2, <2>3 DEF HandleInv, SameLease
  <2> QED
    BY <2>1, <2>2, <2>4, <2>5 DEF GrantedIn
<1>5. CASE ResumeDecision(v)
  <2>1. \/ handle'[v] = handle[v] /\ binding'[v] = binding[v]
        \/ /\ MayResume(call[v].seen, HolderOf[v], binding[v], call[v].now)
           /\ handle'[v] = call[v].seen
           /\ binding'[v] = binding[v]
    BY <1>0, <1>5 DEF ResumeDecision, TypeOK
  <2>2. CASE /\ MayResume(call[v].seen, HolderOf[v], binding[v], call[v].now)
             /\ handle'[v] = call[v].seen
             /\ binding'[v] = binding[v]
    <3>1. Built(call[v].seen, clock) /\ Granted(call[v].seen.lease_id)
      BY <1>0, <1>5, <2>2 DEF CallInv, Pending, ResumeDecision, Waits, MayResume
    <3>2. clock' = clock /\ row' = row /\ retired' = retired
      BY <1>5 DEF ResumeDecision, store
    <3> QED
      BY <2>2, <3>1, <3>2 DEF MayResume, PinsMatch, Granted, GrantedIn
  <2> QED
    BY <1>2, <2>1, <2>2
<1> QED
  BY <1>2, <1>3, <1>4, <1>5, HandleChanges

(* What a call remembers changes only when it begins, takes the lock or ends. *)
LEMMA CallChanges ==
  ASSUME IInv, [Next]_vars, NEW v \in Worker
  PROVE  \/ pc'[v] = pc[v] /\ call'[v] = call[v] /\ handle'[v] = handle[v]
         \/ pc'[v] = "idle"
         \/ CallAcquire(v) \/ CallRenew(v) \/ CallRelease(v) \/ CallAssert(v) \/ CallResume(v)
         \/ AcquireBegin(v) \/ RenewBegin(v)
<1>0. TypeOK
  BY DEF IInv, TypeInv
<1>1. CASE Tick \/ UNCHANGED vars
  BY <1>1 DEF Tick, memory, vars
<1>2. ASSUME NEW w \in Worker, NEW args, Start(w, args), w # v
      PROVE  pc'[v] = pc[v] /\ call'[v] = call[v] /\ handle'[v] = handle[v]
  BY <1>0, <1>2 DEF Start, TypeOK
<1>3. ASSUME NEW w \in Worker, w # v,
             CallAcquire(w) \/ CallRenew(w) \/ CallRelease(w) \/ CallAssert(w) \/ CallResume(w)
      PROVE  pc'[v] = pc[v] /\ call'[v] = call[v] /\ handle'[v] = handle[v]
  BY <1>2, <1>3 DEF CallAcquire, CallRenew, CallRelease, CallAssert, CallResume
<1>4. ASSUME NEW w \in Worker, Return(w)
      PROVE  (pc'[v] = pc[v] /\ call'[v] = call[v]) \/ pc'[v] = "idle"
  BY <1>0, <1>4 DEF Return, TypeOK
<1>5. ASSUME NEW w \in Worker, w # v, AcquireBegin(w) \/ RenewBegin(w)
      PROVE  pc'[v] = pc[v] /\ call'[v] = call[v] /\ handle'[v] = handle[v]
  BY <1>0, <1>5 DEF AcquireBegin, RenewBegin, Begin, memory, TypeOK
<1>6. ASSUME NEW w \in Worker, Return(w), handle'[v] = handle[v] \/ w = v
      PROVE  \/ pc'[v] = pc[v] /\ call'[v] = call[v] /\ handle'[v] = handle[v]
             \/ pc'[v] = "idle"
  BY <1>0, <1>6 DEF Return, TypeOK
<1>7. ASSUME NEW w \in Worker, Answer(w) \/ Restart(w), ~AcquireBegin(w), ~RenewBegin(w)
      PROVE  Return(w) /\ (handle'[v] = handle[v] \/ w = v)
  <2>1. Return(w)
    BY <1>7 DEF Answer, AcquireRefused, AcquireCommit, RenewRefused, RenewCommit,
       Release, AssertCurrent, ResumeDecision, Busy, TxnFails, Raise, Restart
  <2>2. handle' = handle \/ \E l : handle' = [handle EXCEPT ![w] = l]
    BY <1>7 DEF Answer, AcquireRefused, AcquireCommit, RenewRefused, RenewCommit,
       Release, AssertCurrent, ResumeDecision, Busy, TxnFails, Raise, Restart, memory
  <2> QED
    BY <1>0, <2>1, <2>2 DEF TypeOK
<1> QED
  BY <1>1, <1>3, <1>5, <1>6, <1>7 DEF Next, Answer

(* A transaction that is not the step's own sees no change of the store. *)
LEMMA TransactionIsAlone ==
  ASSUME IInv, [Next]_vars, NEW v \in Worker, pc[v] = "txn", pc'[v] # "idle"
  PROVE  row' = row /\ retired' = retired
<1>0. TypeInv /\ TypeOK
  BY DEF IInv, TypeInv
<1>1. writer = v
  BY <1>0 DEF TypeInv, CallInProgress
<1>2. ASSUME NEW w \in Worker, AcquireCommit(w) \/ RenewCommit(w) PROVE FALSE
  <2>1. pc[w] = "txn" /\ Return(w)
    BY <1>2 DEF AcquireCommit, RenewCommit, Holds
  <2>2. w = v
    BY <1>0, <1>1, <2>1 DEF TypeInv, CallInProgress
  <2> QED
    BY <1>0, <2>1, <2>2 DEF Return, TypeOK
<1>3. ASSUME NEW w \in Worker, Release(w) PROVE FALSE
  BY <1>1, <1>3 DEF Release
<1> QED
  BY <1>0, <1>2, <1>3, StoreChanges DEF Commits

(* CallInv, for one worker. *)
CallFits(w) ==
  /\ Pending(w, {"renew", "release", "assert"}) =>
       /\ handle[w] # None
       /\ call[w].task = handle[w].task_id
       /\ handle[w].lease_id.acquired_at <= call[w].now
  /\ Pending(w, {"resume"}) /\ call[w].seen # None =>
       /\ Built(call[w].seen, clock)
       /\ GrantedIn(call[w].seen.lease_id, row, retired)
  /\ pc[w] = "txn" => call[w].seen = row[call[w].task]
  /\ pc[w] = "txn" /\ call[w].op = "acquire" =>
       ~Conflicts(call[w].seen, call[w].now)
  /\ pc[w] = "txn" /\ call[w].op = "renew" =>
       SameLease(call[w].seen, handle[w])

LEMMA CallInvByWorker == CallInv <=> \A w \in Worker : CallFits(w)
BY DEF CallInv, CallFits, Granted, GrantedIn

(* A worker that calls fixes arguments that fit what it holds and reads. *)
LEMMA CallingFits ==
  ASSUME IInv, NEW v \in Worker,
         CallAcquire(v) \/ CallRenew(v) \/ CallRelease(v) \/ CallAssert(v) \/ CallResume(v)
  PROVE  CallFits(v)'
<1>0. TypeOK /\ RowInv /\ HandleInv /\ clock \in Nat
  BY DEF IInv, TypeInv, TypeOK
<1>1. ASSUME NEW args, Start(v, args)
      PROVE  /\ pc'[v] = "waiting" /\ call'[v] = args /\ handle' = handle
             /\ row' = row /\ retired' = retired
             /\ clock' \in Nat /\ clock <= clock'
  BY <1>0, <1>1 DEF Start, ReadClock, store, TypeOK
<1>2. CASE CallAcquire(v)
  <2>1. PICK t \in Task, ttl \in Ttl, a \in Authorizer :
          Start(v, [NoCall EXCEPT !.op = "acquire", !.task = t, !.now = clock,
                                  !.ttl = ttl, !.authorized_by = a])
    BY <1>2 DEF CallAcquire
  <2>2. pc'[v] = "waiting" /\ call'[v].op = "acquire"
    BY <1>0, <2>1 DEF Start, NoCall, TypeOK
  <2> QED
    BY <2>2 DEF CallFits, Pending
<1>3. CASE CallRenew(v) \/ CallRelease(v) \/ CallAssert(v)
  <2>1. /\ pc'[v] = "waiting" /\ handle' = handle
        /\ call'[v].op \in {"renew", "release", "assert"}
        /\ call'[v].task = handle[v].task_id
        /\ call'[v].now = clock
    <3>1. CASE CallRenew(v)
      <4>1. PICK ttl \in Ttl :
              Start(v, [NoCall EXCEPT !.op = "renew", !.task = handle[v].task_id,
                                      !.now = clock, !.ttl = ttl])
        BY <3>1 DEF CallRenew
      <4> QED
        BY <1>0, <4>1 DEF Start, NoCall, TypeOK
    <3>2. CASE CallRelease(v)
      BY <1>0, <3>2 DEF CallRelease, Start, NoCall, TypeOK
    <3>3. CASE CallAssert(v)
      BY <1>0, <3>3 DEF CallAssert, Start, NoCall, TypeOK
    <3> QED
      BY <1>3, <3>1, <3>2, <3>3
  <2>2. handle[v] # None
    BY <1>3 DEF CallRenew, CallRelease, CallAssert
  <2>3. handle[v] \in Lease /\ Built(handle[v], clock)
    BY <1>0, <2>2 DEF HandleInv, TypeOK
  <2>4. handle[v].lease_id.acquired_at <= clock
    BY <1>0, <2>3 DEF Built, Lease, LeaseId
  <2> QED
    BY <2>1, <2>2, <2>4 DEF CallFits, Pending
<1>4. CASE CallResume(v)
  <2>1. PICK t \in Task :
          Start(v, [NoCall EXCEPT !.op = "resume", !.task = t, !.now = clock,
                                  !.seen = row[t]])
    BY <1>4 DEF CallResume
  <2>a. pc'[v] = "waiting" /\ call'[v].op = "resume" /\ call'[v].seen = row[t]
    BY <1>0, <2>1 DEF Start, NoCall, TypeOK
  <2>2. ASSUME row[t] # None
        PROVE  Built(row[t], clock') /\ GrantedIn(row[t].lease_id, row', retired')
    <3>1. row[t] \in Lease /\ Built(row[t], clock)
      BY <1>0, <2>2 DEF RowInv, TypeOK
    <3>2. Built(row[t], clock')
      BY <1>0, <1>1, <2>1, <3>1, BuiltStays
    <3> QED
      BY <1>1, <2>1, <2>2, <3>2 DEF GrantedIn
  <2> QED
    BY <2>a, <2>2 DEF CallFits, Pending, Built
<1> QED
  BY <1>2, <1>3, <1>4

(* A transaction begins with the row it decided on. *)
LEMMA BeginningFits ==
  ASSUME IInv, NEW v \in Worker, AcquireBegin(v) \/ RenewBegin(v)
  PROVE  CallFits(v)'
<1>0. TypeOK /\ CallInProgress(v) /\ CallFits(v)
  BY CallInvByWorker DEF IInv, TypeInv
<1>1. /\ pc[v] = "waiting" /\ Begin(v)
      /\ row' = row /\ retired' = retired /\ handle' = handle
  BY DEF AcquireBegin, RenewBegin, Waits, store, memory
<1>2. /\ pc'[v] = "txn"
      /\ call'[v] = [call[v] EXCEPT !.seen = row[call[v].task]]
      /\ call[v] \in Call
  BY <1>0, <1>1 DEF Begin, TypeOK
<1>3. /\ call'[v].op = call[v].op
      /\ call'[v].task = call[v].task
      /\ call'[v].now = call[v].now
      /\ call'[v].seen = row[call[v].task]
  BY <1>2 DEF Call
<1>4. CASE AcquireBegin(v)
  BY <1>1, <1>2, <1>3, <1>4 DEF AcquireBegin, MayAcquire, Waits, CallFits, Pending
<1>5. CASE RenewBegin(v)
  BY <1>0, <1>1, <1>2, <1>3, <1>5
     DEF RenewBegin, IsCurrent, Waits, CallFits, Pending
<1> QED
  BY <1>4, <1>5

LEMMA CallInvNext ==
  ASSUME IInv, [Next]_vars
  PROVE  CallInv'
<1>0. TypeOK /\ TypeInv /\ CallInv
  BY DEF IInv, TypeInv
<1>1. clock \in Nat /\ clock' \in Nat /\ clock <= clock'
  BY <1>0, StoreChanges DEF TypeOK
<1>2. ASSUME NEW v \in Worker PROVE CallFits(v)'
  <2>0. CallFits(v)
    BY <1>0, CallInvByWorker
  <2>1. CASE pc'[v] = "idle"
    BY <2>1 DEF CallFits, Pending
  <2>2. CASE /\ pc'[v] = pc[v] /\ call'[v] = call[v] /\ handle'[v] = handle[v]
             /\ pc'[v] # "idle"
    <3>1. pc[v] = "txn" => row' = row /\ retired' = retired
      BY <2>2, TransactionIsAlone
    <3>2. ASSUME Pending(v, {"resume"}), call[v].seen # None
          PROVE  /\ Built(call[v].seen, clock')
                 /\ GrantedIn(call[v].seen.lease_id, row', retired')
      <4>1. /\ Built(call[v].seen, clock) /\ call[v].seen \in Lease
            /\ Granted(call[v].seen.lease_id)
        BY <1>0, <3>2 DEF CallInv, TypeOK, Call
      <4> QED
        BY <1>1, <4>1, BuiltStays, GrantedStays
    <3> QED
      BY <2>0, <2>2, <3>1, <3>2 DEF CallFits, Pending
  <2> QED
    BY <2>1, <2>2, CallingFits, BeginningFits, CallChanges
<1> QED
  <2>1. \A v \in Worker : CallFits(v)'
    BY <1>2
  <2> QED
    BY <2>1 DEF CallInv, CallFits, Granted, GrantedIn

LEMMA IInvInit == Init => IInv
<1> SUFFICES ASSUME Init PROVE IInv
  OBVIOUS
<1>1. TypeInv
  BY TypeInvInit
<1>2. RowInv /\ HandleInv /\ CallInv
  BY DEF Init, RowInv, HandleInv, CallInv, Pending
<1> QED
  BY <1>1, <1>2 DEF IInv

LEMMA IInvNext == IInv /\ [Next]_vars => IInv'
<1> SUFFICES ASSUME IInv, [Next]_vars PROVE IInv'
  OBVIOUS
<1>1. TypeInv'
  BY TypeInvNext DEF IInv
<1> QED
  BY <1>1, RowInvNext, HandleInvNext, CallInvNext DEF IInv

LEMMA IInvHolds == Spec => []IInv
BY IInvInit, IInvNext, PTL DEF Spec

----------------------------------------------------------------------------
(* What follows from it. *)

(* The compare-and-swap of acquire and renew always succeeds: the write lock is
   held from the SELECT to the COMMIT, so the row that was read is committed. *)
THEOREM CompareAndSwapIsNeverLost == Spec => []WriterSeesCommittedRow
<1>1. IInv => WriterSeesCommittedRow
  BY DEF IInv, TypeInv, CallInProgress, CallInv, WriterSeesCommittedRow
<1> QED
  BY <1>1, IInvHolds, PTL

(* A worker only ever holds leases the store committed, of its own holder_id
   and bound to the pins of the running process. *)
THEOREM OnlyOwnLeasesAreHeld == Spec => []HandlesAreOwnLeases
<1>1. IInv => HandlesAreOwnLeases
  BY DEF IInv, HandleInv, HandlesAreOwnLeases
<1> QED
  BY <1>1, IInvHolds, PTL

(* An abandoned lease is stale after at most one ttl. *)
THEOREM LeasesLapse == Spec => []LeaseLapsesWithinTtl
<1>1. IInv => LeaseLapsesWithinTtl
  BY DEF IInv, RowInv, LeaseLapsesWithinTtl
<1> QED
  BY <1>1, IInvHolds, PTL

(* No acquisition replaces a lease that is live by the host's clock, and no
   release but one with its id deletes it. *)
THEOREM LiveLeaseSurvives == Spec => LiveLeaseIsKept
<1> DEFINE Kept(t) ==
      row[t] # None /\ ~IsStale(row[t], clock) =>
        \/ /\ row'[t] # None
           /\ row'[t].lease_id = row[t].lease_id
        \/ /\ row'[t] = None
           /\ \E w \in Worker : /\ Waits(w, "release") /\ pc'[w] = "idle"
                                /\ handle[w] # None
                                /\ handle[w].lease_id = row[t].lease_id
<1>1. ASSUME IInv, [Next]_vars, NEW t \in Task PROVE Kept(t)
  <2>0. TypeInv /\ TypeOK /\ CallInv
    BY <1>1 DEF IInv, TypeInv
  <2>1. CASE row' = row
    BY <2>1
  <2>2. ASSUME NEW w \in Worker, AcquireCommit(w) PROVE Kept(t)
    <3>1. CASE t = call[w].task /\ row[t] # None
      <4>1. call[w].now >= row[t].expires_at /\ call[w].now + ClockStep <= clock
            /\ call[w].now \in Nat /\ clock \in Nat /\ row[t].expires_at \in Nat
        BY <1>1, <2>0, <2>2, <3>1, AcquireCommitWrites DEF TypeOK, Lease
      <4> QED
        BY <4>1 DEF IsStale
    <3>2. CASE t # call[w].task
      BY <1>1, <2>0, <2>2, <3>2, AcquireCommitWrites DEF TypeOK
    <3> QED
      BY <3>1, <3>2
  <2>3. ASSUME NEW w \in Worker, RenewCommit(w) PROVE Kept(t)
    <3>1. PICK u : u = call[w].task
      OBVIOUS
    <3>2. /\ t # u => row'[t] = row[t]
          /\ row'[u] \in Lease /\ SameLease(row'[u], row[u])
      BY <1>1, <2>3, <3>1, RenewCommitWrites
    <3> QED
      BY <3>2 DEF SameLease
  <2>4. ASSUME NEW w \in Worker, Release(w) PROVE Kept(t)
    <3>1. handle[w] # None
      BY <2>0, <2>4 DEF Release, Waits, CallInv, Pending
    <3>2. Waits(w, "release") /\ pc'[w] = "idle"
      BY <2>0, <2>4 DEF Release, Return, TypeOK
    <3> QED
      BY <2>0, <2>4, <3>1, <3>2 DEF Release, TypeOK
  <2> QED
    BY <1>1, <2>0, <2>1, <2>2, <2>3, <2>4, StoreChanges DEF Commits
<1>2. IInv /\ [Next]_vars => [\A t \in Task : Kept(t)]_vars
  BY <1>1
<1> QED
  BY <1>2, IInvHolds, PTL DEF Spec, LiveLeaseIsKept

(* A takeover of a stale lease is a new lease id, even by the same holder with
   the same pins and with a clock that two calls may read alike. *)
THEOREM TakeoverIsNewToken == Spec => TakeoverMakesNewToken
<1>1. ASSUME IInv, NEW w \in Worker, AcquireCommit(w), row[call[w].task] # None
      PROVE  row'[call[w].task].lease_id # row[call[w].task].lease_id
  <2> DEFINE t == call[w].task
  <2>0. TypeOK /\ RowInv
    BY <1>1 DEF IInv, TypeInv
  <2>1. /\ t \in Task /\ call[w].now \in Nat
        /\ row'[t] = Offer(w)
        /\ Offer(w).lease_id = Seed(t, HolderOf[w], binding[w], call[w].now)
        /\ call[w].now >= row[t].expires_at
    BY <1>1, <2>0, AcquireCommitWrites DEF TypeOK
  <2>2. row[t] \in Lease /\ row[t].lease_id.acquired_at < row[t].expires_at
    BY <1>1, <2>0, <2>1 DEF RowInv, Built, TypeOK
  <2>3. row'[t].lease_id.acquired_at = call[w].now
    BY <2>1 DEF Seed
  <2>4. row[t].lease_id.acquired_at \in Nat /\ row[t].expires_at \in Nat
    BY <2>2 DEF Lease, LeaseId
  <2> QED
    BY <2>1, <2>2, <2>3, <2>4
<1>2. IInv => [\A w \in Worker :
                LET t == call[w].task
                IN AcquireCommit(w) /\ row[t] # None =>
                     row'[t].lease_id # row[t].lease_id]_vars
  BY <1>1
<1> QED
  BY <1>2, IInvHolds, PTL DEF Spec, TakeoverMakesNewToken

----------------------------------------------------------------------------
(* With readings of the clock that differ, ids are never used twice. *)

(* An acquisition that is pending after a step was pending before, or read the
   clock in this step. *)
LEMMA PendingAcquisitions ==
  ASSUME IInv, [Next]_vars, NEW v \in Worker, Pending(v, {"acquire"})'
  PROVE  \/ Pending(v, {"acquire"}) /\ call'[v].now = call[v].now
         \/ /\ call'[v].now = clock /\ clock' = clock + ClockStep
            /\ row' = row /\ retired' = retired
            /\ \A w \in Worker \ {v} : pc'[w] = pc[w] /\ call'[w] = call[w]
<1>0. TypeOK
  BY DEF IInv, TypeInv
<1>1. pc'[v] # "idle" /\ call'[v].op = "acquire"
  BY DEF Pending
<1>2. CASE CallAcquire(v)
  <2>1. PICK t \in Task, ttl \in Ttl, a \in Authorizer :
          Start(v, [NoCall EXCEPT !.op = "acquire", !.task = t, !.now = clock,
                                  !.ttl = ttl, !.authorized_by = a])
    BY <1>2 DEF CallAcquire
  <2> QED
    BY <1>0, <2>1 DEF Start, ReadClock, NoCall, TypeOK, store
<1>3. CASE CallRenew(v)
  <2>1. PICK ttl \in Ttl :
          Start(v, [NoCall EXCEPT !.op = "renew", !.task = handle[v].task_id,
                                  !.now = clock, !.ttl = ttl])
    BY <1>3 DEF CallRenew
  <2> QED
    BY <1>0, <1>1, <2>1 DEF Start, NoCall, TypeOK
<1>4. CASE CallRelease(v)
  BY <1>0, <1>1, <1>4 DEF CallRelease, Start, NoCall, TypeOK
<1>8. CASE CallAssert(v)
  BY <1>0, <1>1, <1>8 DEF CallAssert, Start, NoCall, TypeOK
<1>5. CASE CallResume(v)
  <2>1. PICK t \in Task :
          Start(v, [NoCall EXCEPT !.op = "resume", !.task = t, !.now = clock,
                                  !.seen = row[t]])
    BY <1>5 DEF CallResume
  <2> QED
    BY <1>0, <1>1, <2>1 DEF Start, NoCall, TypeOK
<1>6. CASE AcquireBegin(v) \/ RenewBegin(v)
  <2>1. /\ pc[v] = "waiting" /\ call[v] \in Call
        /\ call'[v] = [call[v] EXCEPT !.seen = row[call[v].task]]
    BY <1>0, <1>6 DEF AcquireBegin, RenewBegin, Waits, Begin, TypeOK
  <2>2. call'[v].op = call[v].op /\ call'[v].now = call[v].now
    BY <2>1 DEF Call
  <2> QED
    BY <1>1, <2>1, <2>2 DEF Pending
<1>7. CASE pc'[v] = pc[v] /\ call'[v] = call[v]
  BY <1>1, <1>7 DEF Pending
<1> QED
  BY <1>1, <1>2, <1>3, <1>4, <1>5, <1>6, <1>7, <1>8, CallChanges

(* What a step adds to the retired ids was current, and what it makes current
   was current for the task or is the offer of an acquisition that ends. *)
LEMMA IdChanges ==
  ASSUME IInv, [Next]_vars
  PROVE  /\ \A id \in retired' :
              id \in retired \/ \E t \in Task : row[t] # None /\ id = row[t].lease_id
         /\ \A t \in Task : row'[t] # None =>
              \/ row[t] # None /\ row'[t].lease_id = row[t].lease_id
              \/ \E w \in Worker :
                   /\ AcquireCommit(w) /\ t = call[w].task
                   /\ row'[t].lease_id = Seed(t, HolderOf[w], binding[w], call[w].now)
<1>0. TypeOK
  BY DEF IInv, TypeInv
<1>1. CASE row' = row /\ retired' = retired
  BY <1>1
<1>2. ASSUME NEW w \in Worker, AcquireCommit(w)
      PROVE  /\ \A id \in retired' :
                  id \in retired \/ \E t \in Task : row[t] # None /\ id = row[t].lease_id
             /\ \A t \in Task : row'[t] # None =>
                  \/ row[t] # None /\ row'[t].lease_id = row[t].lease_id
                  \/ t = call[w].task
                     /\ row'[t].lease_id = Seed(t, HolderOf[w], binding[w], call[w].now)
  BY <1>0, <1>2, AcquireCommitWrites DEF Retire, TypeOK
<1>3. ASSUME NEW w \in Worker, RenewCommit(w)
      PROVE  /\ retired' = retired
             /\ \A t \in Task : row'[t] # None =>
                  row[t] # None /\ row'[t].lease_id = row[t].lease_id
  <2>1. PICK u : u = call[w].task
    OBVIOUS
  <2>2. /\ retired' = retired
        /\ \A t \in Task : t # u => row'[t] = row[t]
        /\ row[u] \in Lease /\ row'[u].lease_id = row[u].lease_id
    BY <1>3, <2>1, RenewCommitWrites DEF SameLease
  <2> QED
    BY <2>2
<1>4. ASSUME NEW w \in Worker, Release(w)
      PROVE  /\ \A id \in retired' :
                  id \in retired \/ \E t \in Task : row[t] # None /\ id = row[t].lease_id
             /\ \A t \in Task : row'[t] # None => row'[t] = row[t]
  <2>1. call[w].task \in Task
    BY <1>4 DEF IInv, TypeInv, CallInProgress, Release, Waits
  <2> QED
    BY <1>0, <1>4, <2>1 DEF Release, Retire, TypeOK
<1> QED
  BY <1>1, <1>2, <1>3, <1>4, StoreChanges DEF Commits, IInv

(* Ids of different tasks differ: the task is in the seed. *)
LEMMA IdsOfTasksDiffer ==
  ASSUME IInv, NEW t \in Task, NEW u \in Task, row[t] # None, row[u] # None,
         row[t].lease_id = row[u].lease_id
  PROVE  t = u
BY DEF IInv, RowInv, Built

LEMMA FreshInvInit == Init => FreshInv
BY DEF Init, FreshInv, Pending

LEMMA FreshInvNext ==
  ASSUME ClockStep = 1, IInv, FreshInv, [Next]_vars
  PROVE  FreshInv'
<1>0. TypeOK /\ TypeOK' /\ RowInv
  BY TypeInvNext DEF IInv, TypeInv
<1>1. clock \in Nat /\ clock' \in Nat /\ clock <= clock'
  BY <1>0, StoreChanges DEF TypeOK, IInv
<1>a. \A id \in LeaseId : id.acquired_at \in Nat
  BY DEF LeaseId
<1>b. \A t \in Task : row[t] # None => /\ row[t].lease_id \in LeaseId
                                      /\ row[t].lease_id.acquired_at + 1 <= clock
  BY <1>0 DEF RowInv, Built, TypeOK, Lease
<1>c. \A id \in retired : id \in LeaseId /\ id.acquired_at + 1 <= clock
  BY <1>0 DEF FreshInv, TypeOK
<1>2. \A id \in retired' : id \in LeaseId /\ id.acquired_at + 1 <= clock
  BY <1>b, <1>c, IdChanges
<1>d. \A id \in retired' : id.acquired_at + ClockStep <= clock'
  BY <1>1, <1>2, <1>a
<1>3. ASSUME NEW v \in Worker, Pending(v, {"acquire"})'
      PROVE  /\ \A id \in retired' : id.acquired_at # call'[v].now
             /\ \A t \in Task : row'[t] # None => row'[t].lease_id.acquired_at # call'[v].now
  <2>1. CASE Pending(v, {"acquire"}) /\ call'[v].now = call[v].now
    <3>1. \A id \in retired' : id.acquired_at # call'[v].now
      BY <2>1, IdChanges DEF FreshInv
    <3>2. ASSUME NEW t \in Task, row'[t] # None
          PROVE  row'[t].lease_id.acquired_at # call'[v].now
      <4>1. CASE row[t] # None /\ row'[t].lease_id = row[t].lease_id
        BY <2>1, <4>1 DEF FreshInv
      <4>2. ASSUME NEW w \in Worker, AcquireCommit(w), t = call[w].task,
                   row'[t].lease_id = Seed(t, HolderOf[w], binding[w], call[w].now)
            PROVE  row'[t].lease_id.acquired_at # call'[v].now
        <5>1. pc'[w] = "idle" /\ Pending(w, {"acquire"})
          BY <1>0, <4>2 DEF AcquireCommit, Holds, Return, Pending, TypeOK
        <5>2. v # w
          BY <1>3, <5>1 DEF Pending
        <5>3. call[w].now # call[v].now
          BY <2>1, <5>1, <5>2 DEF FreshInv
        <5>4. row'[t].lease_id.acquired_at = call[w].now
          BY <4>2 DEF Seed
        <5> QED
          BY <2>1, <5>3, <5>4
      <4> QED
        BY <3>2, <4>1, <4>2, IdChanges
    <3> QED
      BY <3>1, <3>2
  <2>2. CASE call'[v].now = clock /\ row' = row /\ retired' = retired
    <3>1. \A id \in retired : id.acquired_at # clock
      BY <1>1, <1>a, <1>c
    <3>2. \A t \in Task : row[t] # None => row[t].lease_id.acquired_at # clock
      BY <1>1, <1>a, <1>b
    <3> QED
      BY <2>2, <3>1, <3>2
  <2> QED
    BY <1>3, <2>1, <2>2, PendingAcquisitions
<1>4. ASSUME NEW v \in Worker, NEW w \in Worker, v # w,
             Pending(v, {"acquire"})', Pending(w, {"acquire"})'
      PROVE  call'[v].now # call'[w].now
  <2>1. ASSUME NEW x \in Worker, NEW y \in Worker, x # y,
               Pending(y, {"acquire"}),
               call'[y].now = call[y].now, call'[x].now = clock
        PROVE  call'[x].now # call'[y].now
    <3>1. call[y].now + 1 <= clock /\ call[y].now \in Nat
      BY <1>0, <2>1 DEF IInv, TypeInv, CallInProgress, Pending, TypeOK, Call
    <3> QED
      BY <1>1, <2>1, <3>1
  <2>2. CASE /\ Pending(v, {"acquire"}) /\ call'[v].now = call[v].now
             /\ Pending(w, {"acquire"}) /\ call'[w].now = call[w].now
    BY <1>4, <2>2 DEF FreshInv
  <2>3. CASE /\ call'[v].now = clock
             /\ \A x \in Worker \ {v} : pc'[x] = pc[x] /\ call'[x] = call[x]
    <3>1. pc'[w] = pc[w] /\ call'[w] = call[w]
      BY <1>4, <2>3
    <3>2. Pending(w, {"acquire"})
      BY <1>4, <3>1 DEF Pending
    <3> QED
      BY <1>4, <2>1, <2>3, <3>1, <3>2
  <2>4. CASE /\ call'[w].now = clock
             /\ \A x \in Worker \ {w} : pc'[x] = pc[x] /\ call'[x] = call[x]
    <3>1. pc'[v] = pc[v] /\ call'[v] = call[v]
      BY <1>4, <2>4
    <3>2. Pending(v, {"acquire"})
      BY <1>4, <3>1 DEF Pending
    <3> QED
      BY <1>4, <2>1, <2>4, <3>1, <3>2
  <2> QED
    BY <1>4, <2>2, <2>3, <2>4, PendingAcquisitions
<1>5. ASSUME NEW t \in Task, row'[t] # None PROVE row'[t].lease_id \notin retired'
  <2>1. ASSUME NEW w \in Worker, AcquireCommit(w), t = call[w].task,
               row'[t].lease_id = Seed(t, HolderOf[w], binding[w], call[w].now)
        PROVE  row'[t].lease_id \notin retired'
    <3>1. Pending(w, {"acquire"})
      BY <2>1 DEF AcquireCommit, Holds, Pending
    <3>2. \A id \in retired' : id.acquired_at # call[w].now
      BY <3>1, IdChanges DEF FreshInv
    <3>3. row'[t].lease_id.acquired_at = call[w].now
      BY <2>1 DEF Seed
    <3> QED
      BY <3>2, <3>3
  <2>2. CASE row[t] # None /\ row'[t].lease_id = row[t].lease_id
    <3>1. row[t].lease_id \notin retired
      BY <2>2 DEF FreshInv
    <3>2. CASE retired' = retired
      BY <2>2, <3>1, <3>2
    <3>3. ASSUME NEW w \in Worker, AcquireCommit(w)
          PROVE  row'[t].lease_id \notin retired'
      <4>1. CASE t = call[w].task
        BY <1>0, <2>1, <3>3, <4>1, AcquireCommitWrites DEF TypeOK
      <4>2. CASE t # call[w].task
        BY <2>2, <3>1, <3>3, <4>2, AcquireCommitWrites, IdsOfTasksDiffer DEF Retire
      <4> QED
        BY <4>1, <4>2
    <3>4. ASSUME NEW w \in Worker, Release(w)
          PROVE  row'[t].lease_id \notin retired'
      <4>1. call[w].task \in Task
        BY <3>4 DEF IInv, TypeInv, CallInProgress, Release, Waits
      <4>2. CASE t = call[w].task
        BY <1>0, <1>5, <2>2, <3>1, <3>4, <4>2 DEF Release, TypeOK
      <4>3. CASE t # call[w].task
        BY <2>2, <3>1, <3>4, <4>1, <4>3, IdsOfTasksDiffer DEF Release, Retire
      <4> QED
        BY <4>2, <4>3
    <3> QED
      BY <3>2, <3>3, <3>4, StoreChanges, RenewCommitWrites DEF Commits, IInv
  <2> QED
    BY <1>5, <2>1, <2>2, IdChanges
<1> QED
  BY <1>d, <1>3, <1>4, <1>5 DEF FreshInv, Pending

LEMMA FreshInvHolds ==
  ASSUME ClockStep = 1
  PROVE  Spec => [](IInv /\ FreshInv)
<1>1. IInv /\ FreshInv /\ [Next]_vars => (IInv /\ FreshInv)'
  BY IInvNext, FreshInvNext
<1> QED
  BY <1>1, IInvInit, FreshInvInit, PTL DEF Spec

(* A worker whose lease was released or replaced is never told by
   assert_current that it is current. *)
THEOREM OldTokensFail ==
  ASSUME ClockStep = 1
  PROVE  Spec => OldTokenFailsFence
<1> DEFINE Fails(w) ==
      /\ handle[w] # None
      /\ handle[w].lease_id \in retired
      /\ fence[w] = "unknown"
      => fence'[w] # "current"
<1>1. ASSUME IInv, FreshInv, [Next]_vars, NEW w \in Worker PROVE Fails(w)
  <2>0. TypeOK
    BY <1>1 DEF IInv, TypeInv
  <2>1. \/ fence'[w] = fence[w]
        \/ fence'[w] = "unknown"
        \/ AssertCurrent(w)
    <3>1. CASE Tick \/ UNCHANGED vars
      BY <3>1 DEF Tick, memory, vars
    <3>2. ASSUME NEW v \in Worker,
                 CallAcquire(v) \/ CallRenew(v) \/ CallRelease(v) \/ CallAssert(v) \/ CallResume(v)
          PROVE  fence'[w] = fence[w] \/ fence'[w] = "unknown"
      BY <2>0, <3>2 DEF CallAcquire, CallRenew, CallRelease, CallAssert, CallResume, TypeOK
    <3>3. ASSUME NEW v \in Worker, AssertCurrent(v), v # w PROVE fence'[w] = fence[w]
      BY <2>0, <3>3 DEF AssertCurrent, TypeOK
    <3>4. ASSUME NEW v \in Worker, Answer(v), ~AssertCurrent(v) PROVE fence' = fence
      BY <3>4 DEF Answer, AcquireBegin, AcquireRefused, AcquireCommit, RenewBegin,
         RenewRefused, RenewCommit, Release, ResumeDecision, Busy, TxnFails, Raise, memory
    <3>5. ASSUME NEW v \in Worker, Restart(v)
          PROVE  fence'[w] = fence[w] \/ fence'[w] = "unknown"
      BY <2>0, <3>5 DEF Restart, TypeOK
    <3> QED
      BY <1>1, <3>1, <3>2, <3>3, <3>4, <3>5 DEF Next
  <2>2. CASE AssertCurrent(w) /\ handle[w] # None /\ handle[w].lease_id \in retired
    <3>1. call[w].task \in Task
      BY <1>1, <2>2 DEF IInv, TypeInv, CallInProgress, AssertCurrent, Waits
    <3>2. ~IsCurrent(w, row[call[w].task])
      BY <1>1, <2>2, <3>1 DEF FreshInv, IsCurrent, SameLease
    <3> QED
      BY <2>0, <2>2, <3>2 DEF AssertCurrent, TypeOK
  <2> QED
    BY <2>1, <2>2
<1>2. IInv /\ FreshInv /\ [Next]_vars => [\A w \in Worker : Fails(w)]_vars
  BY <1>1
<1> QED
  BY <1>2, FreshInvHolds, PTL DEF Spec, OldTokenFailsFence

LEMMA OwnershipStep ==
  ASSUME ClockStep = 1, IInv, FreshInv, [Next]_vars
  PROVE  [Ownership!Next]_(Ownership!vars)
<1>0. TypeOK /\ TypeOK' /\ FreshInv'
  BY TypeInvNext, FreshInvNext DEF IInv, TypeInv
<1>o. /\ \A t \in Task : Owner[t] = IF row[t] = None THEN None ELSE row[t].lease_id
      /\ \A t \in Task : Owner'[t] = IF row'[t] = None THEN None ELSE row'[t].lease_id
      /\ Owner = [t \in Task |-> Owner[t]] /\ Owner' = [t \in Task |-> Owner'[t]]
  BY DEF Owner
<1>n. \A t \in Task : row[t] # None => row[t].lease_id \in LeaseId /\ row[t].lease_id # None
  BY <1>0 DEF TypeOK, Lease
<1>1. CASE row' = row /\ retired' = retired
  BY <1>1 DEF Ownership!vars, Owner
<1>2. ASSUME NEW w \in Worker, AcquireCommit(w) PROVE Ownership!Next
  <2> DEFINE t == call[w].task
  <2>1. /\ t \in Task
        /\ row' = [row EXCEPT ![t] = Offer(w)]
        /\ retired' = retired \union Retire(row[t])
        /\ Offer(w) \in Lease
        /\ Offer(w).lease_id = Seed(t, HolderOf[w], binding[w], call[w].now)
    BY <1>2, AcquireCommitWrites
  <2>2. Offer(w) # None /\ Offer(w).lease_id \in LeaseId
    BY <2>1 DEF Lease
  <2>3. Owner'[t] = Offer(w).lease_id
    BY <1>0, <1>o, <2>1, <2>2 DEF TypeOK
  <2>4. \A u \in Task : u # t => Owner'[u] = Owner[u]
    BY <1>0, <1>o, <2>1 DEF TypeOK
  <2>5. Owner' = [Owner EXCEPT ![t] = Owner'[t]]
    BY <1>o, <2>1, <2>4
  <2>6. Pending(w, {"acquire"})
    BY <1>2 DEF AcquireCommit, Holds, Pending
  <2>7. Offer(w).lease_id.acquired_at = call[w].now
    BY <2>1 DEF Seed
  <2>8. Offer(w).lease_id \notin retired
    BY <2>6, <2>7 DEF FreshInv
  <2>9. \A u \in Task : row[u] # None => row[u].lease_id # Offer(w).lease_id
    BY <2>6, <2>7 DEF FreshInv
  <2>10. Offer(w).lease_id \notin Ownership!Current
    BY <1>o, <2>9 DEF Ownership!Current
  <2>11. retired' = retired \union ({Owner[t]} \ {None})
    BY <1>o, <1>n, <2>1 DEF Retire
  <2>12. Ownership!Grant(t)
    BY <2>2, <2>3, <2>5, <2>8, <2>10, <2>11 DEF Ownership!Grant
  <2> QED
    BY <2>1, <2>12 DEF Ownership!Next
<1>3. ASSUME NEW w \in Worker, RenewCommit(w) PROVE UNCHANGED Ownership!vars
  <2>1. PICK u : u = call[w].task
    OBVIOUS
  <2>2. /\ u \in Task /\ row[u] \in Lease /\ row'[u] \in Lease
        /\ row'[u].lease_id = row[u].lease_id
        /\ retired' = retired
        /\ \A t \in Task : t # u => row'[t] = row[t]
    BY <1>3, <2>1, RenewCommitWrites DEF SameLease
  <2>3. \A t \in Task : Owner'[t] = Owner[t]
    BY <1>o, <2>2
  <2>4. Owner' = Owner
    BY <1>o, <2>3
  <2> QED
    BY <2>2, <2>4 DEF Ownership!vars
<1>4. ASSUME NEW w \in Worker, Release(w) PROVE Ownership!Next \/ UNCHANGED Ownership!vars
  <2> DEFINE t == call[w].task
  <2>1. t \in Task
    BY <1>4 DEF IInv, TypeInv, CallInProgress, Release, Waits
  <2>2. \/ row' = row /\ retired' = retired
        \/ /\ row[t] # None
           /\ row' = [row EXCEPT ![t] = None]
           /\ retired' = retired \union {row[t].lease_id}
    BY <1>0, <1>4, <2>1 DEF Release, Retire, TypeOK
  <2>3. ASSUME row[t] # None, row' = [row EXCEPT ![t] = None],
               retired' = retired \union {row[t].lease_id}
        PROVE  Ownership!Relinquish(t)
    <3>1. Owner[t] = row[t].lease_id /\ Owner[t] # None
      BY <1>o, <1>n, <2>1, <2>3
    <3>2. Owner' = [Owner EXCEPT ![t] = None]
      <4>1. row'[t] = None /\ \A u \in Task : u # t => row'[u] = row[u]
        BY <1>0, <2>1, <2>3 DEF TypeOK
      <4>2. Owner'[t] = None /\ \A u \in Task : u # t => Owner'[u] = Owner[u]
        BY <1>o, <2>1, <4>1
      <4> QED
        BY <1>o, <2>1, <4>2
    <3> QED
      BY <2>3, <3>1, <3>2 DEF Ownership!Relinquish
  <2>4. CASE row' = row /\ retired' = retired
    BY <2>4 DEF Ownership!vars, Owner
  <2>5. CASE Ownership!Relinquish(t)
    BY <2>1, <2>5 DEF Ownership!Next
  <2> QED
    BY <2>2, <2>3, <2>4, <2>5
<1> QED
  BY <1>1, <1>2, <1>3, <1>4, StoreChanges DEF Commits, IInv

(* The store implements fenced ownership: per task one owner at a time, and a
   token that was released or replaced never owns again. *)
THEOREM StoreIsFenced ==
  ASSUME ClockStep = 1
  PROVE  Spec => OwnershipIsFenced
<1>1. Init => Ownership!Init
  BY DEF Init, Owner, Ownership!Init
<1>2. IInv /\ FreshInv /\ [Next]_vars => [Ownership!Next]_(Ownership!vars)
  BY OwnershipStep
<1> QED
  BY <1>1, <1>2, FreshInvHolds, PTL DEF Spec, OwnershipIsFenced, Ownership!Spec

=============================================================================
