----------------------------- MODULE AnchorJobs -----------------------------
(***************************************************************************)
(* The job policy of the Anchor node (firmware/anchor): frames that the    *)
(* Wi-Fi task puts into a queue, the slice of nonces that is mined, the    *)
(* one slice that may wait behind it, and loop(), which handles frames,    *)
(* mines a batch and keeps house, over and over.                           *)
(*                                                                         *)
(* The policy (Anchor.ino:272-275): new pool work replaces what runs at    *)
(* once; of the slices of one work each gets a small useful share before   *)
(* it yields to the next.                                                  *)
(*                                                                         *)
(* Time is millis(), which wraps around; 0 also stands for "never".        *)
(***************************************************************************)
EXTENDS Integers, Sequences

CONSTANTS
  Slice,          (* slices of work: [id, start, range]                    *)
  NoWork,         (* job frames without work: pings, frames with no target *)
  Modulus,        (* millis() counts modulo this, 2^32                     *)
  JobTimeout,     (* JOB_TIMEOUT_MS                                        *)
  MinWorkMs,      (* JANUS_JOB_MIN_WORK_MS                                 *)
  MinWorkHashes,  (* JANUS_JOB_MIN_WORK_HASHES                             *)
  QueueMaxAge,    (* JANUS_JOB_QUEUE_MAX_AGE_MS                            *)
  RxDepth,        (* ANCHOR_RX_QUEUE_DEPTH                                 *)
  RxBudget,       (* ANCHOR_RX_PROCESS_BUDGET                              *)
  MaxBatch,       (* hashes of one call of runMining, at most              *)
  MaxDelay,       (* bound on the time that mining, or the rest of a pass,
                     takes                                                 *)
  None

ASSUME SliceAssumption ==
  /\ \A s \in Slice : s = [id |-> s.id, start |-> s.start, range |-> s.range]
  /\ \A s \in Slice : s.range \in Nat \ {0} /\ s.id # None
  /\ None \notin Slice /\ Slice \cap NoWork = {}
  /\ None \notin [slice : Slice, at : 0 .. Modulus - 1]
ASSUME ClockAssumption ==
  /\ {Modulus, JobTimeout, MinWorkMs, MinWorkHashes, QueueMaxAge} \subseteq Nat \ {0}
  /\ MaxDelay \in Nat
  /\ JobTimeout + 2 * MaxDelay <= Modulus \div 2
  /\ QueueMaxAge + 2 * MaxDelay <= Modulus \div 2
ASSUME QueueAssumption ==
  /\ RxDepth \in Nat \ {0} /\ RxBudget \in Nat \ {0} /\ MaxBatch \in Nat \ {0}

VARIABLES
  clock,      (* millis()                                                  *)
  rx,         (* anchorNowQueue                                            *)
  job,        (* the slice that runs, or ran last                          *)
  queued,     (* the slice that waits, or None                             *)
  pc,         (* the step of loop() that comes next                        *)
  processed,  (* frames handled in this pass                               *)
  latest,     (* history: id of the last work that a handled frame offered *)
  elapsed     (* history: time since the running job was accepted, up to
                 Modulus                                                   *)

vars == <<clock, rx, job, queued, pc, processed, latest, elapsed>>

Instant == 0 .. Modulus - 1

Job == [active : BOOLEAN, slice : Slice \union {None}, done : Nat, at : Instant]

TypeOK ==
  /\ clock \in Instant
  /\ rx \in Seq(Slice \union NoWork) /\ Len(rx) <= RxDepth
  /\ job \in Job
  /\ job.active => job.slice \in Slice /\ job.done <= job.slice.range
  /\ queued \in [slice : Slice, at : Instant] \union {None}
  /\ pc \in {"receive", "mine", "keep"}
  /\ processed \in 0 .. RxBudget
  /\ latest \in {s.id : s \in Slice} \union {None}
  /\ elapsed \in 0 .. Modulus

Init ==
  /\ clock \in Instant
  /\ rx = <<>>
  /\ job = [active |-> FALSE, slice |-> None, done |-> 0, at |-> 0]
  /\ queued = None
  /\ pc = "receive"
  /\ processed = 0
  /\ latest = None
  /\ elapsed = 0

----------------------------------------------------------------------------
Since(then) == (clock - then) % Modulus

(* janusSafeAgeMs, with 0 for an instant that is missing: the age is 0 too
   when it is so large that the instant seems to lie ahead. *)
Age(then) ==
  IF then = 0 \/ Since(then) >= Modulus \div 2 THEN 0 ELSE Since(then)

(* janusJobAccept, but for the lane of the miner (NonceWalk). *)
Accepted(slice) == [active |-> TRUE, slice |-> slice, done |-> 0, at |-> clock]

Stopped(j) == [j EXCEPT !.active = FALSE]

(* A bug: the age of the slice is not looked at. *)
PromotedHoweverOld(j, q) == IF q = None THEN j ELSE Accepted(q.slice)

(* janusJobPromoteQueued: whether or not it is too old, the slice leaves the
   queue. *)
Promoted(j, q) ==
  IF q = None THEN j
  ELSE IF Age(q.at) >= QueueMaxAge THEN j
  ELSE Accepted(q.slice)

UsefulShare(j) == Age(j.at) >= MinWorkMs \/ j.done >= MinWorkHashes

(* A bug: the running job yields whatever it has done. *)
YieldsAtOnce(j, q) == j.active /\ q # None

(* janusJobReadyToYield *)
ReadyToYield(j, q) ==
  /\ j.active
  /\ q # None
  /\ j.slice.id # q.slice.id \/ UsefulShare(j)

(* The clock moves on in a step; the real age of the running job is kept apart
   from it. *)
TimePasses(delay) ==
  \E t \in 0 .. delay :
    /\ clock' = (clock + t) % Modulus
    /\ elapsed' = IF ~job'.active THEN 0
                  ELSE IF job' # job /\ job'.done = 0 THEN t
                  ELSE IF elapsed + t > Modulus THEN Modulus
                  ELSE elapsed + t

----------------------------------------------------------------------------
(* onRecv, in the Wi-Fi task at any time: a frame that finds the queue full is
   dropped, which is a frame that was never sent. *)
OnRecv ==
  /\ Len(rx) < RxDepth
  /\ \E frame \in Slice \union NoWork : rx' = Append(rx, frame)
  /\ UNCHANGED <<clock, job, queued, pc, processed, latest, elapsed>>

(* A bug: new work starts and leaves what waits in the queue. *)
ReplaceKeepingQueue(slice) == job' = Accepted(slice) /\ UNCHANGED queued

(* Accepting a packet empties the queue. *)
Replace(slice) == job' = Accepted(slice) /\ queued' = None

Duplicate(slice) == slice = job.slice \/ (queued # None /\ slice = queued.slice)

(* janusJobQueue: a slice that waits already gives way. *)
Hold(slice) == queued' = [slice |-> slice, at |-> clock] /\ UNCHANGED job

(* janusJobHandlePacket, for a packet that offers work *)
HandlePacket(slice) ==
  /\ latest' = slice.id
  /\ \/ ~job.active /\ Replace(slice)
     \/ job.active /\ Duplicate(slice) /\ UNCHANGED <<job, queued>>
     \/ /\ job.active /\ ~Duplicate(slice)
        /\ slice.id # job.slice.id \/ UsefulShare(job)
        /\ Replace(slice)
     \/ /\ job.active /\ ~Duplicate(slice)
        /\ slice.id = job.slice.id /\ ~UsefulShare(job)
        /\ Hold(slice)

(* anchorProcessNowQueue *)
Receive ==
  /\ pc = "receive"
  /\ \/ /\ processed < RxBudget /\ rx # <<>>
        /\ \/ Head(rx) \in Slice /\ HandlePacket(Head(rx))
           \/ Head(rx) \in NoWork /\ UNCHANGED <<job, queued, latest>>
        /\ rx' = Tail(rx)
        /\ processed' = processed + 1
        /\ UNCHANGED pc
     \/ /\ processed = RxBudget \/ rx = <<>>
        /\ pc' = "mine"
        /\ processed' = 0
        /\ UNCHANGED <<rx, job, queued, latest>>
  /\ TimePasses(0)

----------------------------------------------------------------------------
(* runMining *)

(* The job ends, and what waits is promoted or dropped. *)
End(j) == job' = Promoted(Stopped(j), queued) /\ queued' = None

(* A bug: no job is ever too old. *)
NeverTimedOut(j) == FALSE

TimedOut(j) == j.at # 0 /\ Age(j.at) >= JobTimeout

(* A bug: the hashes are not counted. *)
HashedUncounted(j, n) == j

Hashed(j, n) == [j EXCEPT !.done = @ + n]

(* A batch hashes some nonces of the slice, the last of them perhaps a ticket;
   or it comes to the end of the slice and ends the job. *)
MineBatch ==
  LET left == job.slice.range - job.done
  IN \/ \E n \in 1 .. MaxBatch :
          /\ n <= left
          /\ \/ job' = Hashed(job, n) /\ UNCHANGED queued
             \/ End(Hashed(job, n))
     \/ left < MaxBatch /\ End(Hashed(job, left))

RunMining ==
  /\ pc = "mine"
  /\ \/ ~job.active /\ job' = Promoted(job, queued) /\ queued' = None
     \/ job.active /\ TimedOut(job) /\ End(job)
     \/ job.active /\ ~TimedOut(job) /\ MineBatch
  /\ pc' = "keep"
  /\ UNCHANGED <<rx, processed, latest>>
  /\ TimePasses(MaxDelay)

(* A bug: a promoted slice stays in the queue. *)
KeepQueued(q) == queued' = q

TakeQueued(q) == queued' = None

(* What still waits when a slice that has grown too old is dropped. *)
Fresh(q) ==
  IF q # None /\ q.at # 0 /\ Age(q.at) >= QueueMaxAge THEN None ELSE q

(* janusJobHousekeeping *)
Housekeeping ==
  /\ pc = "keep"
  /\ IF ~job.active \/ ReadyToYield(job, Fresh(queued))
     THEN job' = Promoted(job, Fresh(queued)) /\ TakeQueued(queued)
     ELSE queued' = Fresh(queued) /\ UNCHANGED job
  /\ pc' = "receive"
  /\ UNCHANGED <<rx, processed, latest>>
  /\ TimePasses(MaxDelay)

Next == OnRecv \/ Receive \/ RunMining \/ Housekeeping

Spec == Init /\ [][Next]_vars

(* loop() is called again and again; frames may come or not. *)
FairSpec == Spec /\ WF_vars(Receive \/ RunMining \/ Housekeeping)

----------------------------------------------------------------------------
(* Properties. *)

(* "brand-new pool work still replaces instantly" (Anchor.ino:257): what runs,
   ran last or waits belongs to the last work that a handled frame offered;
   nothing of an older work comes back out of the queue, whatever ended
   between. *)
LatestWorkOnly ==
  /\ job.slice # None => job.slice.id = latest
  /\ job.slice = None => latest = None
  /\ queued # None => queued.slice.id = latest

(* A slice waits only while another slice is being mined: the node never idles
   with work in its queue, and never has the same slice running and waiting,
   however job ends, timeouts and repeated packets interleave. *)
WaitsOnlyBehindAnother ==
  queued # None => job.active /\ job.slice # queued.slice

(* "gives every same-fingerprint nonce range a small useful slice before
   yielding to the next queued range" (Anchor.ino:274-275): outside the miner,
   a running slice is left for another of the same work only when it has run
   for MinWorkMs of real time or has done MinWorkHashes. *)
YieldsAfterUsefulShare ==
  [][/\ job.active /\ pc # "mine"
     /\ job'.slice # job.slice /\ job'.slice.id = job.slice.id
     => elapsed >= MinWorkMs \/ job.done >= MinWorkHashes]_vars

(* A slice that has waited for QueueMaxAge is never started, by whichever of
   the three ways out of the queue. The instant 0 is the exception: it means
   "never" to the code, so a slice queued then does not grow old. *)
StaleSliceNeverStarts ==
  [][/\ queued # None /\ queued.at # 0
     /\ job'.active /\ job'.slice = queued.slice
     => Since(queued.at) < QueueMaxAge]_vars

(* After the miner has run, no job is older in real time than its timeout and
   the time the miner took, also when millis() wraps around in between. A job
   accepted at the instant 0 is the exception again: it ends only with its
   range. *)
JobEndsByTimeout ==
  pc = "keep" /\ job.active /\ job.at # 0 => elapsed < JobTimeout + MaxDelay

(* Every slice that is started ends, at the latest with its range. *)
EverySliceEnds ==
  \A s \in Slice : job.active /\ job.slice = s ~> ~(job.active /\ job.slice = s)

(* No slice waits for ever, however many others are announced. *)
QueueIsServed == queued # None ~> queued = None
=============================================================================
