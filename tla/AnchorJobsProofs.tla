-------------------------- MODULE AnchorJobsProofs --------------------------
(***************************************************************************)
(* Proofs about AnchorJobs: which work the node runs, what waits, and that *)
(* ages taken modulo the range of millis() are the real ones where the     *)
(* policy depends on them.                                                 *)
(*                                                                         *)
(* The properties about time are not inductive. What they need is that the *)
(* clock tells the real age of the running job (ClockInv), which fails     *)
(* once a job is older than the clock's range; that no job gets so old is  *)
(* in turn what its timeout ensures in every pass. The same holds for the  *)
(* slice that waits (QueueInv).                                            *)
(***************************************************************************)
EXTENDS AnchorJobs, Basics, TLAPS

(* Until its age reaches the range of the clock, the clock tells it; and the
   timeout, which is looked at once in a pass, keeps it well below that unless
   the job has no instant. *)
ClockInv ==
  job.active =>
    /\ elapsed < Modulus => Since(job.at) = elapsed
    /\ job.at # 0 =>
         elapsed < JobTimeout + (IF pc = "keep" THEN MaxDelay ELSE 2 * MaxDelay)

(* A slice that waits is looked at once in a pass too. *)
QueueInv ==
  queued # None /\ queued.at # 0 =>
    Since(queued.at) < QueueMaxAge + (IF pc = "keep" THEN 2 * MaxDelay ELSE MaxDelay)

IInv == TypeOK /\ LatestWorkOnly /\ WaitsOnlyBehindAnother /\ ClockInv /\ QueueInv

----------------------------------------------------------------------------
(* The clock. *)

LEMMA ConstantsInRange ==
  /\ Modulus \in Nat \ {0} /\ MaxDelay \in Nat /\ MaxDelay < Modulus
  /\ JobTimeout \in Nat \ {0} /\ JobTimeout + 2 * MaxDelay < Modulus
  /\ QueueMaxAge \in Nat \ {0} /\ QueueMaxAge + 2 * MaxDelay < Modulus
  /\ MinWorkMs \in Nat \ {0}
  /\ Modulus \div 2 \in Nat
  /\ JobTimeout + 2 * MaxDelay <= Modulus \div 2
  /\ QueueMaxAge + 2 * MaxDelay <= Modulus \div 2
<1>1. Modulus \div 2 \in Nat /\ Modulus \div 2 < Modulus
  BY HalfIsBelow, ClockAssumption
<1> QED  BY <1>1, ClockAssumption

LEMMA SinceIsInstant ==
  ASSUME clock \in Instant, NEW STATE a, a \in Instant
  PROVE  Since(a) \in 0 .. Modulus - 1
<1>1. (clock - a) % Modulus = IF a <= clock THEN clock - a ELSE clock - a + Modulus
  BY DifferenceModulo, ConstantsInRange DEF Instant
<1> QED  BY <1>1, ConstantsInRange DEF Since, Instant

(* An age that is below half the range is the one that the code computes. *)
LEMMA AgeIsReal ==
  ASSUME clock \in Instant, NEW STATE a, a \in Instant, a # 0,
         Since(a) < Modulus \div 2
  PROVE  Age(a) = Since(a)
<1>1. Since(a) \in 0 .. Modulus - 1 /\ Modulus \div 2 \in Nat
  BY SinceIsInstant, ConstantsInRange
<1>2. ~(Since(a) >= Modulus \div 2)
  BY <1>1
<1> QED  BY <1>2 DEF Age

LEMMA AgeAtMostSince ==
  ASSUME clock \in Instant, NEW STATE a, a \in Instant, Age(a) > 0
  PROVE  a # 0 /\ Age(a) = Since(a)
BY DEF Age

LEMMA TimeTypes ==
  ASSUME clock \in Instant, elapsed \in 0 .. Modulus,
         NEW delay \in 0 .. MaxDelay, TimePasses(delay)
  PROVE  clock' \in Instant /\ elapsed' \in 0 .. Modulus
<1>1. PICK t \in 0 .. delay :
        /\ clock' = (clock + t) % Modulus
        /\ elapsed' = IF ~job'.active THEN 0
                      ELSE IF job' # job /\ job'.done = 0 THEN t
                      ELSE IF elapsed + t > Modulus THEN Modulus
                      ELSE elapsed + t
  BY DEF TimePasses
<1>2. t \in 0 .. Modulus - 1
  BY ConstantsInRange
<1>3. clock' \in Instant
  BY <1>1, <1>2, SumModulo, ConstantsInRange DEF Instant
<1>4. elapsed' \in 0 .. Modulus
  BY <1>1, <1>2, ConstantsInRange
<1> QED  BY <1>3, <1>4

(* How a step may end without disturbing ClockInv: no job runs, a job has just
   been accepted, or the same job goes on and is not too old. *)
LEMMA TimeKeepsClockInv ==
  ASSUME TypeOK, TypeOK', NEW delay \in 0 .. MaxDelay, TimePasses(delay),
         \/ ~job'.active
         \/ job' # job /\ job'.done = 0 /\ job'.at = clock
         \/ /\ job.active /\ ClockInv
            /\ job'.at = job.at
            /\ job' = job \/ job'.done # 0
            /\ job.at # 0 =>
                 elapsed + delay
                   < JobTimeout + (IF pc' = "keep" THEN MaxDelay ELSE 2 * MaxDelay)
  PROVE  ClockInv'
<1> SUFFICES ASSUME job'.active
             PROVE  /\ elapsed' < Modulus => Since(job.at)' = elapsed'
                    /\ job'.at # 0 =>
                         elapsed' < JobTimeout
                           + (IF pc' = "keep" THEN MaxDelay ELSE 2 * MaxDelay)
  BY DEF ClockInv
<1>1. PICK t \in 0 .. delay :
        /\ clock' = (clock + t) % Modulus
        /\ elapsed' = IF ~job'.active THEN 0
                      ELSE IF job' # job /\ job'.done = 0 THEN t
                      ELSE IF elapsed + t > Modulus THEN Modulus
                      ELSE elapsed + t
  BY DEF TimePasses
<1>2. t \in 0 .. Modulus - 1 /\ t <= MaxDelay
  BY ConstantsInRange
<1>3. clock \in 0 .. Modulus - 1 /\ job.at \in 0 .. Modulus - 1 /\ elapsed \in 0 .. Modulus
  BY DEF TypeOK, Job, Instant
<1>4. CASE job' # job /\ job'.done = 0 /\ job'.at = clock
  <2>1. elapsed' = t
    BY <1>1, <1>4
  <2>2. (((clock + t) % Modulus) - clock) % Modulus = ((clock - clock) % Modulus) + t
    <3>1. (clock - clock) % Modulus = 0
      BY <1>3, AgeOfNow, ConstantsInRange
    <3>2. ((clock - clock) % Modulus) + t < Modulus
      BY <3>1, <1>2, ConstantsInRange
    <3> QED  BY <3>2, <1>2, <1>3, AgeGrows, ConstantsInRange
  <2>3. Since(job.at)' = t
    <3>1. (clock - clock) % Modulus = 0
      BY <1>3, AgeOfNow, ConstantsInRange
    <3>2. Since(job.at)' = (((clock + t) % Modulus) - clock) % Modulus
      BY <1>1, <1>4 DEF Since
    <3> QED  BY <2>2, <3>1, <3>2, <1>2
  <2> QED  BY <2>1, <2>3, <1>2, ConstantsInRange
<1>5. CASE /\ job.active /\ ClockInv
           /\ job'.at = job.at
           /\ job' = job \/ job'.done # 0
           /\ job.at # 0 =>
                elapsed + delay
                  < JobTimeout + (IF pc' = "keep" THEN MaxDelay ELSE 2 * MaxDelay)
  <2>1. elapsed' = IF elapsed + t > Modulus THEN Modulus ELSE elapsed + t
    BY <1>1, <1>5
  <2>2. ASSUME elapsed' < Modulus
        PROVE  Since(job.at)' = elapsed'
    <3>1. elapsed + t < Modulus /\ elapsed' = elapsed + t /\ elapsed < Modulus
      BY <2>1, <2>2, <1>2, <1>3, ConstantsInRange
    <3>2. (clock - job.at) % Modulus = elapsed
      BY <3>1, <1>5 DEF ClockInv, Since
    <3>3. (((clock + t) % Modulus) - job.at) % Modulus
            = ((clock - job.at) % Modulus) + t
      BY <3>1, <3>2, <1>2, <1>3, AgeGrows, ConstantsInRange
    <3>4. Since(job.at)' = (((clock + t) % Modulus) - job.at) % Modulus
      BY <1>1, <1>5 DEF Since
    <3> QED  BY <3>1, <3>2, <3>3, <3>4
  <2>3. ASSUME job'.at # 0
        PROVE  elapsed' < JobTimeout + (IF pc' = "keep" THEN MaxDelay ELSE 2 * MaxDelay)
    <3>1. elapsed + delay
            < JobTimeout + (IF pc' = "keep" THEN MaxDelay ELSE 2 * MaxDelay)
      BY <1>5, <2>3
    <3>2. elapsed' <= elapsed + t /\ elapsed' \in Nat
      BY <2>1, <1>2, <1>3, ConstantsInRange
    <3> QED  BY <3>1, <3>2, <1>2, <1>3, ConstantsInRange
  <2> QED  BY <2>2, <2>3
<1> QED  BY <1>4, <1>5

(* Likewise for QueueInv: nothing waits, a slice has just been queued, or the
   same slice goes on waiting and is not too old. *)
LEMMA TimeKeepsQueueInv ==
  ASSUME TypeOK, TypeOK', NEW delay \in 0 .. MaxDelay, TimePasses(delay),
         \/ queued' = None
         \/ queued' # None /\ queued'.at = clock
         \/ /\ queued' = queued /\ queued # None
            /\ queued.at # 0 =>
                 Since(queued.at) + delay
                   < QueueMaxAge + (IF pc' = "keep" THEN 2 * MaxDelay ELSE MaxDelay)
  PROVE  QueueInv'
<1> SUFFICES ASSUME queued' # None, queued'.at # 0
             PROVE  Since(queued.at)'
                      < QueueMaxAge + (IF pc' = "keep" THEN 2 * MaxDelay ELSE MaxDelay)
  BY DEF QueueInv
<1>1. PICK t \in 0 .. delay : clock' = (clock + t) % Modulus
  BY DEF TimePasses
<1>2. t \in 0 .. Modulus - 1 /\ t <= MaxDelay /\ t <= delay
  BY ConstantsInRange
<1>3. clock \in 0 .. Modulus - 1
  BY DEF TypeOK, Instant
<1>4. CASE queued'.at = clock
  <2>1. (clock - clock) % Modulus = 0
    BY <1>3, AgeOfNow, ConstantsInRange
  <2>2. ((clock - clock) % Modulus) + t < Modulus
    BY <2>1, <1>2, ConstantsInRange
  <2>3. (((clock + t) % Modulus) - clock) % Modulus = ((clock - clock) % Modulus) + t
    BY <2>2, <1>2, <1>3, AgeGrows, ConstantsInRange
  <2>4. Since(queued.at)' = t
    <3>1. Since(queued.at)' = (((clock + t) % Modulus) - clock) % Modulus
      BY <1>1, <1>4 DEF Since
    <3> QED  BY <2>1, <2>3, <3>1, <1>2
  <2> QED  BY <2>4, <1>2, ConstantsInRange
<1>5. CASE /\ queued' = queued /\ queued # None
           /\ queued.at # 0 =>
                Since(queued.at) + delay
                  < QueueMaxAge + (IF pc' = "keep" THEN 2 * MaxDelay ELSE MaxDelay)
  <2>1. queued.at \in 0 .. Modulus - 1
    BY <1>5 DEF TypeOK, Instant
  <2>2. Since(queued.at) + delay
          < QueueMaxAge + (IF pc' = "keep" THEN 2 * MaxDelay ELSE MaxDelay)
    BY <1>5
  <2>3. Since(queued.at) \in 0 .. Modulus - 1
    BY <1>3, <2>1, SinceIsInstant DEF Instant
  <2>4. Since(queued.at) + t < Modulus
    BY <2>2, <2>3, <1>2, ConstantsInRange
  <2>5. (((clock + t) % Modulus) - queued.at) % Modulus = Since(queued.at) + t
    BY <2>1, <2>4, <1>2, <1>3, AgeGrows, ConstantsInRange DEF Since
  <2>6. Since(queued.at)' = Since(queued.at) + t
    BY <2>5, <1>1, <1>5 DEF Since
  <2> QED  BY <2>2, <2>3, <2>6, <1>2, ConstantsInRange
<1> QED  BY <1>4, <1>5

----------------------------------------------------------------------------
(* The steps. *)

LEMMA NoneIsApart ==
  /\ None \notin Slice
  /\ \A s \in Slice : s.id # None /\ s.range \in Nat \ {0}
  /\ Slice \cap NoWork = {}
  /\ None \notin [slice : Slice, at : Instant]
BY SliceAssumption DEF Instant

(* Promotion leaves the job as it is, or starts the slice that waited. *)
LEMMA PromotionStarts ==
  ASSUME NEW STATE j, NEW STATE q
  PROVE  \/ Promoted(j, q) = j
         \/ /\ q # None
            /\ Promoted(j, q) = [active |-> TRUE, slice |-> q.slice, done |-> 0, at |-> clock]
            /\ ~(Age(q.at) >= QueueMaxAge)
BY DEF Promoted, Accepted

LEMMA InitEstablishesIInv ==
  Init => IInv
<1> SUFFICES ASSUME Init PROVE IInv
  OBVIOUS
<1>1. TypeOK
  BY ConstantsInRange, QueueAssumption DEF Init, TypeOK, Job, Instant
<1>2. LatestWorkOnly /\ WaitsOnlyBehindAnother /\ ClockInv /\ QueueInv
  BY DEF Init, LatestWorkOnly, WaitsOnlyBehindAnother, ClockInv, QueueInv
<1> QED  BY <1>1, <1>2 DEF IInv

LEMMA OnRecvKeepsIInv ==
  ASSUME IInv, OnRecv
  PROVE  IInv'
<1> USE DEF IInv
<1>1. PICK frame \in Slice \union NoWork : rx' = Append(rx, frame)
  BY DEF OnRecv
<1>2. rx' \in Seq(Slice \union NoWork) /\ Len(rx') <= RxDepth
  BY <1>1, QueueAssumption DEF OnRecv, TypeOK
<1>3. UNCHANGED <<clock, job, queued, pc, processed, latest, elapsed>>
  BY DEF OnRecv
<1>4. TypeOK'
  BY <1>2, <1>3 DEF TypeOK
<1>5. LatestWorkOnly' /\ WaitsOnlyBehindAnother'
  BY <1>3 DEF LatestWorkOnly, WaitsOnlyBehindAnother
<1>6. ClockInv' /\ QueueInv'
  BY <1>3 DEF ClockInv, QueueInv, Since
<1> QED  BY <1>4, <1>5, <1>6

(* A packet that offers work is a duplicate, starts its slice at once, or puts
   it behind the job that runs. *)
LEMMA HandlePacketCases ==
  ASSUME NEW STATE slice, slice \in Slice, HandlePacket(slice)
  PROVE  /\ latest' = slice.id
         /\ \/ /\ job.active /\ Duplicate(slice)
               /\ job' = job /\ queued' = queued
            \/ /\ ~job.active \/ ~Duplicate(slice)
               /\ job.active => slice.id # job.slice.id \/ UsefulShare(job)
               /\ job' = [active |-> TRUE, slice |-> slice, done |-> 0, at |-> clock]
               /\ queued' = None
            \/ /\ job.active /\ ~Duplicate(slice) /\ slice.id = job.slice.id
               /\ job' = job
               /\ queued' = [slice |-> slice, at |-> clock]
BY DEF HandlePacket, Replace, Hold, Accepted

LEMMA ReceiveKeepsIInv ==
  ASSUME IInv, Receive
  PROVE  IInv'
<1> USE DEF IInv
<1>1. pc = "receive" /\ pc' \in {"receive", "mine"} /\ TimePasses(0)
  BY DEF Receive
<1>2. 0 \in 0 .. MaxDelay
  BY ConstantsInRange
<1>3. clock' \in Instant /\ elapsed' \in 0 .. Modulus
  BY <1>1, <1>2, TimeTypes DEF TypeOK
<1>4. rx' \in Seq(Slice \union NoWork) /\ Len(rx') <= RxDepth
  BY QueueAssumption DEF Receive, TypeOK
<1>5. processed' \in 0 .. RxBudget
  BY QueueAssumption DEF Receive, TypeOK
<1>6. CASE UNCHANGED <<job, queued, latest>>
  <2>1. TypeOK'
    BY <1>1, <1>3, <1>4, <1>5, <1>6 DEF TypeOK
  <2>2. LatestWorkOnly' /\ WaitsOnlyBehindAnother'
    BY <1>6 DEF LatestWorkOnly, WaitsOnlyBehindAnother
  <2>3. ClockInv'
    <3>1. job.active /\ job.at # 0 => elapsed + 0 < JobTimeout + 2 * MaxDelay
      BY <1>1, ConstantsInRange DEF ClockInv, TypeOK
    <3> QED  BY <1>1, <1>2, <1>6, <2>1, <3>1, TimeKeepsClockInv
  <2>4. QueueInv'
    <3>1. ASSUME queued # None, queued.at # 0
          PROVE  Since(queued.at) + 0 < QueueMaxAge + MaxDelay
      <4>1. queued.at \in Instant
        BY <3>1 DEF TypeOK
      <4>2. Since(queued.at) \in 0 .. Modulus - 1
        BY <4>1, SinceIsInstant DEF TypeOK
      <4> QED  BY <1>1, <3>1, <4>2, ConstantsInRange DEF QueueInv
    <3> QED  BY <1>1, <1>2, <1>6, <2>1, <3>1, TimeKeepsQueueInv
  <2> QED  BY <2>1, <2>2, <2>3, <2>4
<1>7. CASE rx # <<>> /\ Head(rx) \in Slice /\ HandlePacket(Head(rx))
  <2> DEFINE slice == Head(rx)
  <2>1. slice \in Slice /\ HandlePacket(slice)
    BY <1>7
  <2> HIDE DEF slice
  <2>2. latest' = slice.id /\ latest' \in {s.id : s \in Slice} \union {None}
    BY <2>1, HandlePacketCases
  <2>3. CASE job.active /\ Duplicate(slice) /\ job' = job /\ queued' = queued
    <3>1. TypeOK'
      BY <1>1, <1>3, <1>4, <1>5, <2>2, <2>3 DEF TypeOK
    <3>2. slice.id = latest
      BY <2>1, <2>3, NoneIsApart DEF Duplicate, LatestWorkOnly, TypeOK
    <3>3. LatestWorkOnly' /\ WaitsOnlyBehindAnother'
      BY <2>2, <2>3, <3>2 DEF LatestWorkOnly, WaitsOnlyBehindAnother
    <3>4. ClockInv'
      <4>1. job.active /\ job.at # 0 => elapsed + 0 < JobTimeout + 2 * MaxDelay
        BY <1>1, ConstantsInRange DEF ClockInv, TypeOK
      <4> QED  BY <1>1, <1>2, <2>3, <3>1, <4>1, TimeKeepsClockInv
    <3>5. QueueInv'
      <4>1. ASSUME queued # None, queued.at # 0
            PROVE  Since(queued.at) + 0 < QueueMaxAge + MaxDelay
        <5>1. queued.at \in Instant
          BY <4>1 DEF TypeOK
        <5>2. Since(queued.at) \in 0 .. Modulus - 1
          BY <5>1, SinceIsInstant DEF TypeOK
        <5> QED  BY <1>1, <4>1, <5>2, ConstantsInRange DEF QueueInv
      <4> QED  BY <1>1, <1>2, <2>3, <3>1, <4>1, TimeKeepsQueueInv
    <3> QED  BY <3>1, <3>3, <3>4, <3>5
  <2>4. CASE /\ ~job.active \/ ~Duplicate(slice)
             /\ job' = [active |-> TRUE, slice |-> slice, done |-> 0, at |-> clock]
             /\ queued' = None
    <3>1. TypeOK'
      BY <1>1, <1>3, <1>4, <1>5, <2>1, <2>2, <2>4, NoneIsApart DEF TypeOK, Job
    <3>2. LatestWorkOnly' /\ WaitsOnlyBehindAnother'
      BY <2>1, <2>2, <2>4, NoneIsApart DEF LatestWorkOnly, WaitsOnlyBehindAnother
    <3>3. job' # job /\ job'.done = 0 /\ job'.at = clock
      BY <2>4 DEF Duplicate
    <3> QED  BY <1>1, <1>2, <2>4, <3>1, <3>2, <3>3, TimeKeepsClockInv, TimeKeepsQueueInv
  <2>5. CASE /\ job.active /\ ~Duplicate(slice) /\ slice.id = job.slice.id
             /\ job' = job
             /\ queued' = [slice |-> slice, at |-> clock]
    <3>1. queued' \in [slice : Slice, at : Instant] /\ queued' # None
      <4>1. [slice |-> slice, at |-> clock] \in [slice : Slice, at : Instant]
        BY <2>1 DEF TypeOK
      <4> QED  BY <2>5, <4>1, NoneIsApart
    <3>2. TypeOK'
      <4>1. job' \in Job /\ (job'.active => job'.slice \in Slice /\ job'.done <= job'.slice.range)
        BY <2>5 DEF TypeOK
      <4>2. queued' \in [slice : Slice, at : Instant] \union {None}
        BY <3>1
      <4>3. pc' \in {"receive", "mine", "keep"}
        BY <1>1
      <4> QED  BY <1>3, <1>4, <1>5, <2>2, <4>1, <4>2, <4>3 DEF TypeOK
    <3>3. LatestWorkOnly' /\ WaitsOnlyBehindAnother'
      <4>1. queued'.slice = slice /\ slice # job.slice
        BY <2>5 DEF Duplicate
      <4>2. job'.slice = job.slice /\ job'.active /\ job.slice # None
        BY <2>5, NoneIsApart DEF TypeOK
      <4>3. latest' = slice.id /\ job.slice.id = slice.id
        BY <2>2, <2>5
      <4> QED  BY <4>1, <4>2, <4>3 DEF LatestWorkOnly, WaitsOnlyBehindAnother
    <3>4. ClockInv'
      <4>1. job.active /\ job.at # 0 => elapsed + 0 < JobTimeout + 2 * MaxDelay
        BY <1>1, ConstantsInRange DEF ClockInv, TypeOK
      <4> QED  BY <1>1, <1>2, <2>5, <3>2, <4>1, TimeKeepsClockInv
    <3>5. QueueInv'
      BY <1>1, <1>2, <2>5, <3>1, <3>2, TimeKeepsQueueInv
    <3> QED  BY <3>2, <3>3, <3>4, <3>5
  <2> QED  BY <2>1, <2>3, <2>4, <2>5, HandlePacketCases
<1> QED  BY <1>6, <1>7 DEF Receive

(* The ways out of the queue: a job that has ended, or that yields, is followed
   by what waits. *)
LEMMA PromotionKeepsIInv ==
  ASSUME IInv, TimePasses(MaxDelay),
         NEW STATE j, j \in Job, j.slice = job.slice,
         NEW STATE q, q = queued \/ q = None,
         ~j.active \/ Promoted(j, q) # j,
         job' = Promoted(j, q), queued' = None,
         rx' = rx, processed' = processed, latest' = latest,
         pc' \in {"receive", "keep"}
  PROVE  IInv'
<1> USE DEF IInv
<1>1. MaxDelay \in 0 .. MaxDelay
  BY ConstantsInRange
<1>2. clock' \in Instant /\ elapsed' \in 0 .. Modulus
  BY <1>1, TimeTypes DEF TypeOK
<1>3. CASE q # None
           /\ job' = [active |-> TRUE, slice |-> q.slice, done |-> 0, at |-> clock]
  <2>1. q = queued /\ q \in [slice : Slice, at : Instant]
    BY <1>3 DEF TypeOK
  <2>2. job' \in Job /\ job'.active /\ job'.slice \in Slice /\ job'.done = 0
        /\ job'.at = clock /\ job'.slice = queued.slice
    BY <1>3, <2>1 DEF TypeOK, Job
  <2>3. job'.done <= job'.slice.range
    BY <2>2, NoneIsApart
  <2>4. TypeOK'
    BY <1>2, <2>2, <2>3 DEF TypeOK
  <2>5. LatestWorkOnly' /\ WaitsOnlyBehindAnother'
    BY <1>3, <2>1, <2>2, NoneIsApart DEF LatestWorkOnly, WaitsOnlyBehindAnother
  <2>6. job' # job
    BY <1>3, <2>1, <2>2 DEF WaitsOnlyBehindAnother
  <2>7. ClockInv'
    BY <1>1, <2>2, <2>4, <2>6, TimeKeepsClockInv
  <2> QED  BY <1>1, <2>4, <2>5, <2>7, TimeKeepsQueueInv
<1>4. CASE job' = j /\ ~j.active
  <2>1. TypeOK'
    BY <1>2, <1>4 DEF TypeOK
  <2>2. LatestWorkOnly' /\ WaitsOnlyBehindAnother'
    BY <1>4 DEF LatestWorkOnly, WaitsOnlyBehindAnother
  <2> QED  BY <1>4, <2>1, <2>2 DEF ClockInv, QueueInv
<1> QED  BY <1>3, <1>4, PromotionStarts

(* While it is mined, a job whose timeout has not come has a real age below
   it. *)
LEMMA NotTimedOut ==
  ASSUME IInv, pc = "mine", job.active, ~TimedOut(job), job.at # 0
  PROVE  elapsed < JobTimeout
<1> USE DEF IInv
<1>1. job.at \in Instant /\ clock \in Instant /\ elapsed \in 0 .. Modulus
  BY DEF TypeOK, Job
<1>2. elapsed < JobTimeout + 2 * MaxDelay
  BY DEF ClockInv
<1>3. elapsed < Modulus /\ elapsed < Modulus \div 2
  BY <1>1, <1>2, ConstantsInRange
<1>4. Since(job.at) = elapsed
  BY <1>3 DEF ClockInv
<1>5. Age(job.at) = elapsed
  BY <1>1, <1>3, <1>4, AgeIsReal
<1> QED  BY <1>1, <1>5, ConstantsInRange DEF TimedOut

(* Half the range is never reached by what waits. *)
LEMMA WaitingAge ==
  ASSUME IInv, queued # None, queued.at # 0
  PROVE  /\ Age(queued.at) = Since(queued.at)
         /\ Since(queued.at) \in Nat
<1> USE DEF IInv
<1>1. queued.at \in Instant /\ clock \in Instant
  BY DEF TypeOK
<1>2. Since(queued.at) \in 0 .. Modulus - 1
  BY <1>1, SinceIsInstant
<1>3. Since(queued.at) < QueueMaxAge + 2 * MaxDelay
  BY <1>2, ConstantsInRange DEF QueueInv
<1>4. Since(queued.at) < Modulus \div 2
  BY <1>2, <1>3, ConstantsInRange
<1> QED  BY <1>1, <1>2, <1>4, AgeIsReal, ConstantsInRange

LEMMA RunMiningKeepsIInv ==
  ASSUME IInv, RunMining
  PROVE  IInv'
<1> USE DEF IInv
<1>1. /\ pc = "mine" /\ pc' = "keep" /\ TimePasses(MaxDelay)
      /\ rx' = rx /\ processed' = processed /\ latest' = latest
  BY DEF RunMining
<1>2. MaxDelay \in 0 .. MaxDelay
  BY ConstantsInRange
<1>3. job \in Job
  BY DEF TypeOK
<1>4. CASE ~job.active /\ job' = Promoted(job, queued) /\ queued' = None
  BY <1>1, <1>3, <1>4, PromotionKeepsIInv
<1>5. ASSUME NEW n \in Nat, job.active, End(Hashed(job, n))
      PROVE  IInv'
  <2> DEFINE j == Stopped(Hashed(job, n))
  <2>1. j \in Job /\ ~j.active /\ j.slice = job.slice
    <3> DEFINE h == Hashed(job, n)
    <3>1. job.done + n \in Nat
      BY <1>3 DEF Job
    <3>2. h \in Job /\ h.slice = job.slice
      BY <1>3, <3>1 DEF Hashed, Job
    <3> HIDE DEF h
    <3> QED  BY <3>2 DEF Stopped, Job, h
  <2>2. job' = Promoted(j, queued) /\ queued' = None
    BY <1>5 DEF End
  <2> HIDE DEF j
  <2> QED  BY <1>1, <2>1, <2>2, PromotionKeepsIInv
<1>6. CASE job.active /\ TimedOut(job) /\ End(job)
  <2> DEFINE j == Stopped(job)
  <2>1. j \in Job /\ ~j.active /\ j.slice = job.slice
    BY <1>3 DEF Stopped, Job
  <2>2. job' = Promoted(j, queued) /\ queued' = None
    BY <1>6 DEF End
  <2> HIDE DEF j
  <2> QED  BY <1>1, <2>1, <2>2, PromotionKeepsIInv
<1>7. ASSUME NEW n \in 1 .. MaxBatch, job.active, ~TimedOut(job),
             n <= job.slice.range - job.done,
             job' = Hashed(job, n), queued' = queued
      PROVE  IInv'
  <2>1. /\ job'.active /\ job'.slice = job.slice /\ job'.at = job.at
        /\ job'.done = job.done + n /\ job' \in Job
    BY <1>3, <1>7, QueueAssumption DEF Hashed, Job
  <2>2. job'.slice \in Slice /\ job'.done <= job'.slice.range /\ job'.done # 0
    <3>1. job.slice \in Slice /\ job.done \in Nat /\ job.slice.range \in Nat
      BY <1>3, <1>7, NoneIsApart DEF TypeOK, Job
    <3> QED  BY <1>7, <2>1, <3>1
  <2>3. clock' \in Instant /\ elapsed' \in 0 .. Modulus
    BY <1>1, <1>2, TimeTypes DEF TypeOK
  <2>4. TypeOK'
    BY <1>1, <1>7, <2>1, <2>2, <2>3 DEF TypeOK
  <2>5. LatestWorkOnly' /\ WaitsOnlyBehindAnother'
    BY <1>1, <1>7, <2>1 DEF LatestWorkOnly, WaitsOnlyBehindAnother
  <2>6. ClockInv'
    <3>1. job.at # 0 => elapsed + MaxDelay < JobTimeout + MaxDelay
      BY <1>1, <1>7, NotTimedOut, ConstantsInRange DEF TypeOK
    <3> QED  BY <1>1, <1>2, <1>7, <2>1, <2>2, <2>4, <3>1, TimeKeepsClockInv
  <2>7. QueueInv'
    <3>1. ASSUME queued # None, queued.at # 0
          PROVE  Since(queued.at) + MaxDelay < QueueMaxAge + 2 * MaxDelay
      BY <1>1, <3>1, WaitingAge, ConstantsInRange DEF QueueInv
    <3> QED  BY <1>1, <1>2, <1>7, <2>4, <3>1, TimeKeepsQueueInv
  <2> QED  BY <2>4, <2>5, <2>6, <2>7
<1>8. CASE job.active /\ ~TimedOut(job) /\ MineBatch
  <2>1. job.slice.range - job.done \in Nat
    <3>1. job.slice \in Slice /\ job.done \in Nat /\ job.done <= job.slice.range
          /\ job.slice.range \in Nat
      BY <1>3, <1>8, NoneIsApart DEF TypeOK, Job
    <3> QED  BY <3>1
  <2>2. CASE \E n \in 1 .. MaxBatch :
               /\ n <= job.slice.range - job.done
               /\ \/ job' = Hashed(job, n) /\ UNCHANGED queued
                  \/ End(Hashed(job, n))
    <3>1. PICK n \in 1 .. MaxBatch :
               /\ n <= job.slice.range - job.done
               /\ \/ job' = Hashed(job, n) /\ UNCHANGED queued
                  \/ End(Hashed(job, n))
      BY <2>2
    <3>2. n \in Nat
      BY QueueAssumption
    <3> QED  BY <1>5, <1>7, <1>8, <3>1, <3>2
  <2>3. CASE End(Hashed(job, job.slice.range - job.done))
    BY <1>5, <1>8, <2>1, <2>3
  <2> QED  BY <1>8, <2>2, <2>3 DEF MineBatch
<1> QED  BY <1>4, <1>6, <1>8 DEF RunMining

LEMMA HousekeepingKeepsIInv ==
  ASSUME IInv, Housekeeping
  PROVE  IInv'
<1> USE DEF IInv
<1>1. /\ pc = "keep" /\ pc' = "receive" /\ TimePasses(MaxDelay)
      /\ rx' = rx /\ processed' = processed /\ latest' = latest
  BY DEF Housekeeping
<1>2. MaxDelay \in 0 .. MaxDelay
  BY ConstantsInRange
<1>3. job \in Job
  BY DEF TypeOK
<1> DEFINE q == Fresh(queued)
<1>4. q = queued \/ q = None
  BY DEF Fresh
<1>5. ASSUME q # None, q.at # 0
      PROVE  Since(queued.at) \in Nat /\ Since(queued.at) < QueueMaxAge
  <2>1. q = queued /\ ~(Age(queued.at) >= QueueMaxAge)
    BY <1>5 DEF Fresh
  <2>2. Age(queued.at) = Since(queued.at) /\ Since(queued.at) \in Nat
    BY <1>5, <2>1, WaitingAge
  <2> QED  BY <2>1, <2>2, ConstantsInRange
<1>6. CASE /\ ~job.active \/ ReadyToYield(job, q)
           /\ job' = Promoted(job, q) /\ queued' = None
  <2>1. CASE ~job.active
    <3> HIDE DEF q
    <3> QED  BY <1>1, <1>3, <1>4, <1>6, <2>1, PromotionKeepsIInv
  <2>2. CASE job.active /\ q # None
    <3>1. q = queued /\ queued # None
      BY <1>4, <2>2
    <3>2. ~(Age(q.at) >= QueueMaxAge)
      <4>1. CASE q.at = 0
        BY <4>1, ConstantsInRange DEF Age
      <4>2. CASE q.at # 0
        BY <3>1, <4>2 DEF Fresh
      <4> QED  BY <4>1, <4>2
    <3>3. Promoted(job, q).slice = queued.slice
      BY <3>1, <3>2, <2>2 DEF Promoted, Accepted
    <3>4. Promoted(job, q) # job
      BY <3>1, <3>3 DEF WaitsOnlyBehindAnother
    <3> HIDE DEF q
    <3> QED  BY <1>1, <1>3, <1>4, <1>6, <3>4, PromotionKeepsIInv
  <2> QED  BY <1>6, <2>1, <2>2 DEF ReadyToYield
<1>7. CASE job.active /\ job' = job /\ queued' = q
  <2>1. TypeOK'
    <3>1. clock' \in Instant /\ elapsed' \in 0 .. Modulus
      BY <1>1, <1>2, TimeTypes DEF TypeOK
    <3>2. queued' \in [slice : Slice, at : Instant] \union {None}
      BY <1>4, <1>7 DEF TypeOK
    <3>3. job' \in Job /\ (job'.active => job'.slice \in Slice /\ job'.done <= job'.slice.range)
      BY <1>7 DEF TypeOK
    <3> QED  BY <1>1, <3>1, <3>2, <3>3 DEF TypeOK
  <2>2. LatestWorkOnly' /\ WaitsOnlyBehindAnother'
    BY <1>1, <1>4, <1>7 DEF LatestWorkOnly, WaitsOnlyBehindAnother
  <2>3. ClockInv'
    <3>1. job.at # 0 => elapsed + MaxDelay < JobTimeout + 2 * MaxDelay
      BY <1>1, <1>7, ConstantsInRange DEF ClockInv, TypeOK
    <3> QED  BY <1>1, <1>2, <1>7, <2>1, <3>1, TimeKeepsClockInv
  <2>4. QueueInv'
    <3>1. CASE q = None
      BY <1>1, <1>2, <1>7, <2>1, <3>1, TimeKeepsQueueInv
    <3>2. CASE q # None
      <4>1. q = queued
        BY <1>4, <3>2
      <4>2. queued.at # 0 => Since(queued.at) + MaxDelay < QueueMaxAge + MaxDelay
        BY <1>5, <3>2, <4>1, ConstantsInRange
      <4> HIDE DEF q
      <4> QED  BY <1>1, <1>2, <1>7, <2>1, <3>2, <4>1, <4>2, TimeKeepsQueueInv
    <3> QED  BY <3>1, <3>2
  <2> QED  BY <2>1, <2>2, <2>3, <2>4
<1> QED  BY <1>6, <1>7 DEF Housekeeping, TakeQueued

LEMMA StepKeepsIInv ==
  IInv /\ [Next]_vars => IInv'
<1>1. ASSUME IInv, UNCHANGED vars
      PROVE  IInv'
  <2>1. UNCHANGED <<clock, rx, job, queued, pc, processed, latest, elapsed>>
    BY <1>1 DEF vars
  <2> QED  BY <1>1, <2>1 DEF IInv, TypeOK, LatestWorkOnly, WaitsOnlyBehindAnother,
                              ClockInv, QueueInv, Since
<1> QED  BY <1>1, OnRecvKeepsIInv, ReceiveKeepsIInv, RunMiningKeepsIInv,
            HousekeepingKeepsIInv DEF Next

(* The inductive invariant holds in every reachable state. *)
THEOREM Invariance == Spec => []IInv
BY InitEstablishesIInv, StepKeepsIInv, PTL DEF Spec

(* The variables keep their types: no slice is mined beyond its range, the
   receive queue never outgrows its depth. *)
THEOREM TypeCorrect == Spec => []TypeOK
<1>1. IInv => TypeOK
  BY DEF IInv
<1> QED  BY <1>1, Invariance, PTL

(* Whatever runs, ran last or waits is of the last work that was offered. *)
THEOREM LatestWork == Spec => []LatestWorkOnly
<1>1. IInv => LatestWorkOnly
  BY DEF IInv
<1> QED  BY <1>1, Invariance, PTL

(* A slice waits only behind another one that is being mined. *)
THEOREM WaitsBehind == Spec => []WaitsOnlyBehindAnother
<1>1. IInv => WaitsOnlyBehindAnother
  BY DEF IInv
<1> QED  BY <1>1, Invariance, PTL

(* No job outlives its timeout by more than the miner takes, whether or not
   millis() wraps around while it runs. *)
THEOREM TimeoutIsReal == Spec => []JobEndsByTimeout
<1>1. IInv => JobEndsByTimeout
  BY DEF IInv, ClockInv, JobEndsByTimeout
<1> QED  BY <1>1, Invariance, PTL

----------------------------------------------------------------------------
(* What a step may do. *)

(* A useful share is measured in real time. *)
LEMMA ShareIsReal ==
  ASSUME IInv, job.active, UsefulShare(job)
  PROVE  elapsed >= MinWorkMs \/ job.done >= MinWorkHashes
<1> SUFFICES ASSUME Age(job.at) >= MinWorkMs
             PROVE  elapsed >= MinWorkMs
  BY DEF UsefulShare
<1>1. job.at \in Instant /\ clock \in Instant /\ elapsed \in 0 .. Modulus
  BY DEF IInv, TypeOK, Job
<1>2. Since(job.at) \in 0 .. Modulus - 1
  BY <1>1, SinceIsInstant
<1>3. Age(job.at) > 0
  BY <1>2, ConstantsInRange DEF Age
<1>4. Age(job.at) = Since(job.at) /\ job.at # 0
  BY <1>1, <1>3, AgeAtMostSince
<1>5. elapsed < Modulus
  BY <1>1, <1>4, ConstantsInRange DEF IInv, ClockInv
<1>6. Since(job.at) = elapsed
  BY <1>5 DEF IInv, ClockInv
<1> QED  BY <1>4, <1>6

(* Outside the miner a job is left for another slice of its own work only once
   it has had its useful share. *)
THEOREM UsefulShareFirst == Spec => YieldsAfterUsefulShare
<1>1. ASSUME IInv, [Next]_vars, job.active, pc # "mine",
             job'.slice # job.slice, job'.slice.id = job.slice.id
      PROVE  elapsed >= MinWorkMs \/ job.done >= MinWorkHashes
  <2>1. UsefulShare(job)
    <3>1. CASE Receive
      <4>1. job' # job
        BY <1>1
      <4>2. PICK slice \in Slice : HandlePacket(slice)
        BY <3>1, <4>1 DEF Receive
      <4> QED  BY <1>1, <4>1, <4>2, HandlePacketCases
    <3>2. CASE Housekeeping
      <4>1. Fresh(queued) # None /\ ReadyToYield(job, Fresh(queued))
            /\ job' = Promoted(job, Fresh(queued))
        BY <1>1, <3>2 DEF Housekeeping, ReadyToYield
      <4>2. Fresh(queued) = queued /\ queued # None
        BY <4>1 DEF Fresh
      <4>3. job.slice \in Slice /\ job.slice # None
        BY <1>1, NoneIsApart DEF IInv, TypeOK
      <4>4. job.slice.id = queued.slice.id
        BY <1>1, <4>2, <4>3 DEF IInv, LatestWorkOnly
      <4> QED  BY <4>1, <4>2, <4>4 DEF ReadyToYield
    <3> QED  BY <1>1, <3>1, <3>2 DEF Next, OnRecv, RunMining, vars
  <2> QED  BY <1>1, <2>1, ShareIsReal
<1>2. IInv /\ [Next]_vars
        => [/\ job.active /\ pc # "mine"
            /\ job'.slice # job.slice /\ job'.slice.id = job.slice.id
            => elapsed >= MinWorkMs \/ job.done >= MinWorkHashes]_vars
  BY <1>1
<1> QED  BY <1>2, Invariance, PTL DEF Spec, YieldsAfterUsefulShare

(* No slice starts out of the queue once it has really waited for
   QueueMaxAge. *)
THEOREM NoStaleStart == Spec => StaleSliceNeverStarts
<1>1. ASSUME IInv, [Next]_vars, queued # None, queued.at # 0,
             job'.active, job'.slice = queued.slice
      PROVE  Since(queued.at) < QueueMaxAge
  <2>1. job.active /\ job.slice # queued.slice /\ queued.slice \in Slice
    BY <1>1 DEF IInv, TypeOK, WaitsOnlyBehindAnother
  <2>2. job' # job /\ job'.slice # job.slice
    BY <1>1, <2>1
  <2>3. ~Receive
    <3> SUFFICES ASSUME Receive PROVE FALSE
      OBVIOUS
    <3>1. PICK slice \in Slice : HandlePacket(slice)
      BY <2>2 DEF Receive
    <3> QED  BY <1>1, <2>1, <2>2, <3>1, HandlePacketCases DEF Duplicate
  <2>4. ASSUME NEW STATE j, j.slice = job.slice, NEW STATE q,
               q = queued \/ q = None, job' = Promoted(j, q)
        PROVE  ~(Age(queued.at) >= QueueMaxAge)
    BY <2>2, <2>4, PromotionStarts
  <2>5. ASSUME RunMining
        PROVE  ~(Age(queued.at) >= QueueMaxAge)
    <3>1. ASSUME NEW STATE j, j.slice = job.slice, End(j)
          PROVE  ~(Age(queued.at) >= QueueMaxAge)
      <4>1. Stopped(j).slice = job.slice /\ job' = Promoted(Stopped(j), queued)
        BY <3>1 DEF End, Stopped
      <4> QED  BY <2>4, <4>1
    <3>2. \A n : Hashed(job, n).slice = job.slice
      BY DEF Hashed
    <3>3. ~MineBatch \/ \E n : End(Hashed(job, n))
      BY <2>2, <3>2 DEF MineBatch
    <3>4. End(job) \/ \E n : End(Hashed(job, n))
      BY <2>1, <2>5, <3>3 DEF RunMining
    <3> QED  BY <3>1, <3>2, <3>4
  <2>6. ASSUME Housekeeping
        PROVE  ~(Age(queued.at) >= QueueMaxAge)
    <3>1. job' = Promoted(job, Fresh(queued))
      BY <2>2, <2>6 DEF Housekeeping
    <3>2. Fresh(queued) = queued \/ Fresh(queued) = None
      BY DEF Fresh
    <3> QED  BY <2>4, <3>1, <3>2
  <2>7. ~(Age(queued.at) >= QueueMaxAge)
    BY <1>1, <2>2, <2>3, <2>5, <2>6 DEF Next, OnRecv, vars
  <2>8. Age(queued.at) = Since(queued.at) /\ Since(queued.at) \in Nat
    BY <1>1, WaitingAge
  <2> QED  BY <2>7, <2>8, ConstantsInRange
<1>2. IInv /\ [Next]_vars
        => [/\ queued # None /\ queued.at # 0
            /\ job'.active /\ job'.slice = queued.slice
            => Since(queued.at) < QueueMaxAge]_vars
  BY <1>1
<1> QED  BY <1>2, Invariance, PTL DEF Spec, StaleSliceNeverStarts
=============================================================================
