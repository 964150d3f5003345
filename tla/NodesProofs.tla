----------------------------- MODULE NodesProofs -----------------------------
(***************************************************************************)
(* Proofs about the three nodes that MCNodes runs.                         *)
(*                                                                         *)
(* P4Worker: no reset of the best is lost between the loop and the worker, *)
(* and no candidate is overwritten before its time.                        *)
(*                                                                         *)
(* AnchorRadio: a node that does not hear Buzz rescues its radio and, in   *)
(* the end, restarts, wherever its clock wraps around.                     *)
(*                                                                         *)
(* NonceWalk: every lane visits the whole range once, from the loops that  *)
(* reverse bits and look for a coprime stride to the history of a job.     *)
(***************************************************************************)
EXTENDS P4Worker, AnchorRadio, NonceWalk, Basics, TLAPS

(* The copy that the worker hashes with is the job, or a reset is due. *)
CopyInv ==
  workerPc = "hash" => copy.seed = gJob.seed \/ resetBest \/ loopPc = "flag"

ResetInv == CopyInv /\ StaleBestIsTransient

(* Stronger than RecentCandidatesWait: where a candidate waits. *)
Place(c) == (c - 1) % QueueSlots

QueueInv ==
  /\ received \in Nat
  /\ verifyQueue \in [0 .. QueueSlots - 1 -> Nat]
  /\ \A c \in 1 .. received :
       c > received - QueueSlots => c \in verified \/ verifyQueue[Place(c)] = c

----------------------------------------------------------------------------
(* The reset. *)

LEMMA ResetInit == P4Init => ResetInv
BY DEF P4Init, ResetInv, CopyInv, StaleBestIsTransient, NoBest

(* One step per action that changes the job, the best, the flag or where the
   two tasks are. *)
LEMMA ResetStep == ResetInv /\ [P4Next]_p4Vars => ResetInv'
<1> SUFFICES ASSUME ResetInv, [P4Next]_p4Vars PROVE ResetInv'
  OBVIOUS
<1> USE DEF ResetInv, CopyInv, StaleBestIsTransient, jobState, queueVars, loopVars, workerVars
<1>1. CASE CommandJob
  BY <1>1 DEF CommandJob
<1>2. CASE FlagJob
  BY <1>2 DEF FlagJob
<1>3. CASE CommandReset
  BY <1>3 DEF CommandReset
<1>4. CASE CommandRole
  BY <1>4 DEF CommandRole
<1>5. CASE SaveState
  BY <1>5 DEF SaveState
<1>6. CASE SaveJob
  BY <1>6 DEF SaveJob
<1>7. CASE ReceiveFrame
  BY <1>7 DEF ReceiveFrame
<1>8. CASE JobAges
  BY <1>8 DEF JobAges
<1>9. CASE Reboot
  BY <1>9 DEF Reboot
<1>10. CASE ClearThenReset
  BY <1>10 DEF ClearThenReset
<1>11. CASE ResetBestOnly
  BY <1>11 DEF ResetBestOnly, NoBest
<1>12. CASE VerifyOneCandidate
  BY <1>12 DEF VerifyOneCandidate
<1>13. CASE CopyJob
  BY <1>13 DEF CopyJob
<1>14. CASE SetLocalJob
  BY <1>14 DEF SetLocalJob
<1>15. CASE FlagLocalJob
  BY <1>15 DEF FlagLocalJob
<1>16. CASE HashBatch
  BY <1>16 DEF HashBatch
<1>17. CASE UNCHANGED p4Vars
  BY <1>17 DEF p4Vars
<1> QED
  BY <1>1, <1>2, <1>3, <1>4, <1>5, <1>6, <1>7, <1>8, <1>9, <1>10, <1>11, <1>12,
     <1>13, <1>14, <1>15, <1>16, <1>17 DEF P4Next

(* StaleBestIsTransient for any seeds, roles, modes and queue: no command that
   falls between two steps of the worker leaves a best of another job behind
   without its reset being due. *)
THEOREM ResetIsNotLost == P4Spec => []StaleBestIsTransient
<1>1. ResetInv => StaleBestIsTransient
  BY DEF ResetInv
<1> QED
  BY ResetInit, ResetStep, <1>1, PTL DEF P4Spec

----------------------------------------------------------------------------
(* The queue of candidates. *)

(* Candidates less than a queue apart have places of their own. *)
LEMMA PlacesDiffer ==
  ASSUME NEW Q \in Nat \ {0}, NEW x \in Nat, NEW y \in Nat, x < y, y < x + Q
  PROVE  x % Q # y % Q
<1>1. x - y < Q /\ y - x < Q /\ x # y
  OBVIOUS
<1> QED
  BY <1>1, SameModulo

LEMMA PlaceIsSlot ==
  ASSUME NEW c \in Nat \ {0}
  PROVE  Place(c) \in 0 .. QueueSlots - 1
BY QueueAssumption, Z3 DEF Place

LEMMA QueueInit == P4Init => QueueInv
BY QueueAssumption DEF P4Init, QueueInv

LEMMA QueueStep == QueueInv /\ [P4Next]_p4Vars => QueueInv'
<1> SUFFICES ASSUME QueueInv, [P4Next]_p4Vars PROVE QueueInv'
  OBVIOUS
<1> USE QueueAssumption
<1>1. CASE UNCHANGED queueVars
  BY <1>1 DEF QueueInv, queueVars, Place
<1>2. CASE ReceiveFrame
  <2> DEFINE slot == received % QueueSlots
  <2>1. /\ received' = received + 1 /\ received \in Nat /\ verified' = verified
        /\ verifyQueue' = [verifyQueue EXCEPT ![slot] = received + 1]
        /\ slot = Place(received + 1)
    BY <1>2 DEF ReceiveFrame, QueueInv, Place
  <2>2. slot \in 0 .. QueueSlots - 1
    BY <2>1, PlaceIsSlot
  <2>3. verifyQueue' \in [0 .. QueueSlots - 1 -> Nat]
    BY <2>1, <2>2 DEF QueueInv
  <2>4. ASSUME NEW c \in 1 .. received + 1, c > received + 1 - QueueSlots
        PROVE  c \in verified \/ verifyQueue'[Place(c)] = c
    <3>1. CASE c = received + 1
      BY <3>1, <2>1, <2>2 DEF QueueInv
    <3>2. CASE c \in 1 .. received
      <4>1. (c - 1) % QueueSlots # received % QueueSlots
        <5>1. c - 1 \in Nat /\ received \in Nat /\ c - 1 < received
          BY <3>2, <2>1
        <5>2. received < (c - 1) + QueueSlots
          BY <3>2, <2>1, <2>4
        <5> QED
          BY <5>1, <5>2, PlacesDiffer
      <4>2. Place(c) # slot /\ Place(c) \in 0 .. QueueSlots - 1
        BY <4>1, <3>2, <2>1, PlaceIsSlot DEF Place
      <4>3. c \in verified \/ verifyQueue[Place(c)] = c
        BY <3>2, <2>1, <2>4 DEF QueueInv
      <4> QED
        BY <4>2, <4>3, <2>1 DEF QueueInv
    <3> QED
      BY <3>1, <3>2, <2>1, <2>4
  <2> QED
    BY <2>1, <2>3, <2>4 DEF QueueInv, Place
<1>3. CASE VerifyOneCandidate /\ ~UNCHANGED queueVars
  <2>1. PICK i : /\ verified' = verified \union {verifyQueue[i]}
                 /\ verifyQueue' = [verifyQueue EXCEPT ![i] = 0]
                 /\ received' = received
    BY <1>3 DEF VerifyOneCandidate, queueVars
  <2>2. verifyQueue' \in [0 .. QueueSlots - 1 -> Nat]
    BY <2>1 DEF QueueInv
  <2>3. ASSUME NEW c \in 1 .. received, c > received - QueueSlots
        PROVE  c \in verified' \/ verifyQueue'[Place(c)] = c
    <3>1. Place(c) \in 0 .. QueueSlots - 1
      BY PlaceIsSlot DEF QueueInv
    <3> QED
      BY <3>1, <2>1, <2>3 DEF QueueInv
  <2> QED
    BY <2>1, <2>2, <2>3 DEF QueueInv, Place
<1>4. CASE Reboot
  BY <1>4 DEF Reboot, QueueInv
<1> QED
  <2>1. UNCHANGED p4Vars => UNCHANGED queueVars
    BY DEF p4Vars, queueVars
  <2>2. CommandJob \/ FlagJob \/ CommandReset \/ CommandRole \/ SaveState \/ SaveJob
          \/ JobAges \/ ClearThenReset \/ ResetBestOnly \/ CopyJob \/ SetLocalJob
          \/ FlagLocalJob \/ HashBatch => UNCHANGED queueVars
    BY DEF CommandJob, FlagJob, CommandReset, CommandRole, SaveState, SaveJob, JobAges,
           ClearThenReset, ResetBestOnly, CopyJob, SetLocalJob, FlagLocalJob, HashBatch,
           jobState, queueVars
  <2> QED
    BY <1>1, <1>2, <1>3, <1>4, <2>1, <2>2 DEF P4Next

(* RecentCandidatesWait for a queue of any length: however the worker picks,
   only the next but QueueSlots candidates may push one out. *)
THEOREM CandidatesWait == P4Spec => []RecentCandidatesWait
<1>1. QueueInv => RecentCandidatesWait
  <2> SUFFICES ASSUME QueueInv, NEW c \in 1 .. received,
                      c > received - QueueSlots, c \notin verified
               PROVE  \E i \in DOMAIN verifyQueue : verifyQueue[i] = c
    BY DEF RecentCandidatesWait
  <2>1. Place(c) \in DOMAIN verifyQueue
    BY PlaceIsSlot DEF QueueInv
  <2> QED
    BY <2>1 DEF QueueInv
<1> QED
  BY QueueInit, QueueStep, <1>1, PTL DEF P4Spec

----------------------------------------------------------------------------
(* The radio of Anchor. *)

Age(then) == (now - then) % Turn

RadioTypeOK ==
  /\ now \in 0 .. Turn - 1
  /\ lastMasterMs \in 0 .. Turn - 1 /\ lastAnyRxMs \in 0 .. Turn - 1
  /\ lastRescueMs \in 0 .. Turn - 1 /\ firstMissing \in 0 .. Turn - 1
  /\ espNow \in {"up", "deaf", "down"}
  /\ rescues \in 0 .. HardMinRescues
  /\ quiet \in Nat /\ unrescued \in 0 .. quiet

(* The longest time between two rescues of an episode. *)
K == RescueMin + MaxPause - 1

HistoryIsAge == Age(lastMasterMs) = quiet % Turn

EpisodeIsShort ==
  firstMissing # 0 =>
    /\ Age(lastRescueMs) < RescueMin
    /\ rescues < HardMinRescues =>
         Age(firstMissing) <= rescues * K + Age(lastRescueMs)
    /\ \/ Age(firstMissing) < HardRestart
       \/ now <= BootGrace /\ Age(firstMissing) < HardRestart + MaxPause + now

(* Where a long silence can be: still in the episode of loss it began with, or
   after a turn of the clock, which ended that one and began another. *)
InFirstEpisode ==
  firstMissing # 0 /\ quiet <= MasterBlackout + MaxPause + Age(firstMissing)

AfterTurn ==
  /\ firstMissing <= now
  /\ quiet < MasterBlackout + HardRestart + 2 * MaxPause + now
  /\ \/ now <= MasterBlackout
     \/ /\ firstMissing # 0 /\ firstMissing <= MasterBlackout + MaxPause
        /\ now - firstMissing < HardRestart

SilenceIsBounded == quiet > MasterBlackout => InFirstEpisode \/ AfterTurn

(* Why no rescue is long in coming: the node was blind while the clock was
   near 0, or has just been rescued, or waits out the limit between rescues. *)
UnrescuedIsBounded ==
  unrescued > MasterBlackout =>
    \/ now <= MasterBlackout /\ unrescued <= MasterBlackout + MaxPause + now
    \/ /\ Age(lastRescueMs) < RescueMin
       /\ unrescued <= MasterBlackout + MaxPause + Age(lastRescueMs)
    \/ /\ now <= MasterBlackout
       /\ RescueMin <= Age(lastRescueMs) /\ Age(lastRescueMs) < RescueMin + MaxPause + now
       /\ unrescued < MasterBlackout + 2 * MaxPause + RescueMin + now
    \/ /\ Age(lastRescueMs) < RescueMin
       /\ MasterBlackout < now /\ now <= MasterBlackout + MaxPause + Age(lastRescueMs)
       /\ unrescued <= 2 * (MasterBlackout + MaxPause) + Age(lastRescueMs)

RadioInv ==
  /\ RadioTypeOK /\ HistoryIsAge /\ EpisodeIsShort
  /\ SilenceIsBounded /\ UnrescuedIsBounded

(* HardMinRescues rescues, one after the other, take less than HardRestart. *)
LEMMA RestartRescues ==
  /\ K \in Nat \ {0} /\ HardMinRescues * K \in Nat
  /\ K <= HardMinRescues * K /\ HardMinRescues * K < HardRestart
<1>1. K \in Nat \ {0} /\ HardMinRescues * K < HardRestart
  BY RadioTimers DEF K
<1>2. HardMinRescues \in Nat \ {0}
  BY RadioTimers
<1> QED  BY <1>1, <1>2, Z3

(* What the assumption says of the timers, without products. *)
LEMMA Timers ==
  /\ Turn \in Nat \ {0} /\ MaxPause \in Nat \ {0}
  /\ MasterBlackout \in Nat \ {0} /\ RescueMin \in Nat \ {0}
  /\ BootGrace \in Nat \ {0} /\ HardRestart \in Nat \ {0}
  /\ HardMinRescues \in Nat \ {0} /\ K \in Nat \ {0}
  /\ BootGrace <= HardRestart /\ RescueMin <= K /\ K < HardRestart
  /\ 4 * MasterBlackout + 4 * HardRestart + 8 * MaxPause <= Turn
<1>1. /\ Turn \in Nat /\ MaxPause \in Nat \ {0}
      /\ MasterBlackout \in Nat \ {0} /\ RescueMin \in Nat \ {0}
      /\ BootGrace \in Nat \ {0} /\ HardRestart \in Nat \ {0}
      /\ HardMinRescues \in Nat \ {0} /\ BootGrace <= HardRestart
      /\ 2 * (2 * (MasterBlackout + HardRestart) + 4 * MaxPause) <= Turn
  BY RadioTimers
<1>2. K \in Nat \ {0} /\ RescueMin <= K
  BY <1>1 DEF K
<1>3. K < HardRestart
  BY <1>1, <1>2, RestartRescues
<1> QED  BY <1>1, <1>2, <1>3

(* The two bounds that the properties state. *)
LEMMA QuietIsShort ==
  ASSUME RadioInv
  PROVE  quiet < 2 * (MasterBlackout + HardRestart) + 3 * MaxPause
<1>1. CASE quiet <= MasterBlackout
  BY <1>1, Timers DEF RadioInv, RadioTypeOK
<1> DEFINE f == Age(firstMissing)
<1>2. CASE InFirstEpisode
  <2>1. f \in Nat
    BY Timers, ModIsBelow DEF Age, RadioInv, RadioTypeOK
  <2>2. f < HardRestart \/ (now <= BootGrace /\ f < HardRestart + MaxPause + now)
    BY <1>2 DEF RadioInv, EpisodeIsShort, InFirstEpisode
  <2>3. quiet <= MasterBlackout + MaxPause + f
    BY <1>2 DEF InFirstEpisode
  <2> HIDE DEF f
  <2> QED
    BY <2>1, <2>2, <2>3, Timers DEF RadioInv, RadioTypeOK
<1>3. CASE AfterTurn
  BY <1>3, Timers DEF AfterTurn, RadioInv, RadioTypeOK
<1> QED
  BY <1>1, <1>2, <1>3, Timers DEF RadioInv, RadioTypeOK, SilenceIsBounded

LEMMA UnrescuedIsShort ==
  ASSUME RadioInv
  PROVE  SilenceIsRescued
<1> DEFINE r == Age(lastRescueMs)
<1>1. r \in Nat
  BY Timers, ModIsBelow DEF Age, RadioInv, RadioTypeOK
<1>2. \/ unrescued <= MasterBlackout
      \/ now <= MasterBlackout /\ unrescued <= MasterBlackout + MaxPause + now
      \/ r < RescueMin /\ unrescued <= MasterBlackout + MaxPause + r
      \/ /\ now <= MasterBlackout
         /\ unrescued < MasterBlackout + 2 * MaxPause + RescueMin + now
      \/ r < RescueMin /\ unrescued <= 2 * (MasterBlackout + MaxPause) + r
  BY Timers DEF RadioInv, UnrescuedIsBounded, RadioTypeOK
<1> HIDE DEF r
<1> QED
  BY <1>1, <1>2, Timers DEF SilenceIsRescued, RadioInv, RadioTypeOK

LEMMA RescueTime ==
  ASSUME NEW n \in 0 .. HardMinRescues
  PROVE  /\ n * K \in Nat /\ (n + 1) * K = n * K + K
         /\ n < HardMinRescues => n * K + K < HardRestart
<1>1. K \in Nat /\ HardMinRescues \in Nat /\ HardMinRescues * K < HardRestart
      /\ HardRestart \in Nat
  BY Timers, RestartRescues
<1>2. n * K \in Nat /\ (n + 1) * K = n * K + K
  BY <1>1, Z3
<1>3. ASSUME n < HardMinRescues PROVE (n + 1) * K <= HardMinRescues * K
  BY <1>1, <1>3, Z3
<1>4. HardMinRescues * K \in Nat
  BY <1>1, Z3
<1> QED  BY <1>1, <1>2, <1>3, <1>4

(* What a pass does to the ages of instants. *)
LEMMA PassAges ==
  ASSUME RadioTypeOK, NEW pause \in 1 .. MaxPause, NEW t, t = (now + pause) % Turn
  PROVE  /\ t \in 0 .. Turn - 1
         /\ t = IF now + pause < Turn THEN now + pause ELSE now + pause - Turn
         /\ \A a \in 0 .. Turn - 1 :
              /\ Age(a) \in 0 .. Turn - 1
              /\ (t - a) % Turn = (Age(a) + pause) % Turn
              /\ Age(a) + pause < Turn => (t - a) % Turn = Age(a) + pause
<1>1. Turn \in Nat \ {0} /\ pause \in 0 .. Turn - 1 /\ now \in 0 .. Turn - 1
  BY Timers DEF RadioTypeOK
<1>2. t \in 0 .. Turn - 1
      /\ t = IF now + pause < Turn THEN now + pause ELSE now + pause - Turn
  BY <1>1, SumModulo
<1>3. ASSUME NEW a \in 0 .. Turn - 1
      PROVE  /\ Age(a) \in 0 .. Turn - 1
             /\ (t - a) % Turn = (Age(a) + pause) % Turn
             /\ Age(a) + pause < Turn => (t - a) % Turn = Age(a) + pause
  <2>1. (now - a) % Turn \in 0 .. Turn - 1
    BY <1>1, ModIsBelow
  <2>2. (t - a) % Turn = (((now - a) % Turn) + pause) % Turn
    BY <1>1, AgeAdvances
  <2>3. ASSUME ((now - a) % Turn) + pause < Turn
        PROVE  (t - a) % Turn = ((now - a) % Turn) + pause
    BY <1>1, <2>3, AgeGrows
  <2> QED  BY <2>1, <2>2, <2>3 DEF Age
<1> QED  BY <1>2, <1>3

(* A silence longer than the blackout is seen, unless the clock is near 0. *)
LEMMA Blackout ==
  ASSUME RadioInv, NEW pause \in 1 .. MaxPause, NEW t, t = (now + pause) % Turn,
         t > MasterBlackout, quiet + pause > MasterBlackout, NEW sending
  PROVE  Missing(t, sending)
<1> DEFINE q == quiet + pause
           age == (t - lastMasterMs) % Turn
<1>1. q \in Nat /\ 2 * q < Turn
  <2>1. quiet < 2 * (MasterBlackout + HardRestart) + 3 * MaxPause
    BY QuietIsShort
  <2> QED  BY <2>1, Timers DEF RadioInv, RadioTypeOK
<1>2. age = ((quiet % Turn) + pause) % Turn
  BY PassAges DEF RadioInv, RadioTypeOK, HistoryIsAge
<1>3. pause \in 0 .. Turn - 1 /\ quiet \in Nat
  BY Timers DEF RadioInv, RadioTypeOK
<1>4. age = q % Turn
  BY <1>2, <1>3, Timers, SumOfRemainder
<1>5. q \in 0 .. Turn - 1
  BY <1>1, Timers
<1>6. age = q
  BY <1>4, <1>5, Timers, ModLow
<1> HIDE DEF q, age
<1>7. q > MasterBlackout
  BY DEF q
<1>8. Turn > MasterBlackout /\ ~(2 * q >= Turn)
  BY <1>1, Timers
<1>9. MasterAge(t) > MasterBlackout
  BY <1>6, <1>7, <1>8 DEF MasterAge, SafeAge, Never, age
<1> QED
  BY <1>9 DEF Missing

(* A pass that finds the node missing and does not restart it. *)
LEMMA EpisodeStep ==
  ASSUME RadioInv, NEW pause \in 1 .. MaxPause, NEW t, t = (now + pause) % Turn,
         ~RestartIsDue(t), now' = t, firstMissing' = EpisodeStart(t),
         \/ /\ MayRescue(t) /\ lastRescueMs' = t
            /\ rescues' = IF rescues < HardMinRescues THEN rescues + 1 ELSE rescues
         \/ ~MayRescue(t) /\ UNCHANGED <<lastRescueMs, rescues>>
  PROVE  EpisodeIsShort'
<1> DEFINE f == Age(firstMissing)
           r == Age(lastRescueMs)
<1>t. RadioTypeOK /\ t \in 0 .. Turn - 1
  BY PassAges DEF RadioInv
<1>k. /\ rescues * K \in Nat /\ (rescues + 1) * K = rescues * K + K
      /\ rescues < HardMinRescues => rescues * K + K < HardRestart
  BY <1>t, RescueTime DEF RadioTypeOK
<1>0. rescues' * K \in Nat
  <2>1. rescues' \in 0 .. HardMinRescues
    BY <1>t, Timers DEF RadioTypeOK
  <2> QED  BY <2>1, RescueTime
<1>r. Age(lastRescueMs)' = IF MayRescue(t) THEN 0 ELSE (t - lastRescueMs) % Turn
  BY <1>t, Timers, AgeOfNow DEF Age
<1>s. Age(lastRescueMs)' \in Nat /\ Age(lastRescueMs)' < RescueMin
  <2>1. (t - lastRescueMs) % Turn \in Nat
    BY <1>t, Timers, ModIsBelow DEF RadioTypeOK
  <2> QED  BY <1>r, <2>1, Timers DEF MayRescue
<1>1. CASE firstMissing = 0
  <2>1. Age(firstMissing)' = 0
    BY <1>1, <1>t, Timers, AgeOfNow DEF Age, EpisodeStart
  <2>2. Age(firstMissing)' <= rescues' * K + Age(lastRescueMs)'
    BY <1>0, <1>s, <2>1
  <2> QED  BY <1>s, <2>1, <2>2, Timers DEF EpisodeIsShort
<1>2. CASE firstMissing # 0
  <2>1. firstMissing' = firstMissing
    BY <1>2 DEF EpisodeStart
  <2>2. /\ f \in Nat /\ r \in Nat /\ r < RescueMin
        /\ rescues < HardMinRescues => f <= rescues * K + r
        /\ f < HardRestart \/ (now <= BootGrace /\ f < HardRestart + MaxPause + now)
    BY <1>2, PassAges, <1>t DEF RadioInv, EpisodeIsShort, RadioTypeOK
  <2>3. f + pause < Turn /\ r + pause < Turn /\ 2 * (f + pause) < Turn
    <3> HIDE DEF f, r
    <3> QED  BY <1>t, <2>2, Timers DEF RadioTypeOK
  <2>4. (t - firstMissing) % Turn = f + pause /\ (t - lastRescueMs) % Turn = r + pause
    BY <1>t, <2>3, PassAges DEF RadioTypeOK
  <2>5. Age(firstMissing)' = f + pause
    BY <2>1, <2>4 DEF Age
  <2>6. ASSUME rescues' < HardMinRescues
        PROVE  f + pause <= rescues' * K + Age(lastRescueMs)'
    <3>1. CASE MayRescue(t)
      <4>1. rescues < HardMinRescues /\ rescues' = rescues + 1
        BY <1>t, <2>6, <3>1, Timers DEF RadioTypeOK
      <4>2. rescues' * K = rescues * K + K /\ f <= rescues * K + r
        BY <1>k, <2>2, <4>1
      <4> HIDE DEF f, r
      <4> QED  BY <1>k, <1>s, <2>2, <4>2, Timers DEF K
    <3>2. CASE ~MayRescue(t)
      <4>1. Age(lastRescueMs)' = r + pause /\ rescues' = rescues
        BY <1>r, <2>4, <3>2
      <4> HIDE DEF f, r
      <4> QED  BY <1>k, <2>2, <2>6, <4>1, Timers
    <3> QED  BY <3>1, <3>2
  <2>7. f + pause < HardRestart \/ (t <= BootGrace /\ f + pause < HardRestart + MaxPause + t)
    <3> SUFFICES ASSUME f + pause >= HardRestart
                 PROVE  t <= BootGrace /\ f + pause < HardRestart + MaxPause + t
      BY <2>2, Timers
    <3>1. rescues = HardMinRescues
      <4> HIDE DEF f, r
      <4> QED  BY <1>k, <1>t, <2>2, Timers DEF RadioTypeOK, K
    <3>2. SafeAge(t, EpisodeStart(t), 0) = f + pause
      <4>1. ~(2 * (f + pause) >= Turn)
        BY <2>2, <2>3, Timers
      <4> QED  BY <1>2, <2>1, <2>4, <4>1 DEF SafeAge, EpisodeStart
    <3>3. ~(t > BootGrace)
      BY <3>1, <3>2, Timers DEF RestartIsDue
    <3>4. t = IF now + pause < Turn THEN now + pause ELSE now + pause - Turn
      BY <1>t, PassAges
    <3> HIDE DEF f, r
    <3> QED  BY <1>t, <2>2, <3>3, <3>4, Timers DEF RadioTypeOK
  <2> QED  BY <1>s, <2>5, <2>6, <2>7 DEF EpisodeIsShort
<1> QED  BY <1>1, <1>2

LEMMA SilenceStep ==
  ASSUME RadioInv, NEW pause \in 1 .. MaxPause, NEW t, t = (now + pause) % Turn,
         NEW sending, now' = t, quiet' = quiet + pause, EpisodeIsShort',
         \/ firstMissing' = EpisodeStart(t)
         \/ ~Missing(t, sending) /\ firstMissing' = 0
  PROVE  SilenceIsBounded'
<1> SUFFICES ASSUME quiet + pause > MasterBlackout
             PROVE  (InFirstEpisode \/ AfterTurn)'
  BY DEF SilenceIsBounded
<1> DEFINE f == Age(firstMissing)
<1>t. /\ RadioTypeOK /\ t \in 0 .. Turn - 1
      /\ t = IF now + pause < Turn THEN now + pause ELSE now + pause - Turn
  BY PassAges DEF RadioInv
<1>1. firstMissing' = EpisodeStart(t) \/ (t <= MasterBlackout /\ firstMissing' = 0)
  BY <1>t, Blackout, Timers
<1>2. CASE quiet <= MasterBlackout
  <2>1. quiet' <= MasterBlackout + MaxPause
    BY <1>2, <1>t, Timers DEF RadioTypeOK
  <2>2. CASE firstMissing' # 0
    <3>1. Age(firstMissing)' \in Nat
      <4>1. firstMissing' \in 0 .. Turn - 1
        BY <1>t, <1>1, Timers DEF EpisodeStart, RadioTypeOK
      <4>2. Age(firstMissing)' = (t - firstMissing') % Turn
        BY DEF Age
      <4>3. t - firstMissing' \in Int /\ Turn \in Nat \ {0}
        BY <1>t, <4>1, Timers
      <4>4. (t - firstMissing') % Turn \in 0 .. Turn - 1
        BY <4>3, ModIsBelow
      <4> QED  BY <4>2, <4>3, <4>4
    <3> QED  BY <2>1, <2>2, <3>1, <1>t, Timers DEF InFirstEpisode, RadioTypeOK
  <2>3. CASE firstMissing' = 0
    <3>1. t <= MasterBlackout
      BY <1>1, <1>t, <2>3, Timers DEF EpisodeStart
    <3> QED  BY <2>1, <2>3, <3>1, <1>t, Timers DEF AfterTurn, RadioTypeOK
  <2> QED  BY <2>2, <2>3
<1>3. CASE InFirstEpisode
  <2>1. /\ firstMissing # 0 /\ f \in Nat
        /\ f < HardRestart \/ (now <= BootGrace /\ f < HardRestart + MaxPause + now)
        /\ quiet <= MasterBlackout + MaxPause + f
    BY <1>3, <1>t, PassAges DEF RadioInv, EpisodeIsShort, RadioTypeOK, InFirstEpisode
  <2>2. CASE firstMissing' = EpisodeStart(t)
    <3>1. f + pause < Turn
      <4> HIDE DEF f
      <4> QED  BY <1>t, <2>1, Timers DEF RadioTypeOK
    <3>2. Age(firstMissing)' = f + pause
      BY <1>t, <2>1, <2>2, <3>1, PassAges DEF Age, EpisodeStart, RadioTypeOK
    <3>3. firstMissing' # 0
      BY <2>1, <2>2 DEF EpisodeStart
    <3>4. quiet + pause <= MasterBlackout + MaxPause + (f + pause)
      <4> HIDE DEF f
      <4> QED  BY <1>t, <2>1, Timers DEF RadioTypeOK
    <3> QED  BY <3>2, <3>3, <3>4 DEF InFirstEpisode
  <2>3. CASE t <= MasterBlackout /\ firstMissing' = 0
    <3>1. quiet + pause < MasterBlackout + HardRestart + 2 * MaxPause + t
      <4> HIDE DEF f
      <4> QED  BY <1>t, <2>1, Timers DEF RadioTypeOK
    <3> QED  BY <1>t, <2>3, <3>1, Timers DEF AfterTurn
  <2> QED  BY <1>1, <2>2, <2>3
<1>4. CASE AfterTurn
  <2>1. /\ firstMissing <= now /\ t = now + pause
        /\ quiet + pause < MasterBlackout + HardRestart + 2 * MaxPause + t
    BY <1>4, <1>t, Timers DEF AfterTurn, RadioTypeOK
  <2>2. CASE t <= MasterBlackout
    BY <1>t, <1>1, <2>1, <2>2, Timers DEF AfterTurn, EpisodeStart, RadioTypeOK
  <2>3. CASE t > MasterBlackout
    <3>1. firstMissing' = EpisodeStart(t)
      BY <1>t, <1>1, <2>3, Timers
    <3>2. /\ firstMissing' # 0 /\ firstMissing' <= t /\ firstMissing' \in 0 .. Turn - 1
          /\ firstMissing' <= MasterBlackout + MaxPause
      BY <1>4, <1>t, <2>1, <2>3, <3>1, Timers DEF AfterTurn, EpisodeStart, RadioTypeOK
    <3>3. Age(firstMissing)' = t - firstMissing'
      BY <1>t, <3>2, Timers, DifferenceModulo DEF Age
    <3>4. t - firstMissing' < HardRestart
      BY <1>t, <3>2, <3>3, Timers DEF EpisodeIsShort
    <3> QED  BY <1>t, <2>1, <3>2, <3>4, Timers DEF AfterTurn
  <2> QED  BY <1>t, <2>2, <2>3, Timers
<1> QED
  BY <1>2, <1>3, <1>4, <1>t, Timers DEF RadioInv, SilenceIsBounded, RadioTypeOK

(* A pass without a rescue. *)
LEMMA UnrescuedStep ==
  ASSUME RadioInv, NEW pause \in 1 .. MaxPause, NEW t, t = (now + pause) % Turn,
         NEW sending, ~(Missing(t, sending) /\ MayRescue(t)),
         now' = t, unrescued' = unrescued + pause, UNCHANGED lastRescueMs
  PROVE  UnrescuedIsBounded'
<1> SUFFICES ASSUME unrescued' > MasterBlackout
             PROVE  UnrescuedIsBounded'
  BY DEF UnrescuedIsBounded
<1> DEFINE r == Age(lastRescueMs)
           s == (t - lastRescueMs) % Turn
<1>t. /\ RadioTypeOK /\ t \in 0 .. Turn - 1
      /\ t = IF now + pause < Turn THEN now + pause ELSE now + pause - Turn
  BY PassAges DEF RadioInv
<1>1. t > MasterBlackout => s < RescueMin
  <2> SUFFICES ASSUME t > MasterBlackout PROVE s < RescueMin
    OBVIOUS
  <2>1. quiet + pause > MasterBlackout
    BY <1>t, Timers DEF RadioTypeOK
  <2>2. ~(s >= RescueMin)
    BY <2>1, Blackout DEF MayRescue
  <2>3. s \in Nat
    BY <1>t, Timers, ModIsBelow DEF RadioTypeOK
  <2> QED  BY <2>2, <2>3, Timers
<1>2. s \in Nat /\ r \in Nat /\ Age(lastRescueMs)' = s
  <2>1. s \in Nat
    BY <1>t, Timers, ModIsBelow DEF RadioTypeOK
  <2>2. r \in Nat
    BY <1>t, PassAges DEF RadioTypeOK
  <2>3. Age(lastRescueMs)' = s
    BY DEF Age
  <2> QED  BY <2>1, <2>2, <2>3
<1>3. r + pause < Turn => s = r + pause
  BY <1>t, PassAges DEF RadioTypeOK
<1>4. \/ unrescued <= MasterBlackout
      \/ now <= MasterBlackout /\ unrescued <= MasterBlackout + MaxPause + now
      \/ r < RescueMin /\ unrescued <= MasterBlackout + MaxPause + r
      \/ /\ now <= MasterBlackout
         /\ RescueMin <= r /\ r < RescueMin + MaxPause + now
         /\ unrescued < MasterBlackout + 2 * MaxPause + RescueMin + now
      \/ /\ r < RescueMin
         /\ MasterBlackout < now /\ now <= MasterBlackout + MaxPause + r
         /\ unrescued <= 2 * (MasterBlackout + MaxPause) + r
  BY <1>t, Timers DEF RadioInv, UnrescuedIsBounded, RadioTypeOK
<1> DEFINE Bound(c, a, u) ==
             \/ c <= MasterBlackout /\ u <= MasterBlackout + MaxPause + c
             \/ a < RescueMin /\ u <= MasterBlackout + MaxPause + a
             \/ /\ c <= MasterBlackout
                /\ RescueMin <= a /\ a < RescueMin + MaxPause + c
                /\ u < MasterBlackout + 2 * MaxPause + RescueMin + c
             \/ /\ a < RescueMin
                /\ MasterBlackout < c /\ c <= MasterBlackout + MaxPause + a
                /\ u <= 2 * (MasterBlackout + MaxPause) + a
<1>5. Bound(t, s, unrescued + pause)
  <2> HIDE DEF r, s
  <2>1. unrescued \in Nat /\ now \in Nat /\ t \in Nat
    BY <1>t, Timers DEF RadioTypeOK
  <2>2. CASE unrescued <= MasterBlackout
    BY <1>t, <1>1, <1>2, <2>1, <2>2, Timers
  <2>3. CASE now <= MasterBlackout /\ unrescued <= MasterBlackout + MaxPause + now
    BY <1>t, <1>1, <1>2, <2>1, <2>3, Timers
  <2>4. CASE r < RescueMin /\ unrescued <= MasterBlackout + MaxPause + r
    BY <1>t, <1>1, <1>2, <1>3, <2>1, <2>4, Timers
  <2>5. CASE /\ now <= MasterBlackout
             /\ RescueMin <= r /\ r < RescueMin + MaxPause + now
             /\ unrescued < MasterBlackout + 2 * MaxPause + RescueMin + now
    BY <1>t, <1>1, <1>2, <1>3, <2>1, <2>5, Timers
  <2>6. CASE /\ r < RescueMin
             /\ MasterBlackout < now /\ now <= MasterBlackout + MaxPause + r
             /\ unrescued <= 2 * (MasterBlackout + MaxPause) + r
    BY <1>t, <1>1, <1>2, <1>3, <2>1, <2>6, Timers
  <2> QED  BY <1>4, <2>2, <2>3, <2>4, <2>5, <2>6
<1> QED
  BY <1>2, <1>5 DEF UnrescuedIsBounded

LEMMA RadioInit_RadioInv ==
  RadioInit => RadioInv
<1> SUFFICES ASSUME RadioInit PROVE RadioInv
  OBVIOUS
<1>1. RadioTypeOK
  BY Timers DEF RadioInit, RadioTypeOK
<1>2. 0 % Turn = 0
  BY Timers, ModLow
<1>3. HistoryIsAge
  BY <1>2 DEF RadioInit, HistoryIsAge, Age
<1> QED
  BY <1>1, <1>3, Timers
  DEF RadioInit, RadioInv, EpisodeIsShort, SilenceIsBounded, UnrescuedIsBounded

LEMMA BootStep ==
  ASSUME NEW state \in {"up", "deaf", "down"}, Boot(state)
  PROVE  RadioInv'
<1>1. RadioTypeOK'
  BY Timers DEF Boot, RadioTypeOK
<1>2. 0 % Turn = 0
  BY Timers, ModLow
<1>3. HistoryIsAge'
  BY <1>2 DEF Boot, HistoryIsAge, Age
<1> QED
  BY <1>1, <1>3, Timers
  DEF Boot, RadioInv, EpisodeIsShort, SilenceIsBounded, UnrescuedIsBounded

(* What every pass without a restart does to the clock. *)
LEMMA ClockStep ==
  ASSUME RadioInv, NEW pause \in 1 .. MaxPause, NEW t, t = (now + pause) % Turn,
         now' = t, quiet' = quiet + pause, lastMasterMs' = lastMasterMs
  PROVE  /\ t \in 0 .. Turn - 1 /\ EpisodeStart(t) \in 0 .. Turn - 1
         /\ RadioTypeOK /\ HistoryIsAge'
<1>1. RadioTypeOK
  BY DEF RadioInv
<1>2. t \in 0 .. Turn - 1
  BY <1>1, PassAges
<1>3. EpisodeStart(t) \in 0 .. Turn - 1
  BY <1>1, <1>2 DEF EpisodeStart, RadioTypeOK
<1>4. pause \in 0 .. Turn - 1 /\ lastMasterMs \in 0 .. Turn - 1 /\ quiet \in Nat
  BY <1>1, Timers DEF RadioTypeOK
<1>5. (t - lastMasterMs) % Turn = (Age(lastMasterMs) + pause) % Turn
  BY <1>1, <1>4, PassAges
<1>6. (quiet + pause) % Turn = ((quiet % Turn) + pause) % Turn
  BY <1>4, Timers, SumOfRemainder
<1>7. HistoryIsAge'
  BY <1>5, <1>6 DEF RadioInv, HistoryIsAge, Age
<1> QED  BY <1>1, <1>2, <1>3, <1>7

LEMMA RescueEnding ==
  ASSUME RadioInv, NEW pause \in 1 .. MaxPause, NEW t, t = (now + pause) % Turn,
         ~RestartIsDue(t), MayRescue(t),
         now' = t, quiet' = quiet + pause, UNCHANGED <<lastMasterMs, lastAnyRxMs>>,
         lastRescueMs' = t, unrescued' = 0, espNow' \in {"up", "deaf", "down"},
         rescues' = (IF rescues < HardMinRescues THEN rescues + 1 ELSE rescues),
         firstMissing' = EpisodeStart(t)
  PROVE  RadioInv'
<1>t. /\ t \in 0 .. Turn - 1 /\ EpisodeStart(t) \in 0 .. Turn - 1
      /\ RadioTypeOK /\ HistoryIsAge'
  BY ClockStep
<1>1. RadioTypeOK'
  <2>1. rescues' \in 0 .. HardMinRescues /\ quiet' \in Nat /\ unrescued' \in 0 .. quiet'
    BY <1>t, Timers DEF RadioTypeOK
  <2> QED  BY <1>t, <2>1 DEF RadioTypeOK
<1>2. EpisodeIsShort'
  BY EpisodeStep
<1>3. SilenceIsBounded'
  BY <1>2, SilenceStep
<1>4. UnrescuedIsBounded'
  <2>1. ~(unrescued' > MasterBlackout)
    BY Timers
  <2> QED  BY <2>1 DEF UnrescuedIsBounded
<1> QED  BY <1>t, <1>1, <1>2, <1>3, <1>4 DEF RadioInv

LEMMA NoRescueEnding ==
  ASSUME RadioInv, NEW pause \in 1 .. MaxPause, NEW t, t = (now + pause) % Turn,
         NEW sending,
         now' = t, quiet' = quiet + pause, unrescued' = unrescued + pause,
         UNCHANGED <<lastMasterMs, lastAnyRxMs, espNow, lastRescueMs>>,
         \/ /\ ~RestartIsDue(t) /\ ~MayRescue(t)
            /\ firstMissing' = EpisodeStart(t) /\ rescues' = rescues
         \/ /\ ~Missing(t, sending) /\ firstMissing' = 0
            /\ rescues' = IF firstMissing = 0 THEN rescues ELSE 0
  PROVE  RadioInv'
<1>t. /\ t \in 0 .. Turn - 1 /\ EpisodeStart(t) \in 0 .. Turn - 1
      /\ RadioTypeOK /\ HistoryIsAge'
  BY ClockStep
<1>1. RadioTypeOK'
  <2>1. rescues' \in 0 .. HardMinRescues /\ quiet' \in Nat /\ unrescued' \in 0 .. quiet'
        /\ firstMissing' \in 0 .. Turn - 1
    BY <1>t, Timers DEF RadioTypeOK
  <2> QED  BY <1>t, <2>1 DEF RadioTypeOK
<1>2. EpisodeIsShort'
  <2>1. CASE firstMissing' = 0
    BY <2>1 DEF EpisodeIsShort
  <2>2. CASE firstMissing' # 0
    BY <2>2, EpisodeStep
  <2> QED  BY <2>1, <2>2
<1>3. SilenceIsBounded'
  BY <1>2, SilenceStep
<1>4. UnrescuedIsBounded'
  BY UnrescuedStep
<1> QED  BY <1>t, <1>1, <1>2, <1>3, <1>4 DEF RadioInv

LEMMA PassStep ==
  ASSUME RadioInv, NEW pause \in 1 .. MaxPause, Pass(pause)
  PROVE  RadioInv'
<1> DEFINE t == (now + pause) % Turn
<1>1. PICK sending \in {"works", "fails", "direct fails"} :
        \/ /\ Missing(t, sending) /\ RestartIsDue(t)
           /\ \E state \in {"up", "deaf", "down"} : Boot(state)
        \/ /\ ~(Missing(t, sending) /\ RestartIsDue(t))
           /\ now' = t /\ quiet' = quiet + pause
           /\ UNCHANGED <<lastMasterMs, lastAnyRxMs>>
           /\ \/ Missing(t, sending) /\ MayRescue(t) /\ Rescue(t)
              \/ /\ Missing(t, sending) /\ ~MayRescue(t)
                 /\ firstMissing' = EpisodeStart(t) /\ unrescued' = unrescued + pause
                 /\ UNCHANGED <<espNow, lastRescueMs, rescues>>
              \/ /\ ~Missing(t, sending)
                 /\ firstMissing' = 0 /\ unrescued' = unrescued + pause
                 /\ rescues' = IF firstMissing = 0 THEN rescues ELSE 0
                 /\ UNCHANGED <<espNow, lastRescueMs>>
  BY Zenon DEF Pass
<1> HIDE DEF t
<1>t. t = (now + pause) % Turn
  BY DEF t
<1>2. CASE \E state \in {"up", "deaf", "down"} : Boot(state)
  BY <1>2, BootStep
<1>3. CASE /\ now' = t /\ quiet' = quiet + pause
           /\ UNCHANGED <<lastMasterMs, lastAnyRxMs>>
           /\ ~RestartIsDue(t) /\ MayRescue(t) /\ Rescue(t)
  BY <1>t, <1>3, RescueEnding DEF Rescue
<1>4. CASE /\ now' = t /\ quiet' = quiet + pause /\ unrescued' = unrescued + pause
           /\ UNCHANGED <<lastMasterMs, lastAnyRxMs, espNow, lastRescueMs>>
           /\ \/ /\ ~RestartIsDue(t) /\ ~MayRescue(t)
                 /\ firstMissing' = EpisodeStart(t) /\ rescues' = rescues
              \/ /\ ~Missing(t, sending) /\ firstMissing' = 0
                 /\ rescues' = IF firstMissing = 0 THEN rescues ELSE 0
  BY <1>t, <1>4, NoRescueEnding
<1> QED
  BY <1>1, <1>2, <1>3, <1>4, Zenon

LEMMA RadioStep ==
  RadioInv /\ [RadioNext]_radioVars => RadioInv'
<1> SUFFICES ASSUME RadioInv, [RadioNext]_radioVars PROVE RadioInv'
  OBVIOUS
<1>1. CASE Hear
  <2>1. RadioTypeOK'
    BY <1>1, Timers DEF Hear, RadioInv, RadioTypeOK
  <2>2. HistoryIsAge'
    <3>1. 0 % Turn = 0 /\ (now - now) % Turn = 0
      BY Timers, ModLow, AgeOfNow DEF RadioInv, RadioTypeOK
    <3> QED  BY <1>1, <3>1 DEF Hear, RadioInv, HistoryIsAge, Age
  <2>3. SilenceIsBounded' /\ UnrescuedIsBounded'
    <3>1. CASE quiet' = 0 /\ unrescued' = 0
      BY <3>1, Timers DEF SilenceIsBounded, UnrescuedIsBounded
    <3>2. CASE UNCHANGED <<quiet, unrescued>>
      BY <1>1, <3>2
      DEF Hear, RadioInv, SilenceIsBounded, UnrescuedIsBounded, InFirstEpisode, AfterTurn, Age
    <3> QED  BY <1>1, <3>1, <3>2 DEF Hear
  <2>4. EpisodeIsShort'
    BY <1>1 DEF Hear, RadioInv, EpisodeIsShort, Age
  <2> QED  BY <2>1, <2>2, <2>3, <2>4 DEF RadioInv
<1>2. CASE TakeUpSlice
  <2>1. RadioTypeOK'
    BY <1>2, Timers DEF TakeUpSlice, RadioInv, RadioTypeOK
  <2>2. HistoryIsAge'
    <3>1. 0 % Turn = 0 /\ (now - now) % Turn = 0
      BY Timers, ModLow, AgeOfNow DEF RadioInv, RadioTypeOK
    <3> QED  BY <1>2, <3>1 DEF TakeUpSlice, RadioInv, HistoryIsAge, Age
  <2>3. SilenceIsBounded' /\ UnrescuedIsBounded'
    BY <1>2, Timers DEF TakeUpSlice, SilenceIsBounded, UnrescuedIsBounded
  <2>4. EpisodeIsShort'
    BY <1>2 DEF TakeUpSlice, RadioInv, EpisodeIsShort, Age
  <2> QED  BY <2>1, <2>2, <2>3, <2>4 DEF RadioInv
<1>3. CASE RadioFails
  BY <1>3 DEF RadioFails, RadioInv, RadioTypeOK, HistoryIsAge, EpisodeIsShort,
              SilenceIsBounded, UnrescuedIsBounded, InFirstEpisode, AfterTurn, Age
<1>4. ASSUME NEW pause \in 1 .. MaxPause, Pass(pause) PROVE RadioInv'
  BY <1>4, PassStep
<1>5. CASE UNCHANGED radioVars
  BY <1>5 DEF radioVars, RadioInv, RadioTypeOK, HistoryIsAge, EpisodeIsShort,
              SilenceIsBounded, UnrescuedIsBounded, InFirstEpisode, AfterTurn, Age
<1> QED
  BY <1>1, <1>2, <1>3, <1>4, <1>5 DEF RadioNext

(* The radio's instants are on the clock, and its counts within their bounds. *)
THEOREM RadioTypeCorrect == RadioSpec => []RadioTypeOK
<1>1. RadioInv => RadioTypeOK
  BY DEF RadioInv
<1> QED  BY <1>1, RadioInit_RadioInv, RadioStep, PTL DEF RadioSpec

(* SilenceIsRescued for all timers of the order and ratios that the code gives
   them: wherever the clock wraps around, a node that does not hear Buzz tries
   again within a bounded time. *)
THEOREM RescuesSilence == RadioSpec => []SilenceIsRescued
<1> QED  BY UnrescuedIsShort, RadioInit_RadioInv, RadioStep, PTL DEF RadioSpec

(* SilenceEndsInRestart for all such timers: a silence that rescues do not end
   leads to a restart within a bounded time. *)
THEOREM EndsSilence == RadioSpec => []SilenceEndsInRestart
<1>1. RadioInv => SilenceEndsInRestart
  BY QuietIsShort DEF SilenceEndsInRestart
<1> QED  BY <1>1, RadioInit_RadioInv, RadioStep, PTL DEF RadioSpec

----------------------------------------------------------------------------
(* Powers of two and the reversal of bits. *)

LEMMA PowersOfTwo ==
  /\ Pow2[0] = 1
  /\ \A k \in 0 .. Bits : Pow2[k] \in Nat \ {0}
  /\ \A k \in 1 .. Bits : Pow2[k] = 2 * Pow2[k - 1]
<1> DEFINE X == Nat \ {0}
           g == [p \in (1 .. Bits) \X X |-> 2 * p[2]]
<1>1. Bits \in Nat /\ 1 \in X /\ g \in [(1 .. Bits) \X X -> X]
  BY SizesAssumption
<1>2. PICK f \in [0 .. Bits -> X] : IsSteps(f, Bits, 1, g)
  <2> HIDE DEF X, g
  <2> QED  BY <1>1, StepsExist
<1>3. ASSUME NEW k \in 0 .. Bits
      PROVE  f[k] = IF k = 0 THEN 1 ELSE 2 * f[k - 1]
  <2>1. f[k] = IF k = 0 THEN 1 ELSE g[<<k, f[k - 1]>>]
    BY <1>2 DEF IsSteps
  <2>2. k # 0 => k \in 1 .. Bits /\ k - 1 \in 0 .. Bits
    BY <1>1
  <2> QED  BY <1>2, <2>1, <2>2
<1>4. f = [k \in 0 .. Bits |-> IF k = 0 THEN 1 ELSE 2 * f[k - 1]]
  BY <1>2, <1>3
<1>5. Pow2 = [k \in 0 .. Bits |-> IF k = 0 THEN 1 ELSE 2 * Pow2[k - 1]]
  BY <1>4 DEF Pow2
<1>6. Pow2[0] = 1 /\ \A k \in 1 .. Bits : Pow2[k] = 2 * Pow2[k - 1]
  BY <1>1, <1>5
<1> DEFINE T == {k \in Nat : k <= Bits => Pow2[k] \in X}
<1>7. 0 \in T
  BY <1>6
<1>8. ASSUME NEW k \in Nat, k \in T PROVE k + 1 \in T
  <2> SUFFICES ASSUME k + 1 <= Bits PROVE Pow2[k + 1] \in X
    OBVIOUS
  <2>1. k + 1 \in 1 .. Bits /\ (k + 1) - 1 = k /\ Pow2[k] \in X
    BY <1>1, <1>8
  <2>2. Pow2[k + 1] = 2 * Pow2[k]
    BY <1>6, <2>1
  <2> QED  BY <2>1, <2>2
<1> HIDE DEF T
<1>9. \A k \in 0 .. Bits : k \in T
  <2>1. Nat \subseteq T
    BY <1>7, <1>8, Induction
  <2> QED  BY <1>1, <2>1
<1> QED  BY <1>6, <1>9 DEF T

LEMMA WordType == Word \in Nat \ {0}
BY PowersOfTwo, SizesAssumption DEF Word

(* The low bits of a number, one more at a time. *)
LEMMA LowBits ==
  ASSUME NEW P \in Nat \ {0}, NEW x \in Nat
  PROVE  x % (2 * P) = P * ((x \div P) % 2) + (x % P)
<1> DEFINE q == x \div P
           s == x % P
<1>1. q \in Nat /\ s \in 0 .. P - 1 /\ x = P * q + s
  BY Division
<1> HIDE DEF q, s
<1> DEFINE h == q \div 2
           b == q % 2
<1>2. h \in Nat /\ b \in 0 .. 1 /\ q = 2 * h + b
  BY <1>1, Division
<1> HIDE DEF h, b
<1>3. P * b \in 0 .. P
  <2>1. b = 0 \/ b = 1
    BY <1>2
  <2> QED  BY <2>1
<1> DEFINE c == P * b
<1>4. c + s \in 0 .. (2 * P) - 1 /\ 2 * P \in Nat \ {0}
  BY <1>1, <1>3
<1>5. x = (2 * P) * h + (c + s)
  <2>1. P * q = P * (2 * h + b)
    BY <1>2
  <2>2. P * (2 * h + b) = (2 * P) * h + P * b
    BY <1>2, Z3
  <2>3. (2 * P) * h \in Nat /\ P * q \in Nat
    BY <1>1, <1>2
  <2> QED  BY <1>1, <1>3, <2>1, <2>2, <2>3
<1>6. x % (2 * P) = c + s
  <2> HIDE DEF c
  <2> DEFINE M == 2 * P
             t == c + s
  <2>1. M \in Nat \ {0} /\ h \in Int /\ t \in 0 .. M - 1 /\ x = M * h + t
    BY <1>2, <1>4, <1>5
  <2> HIDE DEF M, t
  <2>2. x % M = t
    BY <2>1, Remainder
  <2> QED  BY <2>2 DEF M, t
<1> QED  BY <1>6 DEF b, s, q, c

(* What the loop of bitReverse32 has after each bit. *)
Reversing(x, bits) ==
  CHOOSE f : f = [k \in 0 .. bits |->
                    IF k = 0 THEN 0 ELSE 2 * f[k - 1] + ((x \div Pow2[k - 1]) % 2)]

LEMMA ReversingFacts ==
  ASSUME NEW x \in Nat, NEW bits \in 0 .. Bits
  PROVE  /\ BitReverse(x, bits) = Reversing(x, bits)[bits]
         /\ Reversing(x, bits)[0] = 0
         /\ \A k \in 1 .. bits :
              Reversing(x, bits)[k] = 2 * Reversing(x, bits)[k - 1] + ((x \div Pow2[k - 1]) % 2)
<1> DEFINE bit(k) == (x \div Pow2[k - 1]) % 2
           g == [p \in (1 .. bits) \X Nat |-> 2 * p[2] + bit(p[1])]
           c == Reversing(x, bits)
<1>1. bits \in Nat /\ \A k \in 1 .. bits : k \in 1 .. Bits /\ k - 1 \in 0 .. bits
  BY SizesAssumption
<1>2. \A k \in 1 .. bits : bit(k) \in 0 .. 1
  <2> SUFFICES ASSUME NEW k \in 1 .. bits PROVE bit(k) \in 0 .. 1
    OBVIOUS
  <2>1. Pow2[k - 1] \in Nat \ {0}
    <3>1. k - 1 \in 0 .. Bits
      BY SizesAssumption
    <3> QED  BY <3>1, PowersOfTwo
  <2>2. x \div Pow2[k - 1] \in Nat
    BY <2>1, Division
  <2> QED  BY <2>2, Division
<1> HIDE DEF bit
<1>3. g \in [(1 .. bits) \X Nat -> Nat]
  <2> SUFFICES ASSUME NEW k \in 1 .. bits, NEW a \in Nat PROVE 2 * a + bit(k) \in Nat
    OBVIOUS
  <2> QED  BY <1>2
<1>4. PICK f \in [0 .. bits -> Nat] : IsSteps(f, bits, 0, g)
  <2> HIDE DEF g
  <2> QED  BY <1>1, <1>3, StepsExist
<1>5. ASSUME NEW k \in 0 .. bits
      PROVE  f[k] = IF k = 0 THEN 0 ELSE 2 * f[k - 1] + bit(k)
  <2>1. f[k] = IF k = 0 THEN 0 ELSE g[<<k, f[k - 1]>>]
    BY <1>4 DEF IsSteps
  <2>2. k # 0 => k \in 1 .. bits /\ k - 1 \in 0 .. bits
    BY <1>1
  <2> QED  BY <1>4, <2>1, <2>2
<1>6. f = [k \in 0 .. bits |-> IF k = 0 THEN 0 ELSE 2 * f[k - 1] + ((x \div Pow2[k - 1]) % 2)]
  BY <1>4, <1>5 DEF bit
<1>7. c = [k \in 0 .. bits |-> IF k = 0 THEN 0 ELSE 2 * c[k - 1] + ((x \div Pow2[k - 1]) % 2)]
  BY <1>6 DEF Reversing
<1>8. BitReverse(x, bits) = c[bits]
  BY DEF BitReverse, Reversing
<1> HIDE DEF c
<1> QED  BY <1>1, <1>7, <1>8 DEF c

(* The reversal of some bits is a number of as many bits, and tells them. *)
LEMMA ReversalOfBits ==
  ASSUME NEW bits \in 0 .. Bits, NEW x \in Nat, NEW y \in Nat
  PROVE  /\ BitReverse(x, bits) \in 0 .. Pow2[bits] - 1
         /\ BitReverse(x, bits) = BitReverse(y, bits) => x % Pow2[bits] = y % Pow2[bits]
<1> DEFINE c == Reversing(x, bits)
           d == Reversing(y, bits)
           T == {k \in Nat : k <= bits =>
                   /\ c[k] \in 0 .. Pow2[k] - 1 /\ d[k] \in 0 .. Pow2[k] - 1
                   /\ c[k] = d[k] => x % Pow2[k] = y % Pow2[k]}
<1>1. /\ BitReverse(x, bits) = c[bits] /\ c[0] = 0
      /\ \A k \in 1 .. bits : c[k] = 2 * c[k - 1] + ((x \div Pow2[k - 1]) % 2)
  BY ReversingFacts
<1>2. /\ BitReverse(y, bits) = d[bits] /\ d[0] = 0
      /\ \A k \in 1 .. bits : d[k] = 2 * d[k - 1] + ((y \div Pow2[k - 1]) % 2)
  BY ReversingFacts
<1> HIDE DEF c, d
<1>3. bits \in Nat
  OBVIOUS
<1>4. 0 \in T
  <2>1. x % 1 = 0 /\ y % 1 = 0
    BY Division
  <2> QED  BY <1>1, <1>2, <2>1, PowersOfTwo
<1>5. ASSUME NEW k \in Nat, k \in T PROVE k + 1 \in T
  <2> SUFFICES ASSUME k + 1 <= bits
               PROVE  /\ c[k + 1] \in 0 .. Pow2[k + 1] - 1 /\ d[k + 1] \in 0 .. Pow2[k + 1] - 1
                      /\ c[k + 1] = d[k + 1] => x % Pow2[k + 1] = y % Pow2[k + 1]
    OBVIOUS
  <2> DEFINE P == Pow2[k]
             b == (x \div P) % 2
             e == (y \div P) % 2
  <2>1. k + 1 \in 1 .. bits /\ (k + 1) - 1 = k /\ k + 1 \in 1 .. Bits /\ k \in 0 .. Bits
    BY SizesAssumption
  <2>2. P \in Nat \ {0} /\ Pow2[k + 1] = 2 * P
    BY <2>1, PowersOfTwo
  <2>3. c[k + 1] = 2 * c[k] + b /\ d[k + 1] = 2 * d[k] + e
    BY <1>1, <1>2, <2>1
  <2>4. /\ c[k] \in 0 .. P - 1 /\ d[k] \in 0 .. P - 1
        /\ c[k] = d[k] => x % P = y % P
    BY <1>5
  <2>5. b \in 0 .. 1 /\ e \in 0 .. 1
    <3>1. x \div P \in Nat /\ y \div P \in Nat
      BY <2>2, Division
    <3>2. \A q \in Nat : q % 2 \in 0 .. 1
      BY Z3
    <3> QED  BY <3>1, <3>2
  <2>6. x % (2 * P) = P * b + (x % P) /\ y % (2 * P) = P * e + (y % P)
    BY <2>2, LowBits
  <2> HIDE DEF P, b, e
  <2>7. c[k + 1] = d[k + 1] => c[k] = d[k] /\ b = e
    BY <2>3, <2>4, <2>5
  <2> QED  BY <2>2, <2>3, <2>4, <2>5, <2>6, <2>7
<1> HIDE DEF T
<1>6. bits \in T
  <2>1. Nat \subseteq T
    BY <1>4, <1>5, Induction
  <2> QED  BY <1>3, <2>1
<1> QED  BY <1>1, <1>2, <1>3, <1>6 DEF T

----------------------------------------------------------------------------
(* Strides. *)

LEMMA OneIsCoprime == \A n \in Nat : Coprime(1, n)
<1> SUFFICES ASSUME NEW n \in Nat, NEW d \in 2 .. n PROVE 1 % d # 0
  BY DEF Coprime
<1>1. d \in Nat \ {0} /\ 1 \in 0 .. d - 1
  OBVIOUS
<1> QED  BY <1>1, ModLow

(* Whatever the attempts come to, what is returned is coprime. *)
LEMMA CoprimeStrideFacts ==
  ASSUME NEW stride \in Nat, NEW range \in Nat \ {0}
  PROVE  CoprimeStride(stride, range) \in Nat /\ Coprime(CoprimeStride(stride, range), range)
<1> DEFINE nonzero == IF stride % range = 0 THEN 1 ELSE stride % range
           first   == IF range % 2 = 0 THEN Odd(nonzero) ELSE nonzero
           c       == CHOOSE f : f = [k \in 0 .. Attempts |->
                                        IF k = 0 THEN first ELSE Retried(f[k - 1], range)]
           g       == [p \in (1 .. Attempts) \X Nat |-> Retried(p[2], range)]
<1>1. \A s \in Nat : s % range \in Nat /\ Odd(s) \in Nat
  BY ModIsBelow DEF Odd
<1>2. first \in Nat
  BY <1>1
<1>3. \A s \in Nat : Retried(s, range) \in Nat
  BY <1>1 DEF Retried, NextStride
<1>4. Attempts \in Nat /\ g \in [(1 .. Attempts) \X Nat -> Nat]
  BY <1>3, SizesAssumption
<1> HIDE DEF first, g
<1>5. PICK f \in [0 .. Attempts -> Nat] : IsSteps(f, Attempts, first, g)
  BY <1>2, <1>4, StepsExist
<1>6. ASSUME NEW k \in 0 .. Attempts
      PROVE  f[k] = IF k = 0 THEN first ELSE Retried(f[k - 1], range)
  <2>1. f[k] = IF k = 0 THEN first ELSE g[<<k, f[k - 1]>>]
    BY <1>5 DEF IsSteps
  <2>2. k # 0 => k \in 1 .. Attempts /\ k - 1 \in 0 .. Attempts
    BY <1>4
  <2> QED  BY <1>5, <2>1, <2>2 DEF g
<1>7. f = [k \in 0 .. Attempts |-> IF k = 0 THEN first ELSE Retried(f[k - 1], range)]
  BY <1>5, <1>6
<1>8. c = [k \in 0 .. Attempts |-> IF k = 0 THEN first ELSE Retried(c[k - 1], range)]
  BY <1>7
<1>9. CoprimeStride(stride, range)
        = IF range > 1 /\ Coprime(c[Attempts], range) THEN c[Attempts] ELSE 1
  BY DEF CoprimeStride, first
<1> HIDE DEF c
<1> DEFINE T == {k \in Nat : k <= Attempts => c[k] \in Nat}
<1>10. 0 \in T
  BY <1>2, <1>4, <1>8
<1>11. ASSUME NEW k \in Nat, k \in T PROVE k + 1 \in T
  <2> SUFFICES ASSUME k + 1 <= Attempts PROVE c[k + 1] \in Nat
    OBVIOUS
  <2>1. k + 1 \in 0 .. Attempts /\ k + 1 # 0 /\ (k + 1) - 1 = k /\ c[k] \in Nat
    BY <1>4, <1>11
  <2> QED  BY <1>3, <1>8, <2>1
<1> HIDE DEF T
<1>12. Attempts \in T
  <2>1. Nat \subseteq T
    BY <1>10, <1>11, Induction
  <2> QED  BY <1>4, <2>1
<1>13. c[Attempts] \in Nat
  BY <1>4, <1>12 DEF T
<1> QED  BY <1>9, <1>13, OneIsCoprime

(* A stride and what remains of it modulo the range share their divisors. *)
LEMMA RemainderIsCoprime ==
  ASSUME NEW s \in Nat, NEW n \in Nat \ {0}, Coprime(s, n)
  PROVE  Coprime(s % n, n)
<1> SUFFICES ASSUME NEW d \in 2 .. n, (s % n) % d = 0, n % d = 0 PROVE s % d = 0
  BY DEF Coprime
<1> DEFINE q == s \div n
           t == s % n
           a == n \div d
           b == t \div d
<1>1. d \in Nat \ {0} /\ q \in Nat /\ t \in Nat /\ s = n * q + t
  <2>1. q \in Nat /\ t \in 0 .. n - 1 /\ s = n * q + t
    BY Division
  <2> HIDE DEF q, t
  <2> QED  BY <2>1
<1> HIDE DEF q, t
<1>2. /\ a \in Nat /\ n = d * a + (n % d)
      /\ b \in Nat /\ t = d * b + (t % d)
  BY <1>1, Division
<1>3. t % d = 0
  BY DEF t
<1> HIDE DEF a, b
<1>4. n = d * a /\ t = d * b
  <2>1. d * a \in Nat /\ d * b \in Nat
    BY <1>1, <1>2
  <2> QED  BY <1>2, <1>3, <2>1
<1>5. s = d * (a * q + b) + 0
  <2>1. n * q = d * (a * q)
    BY <1>1, <1>2, <1>4, Z3
  <2>2. d * (a * q + b) = d * (a * q) + d * b
    BY <1>1, <1>2, Z3
  <2>3. n * q \in Nat /\ d * b \in Nat /\ d * (a * q) \in Nat
    BY <1>1, <1>2
  <2> QED  BY <1>1, <1>4, <2>1, <2>2, <2>3
<1>6. a * q + b \in Int /\ 0 \in 0 .. d - 1
  BY <1>1, <1>2
<1> DEFINE k == a * q + b
<1>7. (d * k + 0) % d = 0
  <2> HIDE DEF k
  <2> QED  BY <1>1, <1>6, Remainder DEF k
<1> QED  BY <1>5, <1>7

----------------------------------------------------------------------------
(* The lanes. *)

(* A job whose range fits its words three times, and whose stride is coprime
   with the range. *)
IsJob(j) ==
  j \in Job /\ 3 * j.range <= Word /\ j.done <= j.range /\ Coprime(j.stride, j.range)

LEMMA CenterOutFacts ==
  ASSUME NEW j, j.range \in Nat \ {0}, NEW i \in 0 .. j.range - 1, NEW k \in 0 .. j.range - 1
  PROVE  /\ CenterOut(j, i) \in 0 .. j.range - 1
         /\ CenterOut(j, i) = CenterOut(j, k) => i = k
<1> DEFINE n == j.range
           center == n \div 2
           where(x) == IF x % 2 = 1 THEN center + ((x + 1) \div 2)
                       ELSE center + n - ((x + 1) \div 2)
<1>1. center \in Nat
  BY HalfIsBelow
<1>2. ASSUME NEW x \in 0 .. n - 1
      PROVE  /\ (x + 1) \div 2 \in 0 .. n /\ where(x) \in Nat
             /\ CenterOut(j, x) = where(x) % n
             /\ \/ x % 2 = 1 /\ x = 2 * ((x + 1) \div 2) - 1
                \/ x % 2 = 0 /\ x = 2 * ((x + 1) \div 2)
  <2> DEFINE s == (x + 1) \div 2
  <2>1. /\ s \in Nat
        /\ (x % 2 = 1 /\ x = 2 * s - 1) \/ (x % 2 = 0 /\ x = 2 * s)
    <3>1. /\ x \div 2 \in Nat /\ x % 2 \in 0 .. 1 /\ x = 2 * (x \div 2) + (x % 2)
          /\ s \in Nat /\ (x + 1) % 2 \in 0 .. 1 /\ x + 1 = 2 * s + ((x + 1) % 2)
      <4>1. x \in Nat /\ x + 1 \in Nat /\ 2 \in Nat \ {0}
        OBVIOUS
      <4>2. \A y \in Nat : y \div 2 \in Nat /\ y % 2 \in 0 .. 2 - 1 /\ y = 2 * (y \div 2) + (y % 2)
        BY Division
      <4> QED  BY <4>1, <4>2
    <3> DEFINE h == x \div 2
               b == x % 2
               e == (x + 1) % 2
    <3> HIDE DEF s, h, b, e
    <3>2. h \in Nat /\ b \in 0 .. 1 /\ x = 2 * h + b /\ s \in Nat /\ e \in 0 .. 1 /\ x + 1 = 2 * s + e
      BY <3>1 DEF h, b, e
    <3>3. (b = 1 /\ x = 2 * s - 1) \/ (b = 0 /\ x = 2 * s)
      BY <3>2
    <3> QED  BY <3>2, <3>3 DEF b
  <2> HIDE DEF s
  <2>2. s \in 0 .. n /\ (x % 2 = 0 => s \in 0 .. n - 1)
    BY <2>1
  <2>3. x % 2 = 0 => s % n = s
    BY <2>2, ModLow
  <2>4. CenterOut(j, x) = IF x % 2 = 1 THEN (center + s) % n ELSE (center + n - s) % n
    BY <2>1, <2>3 DEF CenterOut, s
  <2>5. where(x) = IF x % 2 = 1 THEN center + s ELSE center + n - s
    BY DEF s
  <2> HIDE DEF where
  <2> QED  BY <1>1, <2>1, <2>2, <2>4, <2>5 DEF s
<1>3. CenterOut(j, i) \in 0 .. n - 1
  <2> HIDE DEF where
  <2>1. where(i) \in Int
    BY <1>2
  <2> QED  BY <1>2, <2>1, ModIsBelow
<1>4. ASSUME CenterOut(j, i) = CenterOut(j, k) PROVE i = k
  <2> DEFINE s == (i + 1) \div 2
             t == (k + 1) \div 2
  <2>1. /\ s \in 0 .. n /\ (((i % 2 = 1) /\ (i = 2 * s - 1)) \/ ((i % 2 = 0) /\ (i = 2 * s)))
        /\ t \in 0 .. n /\ (((k % 2 = 1) /\ (k = 2 * t - 1)) \/ ((k % 2 = 0) /\ (k = 2 * t)))
    BY <1>2
  <2>2. /\ where(i) = IF i % 2 = 1 THEN center + s ELSE center + n - s
        /\ where(k) = IF k % 2 = 1 THEN center + t ELSE center + n - t
    OBVIOUS
  <2>3. where(i) \in Nat /\ where(k) \in Nat /\ where(i) % n = where(k) % n
    BY <1>2, <1>4
  <2> DEFINE b == i % 2
             e == k % 2
  <2>4. n \in Nat \ {0} /\ i \in 0 .. n - 1 /\ k \in 0 .. n - 1
    OBVIOUS
  <2>5. /\ ((b = 1) /\ (i = 2 * s - 1)) \/ ((b = 0) /\ (i = 2 * s))
        /\ ((e = 1) /\ (k = 2 * t - 1)) \/ ((e = 0) /\ (k = 2 * t))
        /\ where(i) = IF b = 1 THEN center + s ELSE center + n - s
        /\ where(k) = IF e = 1 THEN center + t ELSE center + n - t
    BY <2>1, <2>2
  <2> DEFINE u == where(i)
             v == where(k)
  <2> HIDE DEF where, center, s, t, b, e
  <2>6. s \in 0 .. n /\ t \in 0 .. n /\ center \in Nat
    BY <1>1, <2>1
  <2>7. u - v < n /\ v - u < n /\ (u = v => i = k)
    <3> HIDE DEF n, u, v
    <3>1. /\ u = IF b = 1 THEN center + s ELSE center + n - s
          /\ v = IF e = 1 THEN center + t ELSE center + n - t
      BY <2>5 DEF u, v
    <3>2. CASE b = 1 /\ e = 1
      BY <2>4, <2>5, <2>6, <3>1, <3>2
    <3>3. CASE b = 1 /\ e = 0
      BY <2>4, <2>5, <2>6, <3>1, <3>3
    <3>4. CASE b = 0 /\ e = 1
      BY <2>4, <2>5, <2>6, <3>1, <3>4
    <3>5. CASE b = 0 /\ e = 0
      BY <2>4, <2>5, <2>6, <3>1, <3>5
    <3> QED  BY <2>5, <3>2, <3>3, <3>4, <3>5
  <2>8. u = v
    <3> HIDE DEF n, u, v
    <3> QED  BY <2>3, <2>4, <2>7, SameModulo DEF u, v
  <2> QED  BY <2>7, <2>8
<1> QED  BY <1>3, <1>4

(* The strided walk of a lane meets every place of the range once. *)
Walk(j, i) == (i * (IF j.stride % j.range = 0 THEN 1 ELSE j.stride % j.range)) % j.range

LEMMA WalkFacts ==
  ASSUME NEW j, IsJob(j), NEW i \in 0 .. j.range - 1, NEW k \in 0 .. j.range - 1
  PROVE  /\ Walk(j, i) \in 0 .. j.range - 1
         /\ Walk(j, i) = Walk(j, k) => i = k
<1> DEFINE n == j.range
           s == IF j.stride % n = 0 THEN 1 ELSE j.stride % n
<1>1. n \in Nat \ {0} /\ j.stride \in Nat /\ Coprime(j.stride, n)
  BY DEF IsJob, Job
<1>2. s \in Nat /\ Coprime(s, n)
  <2> DEFINE t == j.stride
  <2>1. n \in Nat \ {0} /\ t \in Nat /\ Coprime(t, n)
    BY <1>1
  <2>2. s = IF t % n = 0 THEN 1 ELSE t % n
    OBVIOUS
  <2> HIDE DEF n, t, s
  <2>3. Coprime(t % n, n) /\ Coprime(1, n)
    BY <2>1, RemainderIsCoprime, OneIsCoprime
  <2>4. t % n \in Nat
    BY <2>1, ModIsBelow
  <2> QED  BY <2>2, <2>3, <2>4
<1>3. Walk(j, i) = (i * s) % n /\ Walk(j, k) = (k * s) % n
  BY DEF Walk
<1> HIDE DEF s
<1>4. i * s \in Nat /\ k * s \in Nat /\ (i * s) + 0 = i * s /\ (k * s) + 0 = k * s
  BY <1>1, <1>2
<1>5. ASSUME Walk(j, i) = Walk(j, k) PROVE i = k
  <2>1. ((i * s) + 0) % n = ((k * s) + 0) % n
    BY <1>3, <1>4, <1>5
  <2>2. \A d \in 2 .. n : s % d # 0 \/ n % d # 0
    BY <1>2 DEF Coprime
  <2>3. i \in 0 .. n - 1 /\ k \in 0 .. n - 1 /\ 0 \in Nat
    OBVIOUS
  <2> HIDE DEF n
  <2> QED  BY <1>1, <1>2, <2>1, <2>2, <2>3, CoprimeWalk
<1>6. (i * s) % n \in 0 .. n - 1
  <2> DEFINE m == i * s
  <2> HIDE DEF m, n
  <2> QED  BY <1>1, <1>4, ModIsBelow DEF m
<1> QED  BY <1>3, <1>5, <1>6

LEMMA ShiftedWalk ==
  ASSUME NEW j, IsJob(j), NEW i \in 0 .. j.range - 1, NEW k \in 0 .. j.range - 1,
         NEW c \in 0 .. j.range - 1
  PROVE  /\ c + Walk(j, i) \in 0 .. 2 * j.range - 1
         /\ (c + Walk(j, i)) % j.range = (c + Walk(j, k)) % j.range => i = k
<1>1. j.range \in Nat \ {0}
  BY DEF IsJob, Job
<1>2. Walk(j, i) \in 0 .. j.range - 1 /\ Walk(j, k) \in 0 .. j.range - 1
  BY WalkFacts
<1>3. ASSUME (c + Walk(j, i)) % j.range = (c + Walk(j, k)) % j.range PROVE i = k
  <2> DEFINE n == j.range
             u == Walk(j, i)
             v == Walk(j, k)
  <2>1. u % n = v % n
    <3>1. n \in Nat \ {0} /\ c \in 0 .. n - 1 /\ u \in Nat /\ v \in Nat /\ (c + u) % n = (c + v) % n
      BY <1>1, <1>2, <1>3
    <3> HIDE DEF n, u, v
    <3> QED  BY <3>1, SumCancels, ZenonT(60)
  <2>2. Walk(j, i) = Walk(j, k)
    BY <1>1, <1>2, <2>1, ModLow
  <2> QED  BY <2>2, WalkFacts
<1> QED  BY <1>1, <1>2, <1>3

(* A power of two, as PowerOfTwo and Log2 find it. *)
LEMMA LogOfPower ==
  ASSUME NEW x, PowerOfTwo(x)
  PROVE  Log2(x) \in 0 .. Bits /\ x = Pow2[Log2(x)]
<1>1. \E k \in 0 .. Bits - 1 : x = Pow2[k]
  BY DEF PowerOfTwo
<1>2. Log2(x) \in 0 .. Bits - 1 /\ x = Pow2[Log2(x)]
  BY <1>1 DEF Log2
<1> QED  BY <1>2, SizesAssumption

(* Two hashes of a lane are at two places of the range. *)
LEMMA StepFacts ==
  ASSUME NEW j, IsJob(j), NEW i \in 0 .. j.range - 1, NEW k \in 0 .. j.range - 1
  PROVE  /\ Step(j, i) \in 0 .. 2 * j.range - 1
         /\ Step(j, i) % j.range = Step(j, k) % j.range => i = k
<1> DEFINE n == j.range
           seed == BitXor(j.seed, j.offset)
<1>1. /\ n \in Nat \ {0} /\ j.lane \in Lane
      /\ j.seed \in 0 .. Word - 1 /\ j.offset \in 0 .. Word - 1
  BY DEF IsJob, Job
<1>2. seed \in 0 .. Word - 1 /\ BitXor(seed, Masks.knight) \in 0 .. Word - 1
      /\ XorShift[seed] \in 0 .. Word - 1
  <2>1. seed \in 0 .. Word - 1
    BY <1>1, WordAssumption
  <2> HIDE DEF seed
  <2> QED  BY <2>1, WordAssumption
<1>3. \A x \in Nat : x % n \in 0 .. n - 1
  <2> HIDE DEF n
  <2> QED  BY <1>1, ModIsBelow
<1>4. Walk(j, i) \in 0 .. n - 1 /\ Walk(j, k) \in 0 .. n - 1 /\ Word \in Nat
  BY WalkFacts, WordType
<1>5. CASE j.lane = 0
  <2>1. Step(j, i) = i /\ Step(j, k) = k
    BY <1>5 DEF Step
  <2> QED  BY <1>1, <2>1, ModLow
<1>6. CASE j.lane = 1
  <2> DEFINE c == seed % n
             x == c + n - Walk(j, i)
             y == c + n - Walk(j, k)
  <2>1. Step(j, i) = x /\ Step(j, k) = y
    BY <1>6 DEF Step, Walk
  <2>2. c \in 0 .. n - 1
    BY <1>2, <1>3, <1>4
  <2> HIDE DEF c
  <2>3. x \in 0 .. 2 * n - 1 /\ y \in Nat /\ x - y < n /\ y - x < n
    BY <1>1, <1>4, <2>2
  <2>4. x = y => Walk(j, i) = Walk(j, k)
    BY <1>1, <1>4, <2>2
  <2> HIDE DEF x, y, n
  <2>5. x % n = y % n => x = y
    <3> SUFFICES ASSUME x % n = y % n PROVE x = y
      OBVIOUS
    <3>1. x \in Nat
      BY <1>1, <2>3
    <3> QED  BY <1>1, <2>3, <3>1, SameModulo
  <2> QED  BY <2>1, <2>3, <2>4, <2>5, WalkFacts DEF n
<1>7. CASE j.lane = 2 /\ PowerOfTwo(n)
  <2> DEFINE c == seed % n
             L == Log2(n)
             a == (i + c) % n
             b == (k + c) % n
  <2>1. Step(j, i) = BitReverse(a, L) /\ Step(j, k) = BitReverse(b, L)
    BY <1>7 DEF Step
  <2>2. c \in 0 .. n - 1 /\ i + c = c + i /\ k + c = c + k /\ i + c \in Nat /\ k + c \in Nat
    BY <1>1, <1>2, <1>3, <1>4
  <2>3. L \in 0 .. Bits /\ n = Pow2[L]
    BY <1>7, LogOfPower
  <2>4. a \in 0 .. n - 1 /\ b \in 0 .. n - 1
    BY <1>3, <2>2
  <2>5. a = b => i = k
    <3> SUFFICES ASSUME a = b PROVE i = k
      OBVIOUS
    <3>1. (c + i) % n = (c + k) % n
      BY <2>2
    <3> HIDE DEF c
    <3>2. i % n = k % n
      BY <1>1, <2>2, <3>1, SumCancels
    <3> QED  BY <1>1, <3>2, ModLow
  <2> HIDE DEF a, b, c, L
  <2>6. /\ BitReverse(a, L) \in 0 .. n - 1
        /\ BitReverse(b, L) \in 0 .. n - 1
        /\ BitReverse(a, L) = BitReverse(b, L) => a % n = b % n
    BY <1>1, <2>3, <2>4, ReversalOfBits
  <2> QED  BY <1>1, <2>1, <2>4, <2>5, <2>6, ModLow
<1>8. CASE j.lane = 2 /\ ~PowerOfTwo(n)
  <2>1. Step(j, i) = (seed % n) + Walk(j, i) /\ Step(j, k) = (seed % n) + Walk(j, k)
    BY <1>8 DEF Step, Walk
  <2>2. seed % n \in 0 .. n - 1
    BY <1>2, <1>3, <1>4
  <2> QED  BY <2>1, <2>2, ShiftedWalk
<1>9. CASE j.lane = 3
  <2>1. Step(j, i) = CenterOut(j, i) /\ Step(j, k) = CenterOut(j, k)
    BY <1>9 DEF Step
  <2>2. CenterOut(j, i) \in 0 .. n - 1 /\ CenterOut(j, k) \in 0 .. n - 1
    BY <1>1, CenterOutFacts
  <2>3. CenterOut(j, i) = CenterOut(j, k) => i = k
    BY <1>1, CenterOutFacts
  <2> QED  BY <1>1, <2>1, <2>2, <2>3, ModLow
<1>10. CASE j.lane = 4
  <2>1. /\ Step(j, i) = (BitXor(seed, Masks.knight) % n) + Walk(j, i)
        /\ Step(j, k) = (BitXor(seed, Masks.knight) % n) + Walk(j, k)
    BY <1>10 DEF Step, Walk
  <2>2. BitXor(seed, Masks.knight) % n \in 0 .. n - 1
    BY <1>2, <1>3, <1>4
  <2> QED  BY <2>1, <2>2, ShiftedWalk
<1>11. CASE j.lane = 5
  <2>1. /\ Step(j, i) = (XorShift[seed] % n) + Walk(j, i)
        /\ Step(j, k) = (XorShift[seed] % n) + Walk(j, k)
    BY <1>11 DEF Step, Walk
  <2>2. XorShift[seed] % n \in 0 .. n - 1
    BY <1>2, <1>3, <1>4
  <2> QED  BY <2>1, <2>2, ShiftedWalk
<1> QED  BY <1>1, <1>5, <1>6, <1>7, <1>8, <1>9, <1>10, <1>11 DEF Lane

(* Where in the range the i-th hash is. *)
Position(j, i) == (Phase(j) + Step(j, i)) % j.range

LEMMA PositionFacts ==
  ASSUME NEW j, IsJob(j), NEW i \in 0 .. j.range - 1, NEW k \in 0 .. j.range - 1
  PROVE  /\ Position(j, i) \in 0 .. j.range - 1
         /\ Position(j, i) = Position(j, k) => i = k
         /\ NextNonce(j, i) = (j.start + Position(j, i)) % Word
<1> DEFINE n == j.range
           p == Phase(j)
           x == Step(j, i)
           y == Step(j, k)
<1>1. /\ n \in Nat \ {0} /\ 3 * n <= Word /\ j.start \in 0 .. Word - 1
      /\ j.sector \in Nat /\ j.offset \in Nat
  BY DEF IsJob, Job
<1>2. p \in 0 .. n - 1
  <2> DEFINE q == (n * j.sector) \div Sectors
             o == j.offset % n
             m == n * j.sector
  <2>1. m \in Nat
    BY <1>1
  <2>2. q \in Nat
    <3> HIDE DEF m
    <3>1. m \div Sectors \in Nat
      BY <2>1, SizesAssumption, Division
    <3> QED  BY <3>1 DEF m
  <2>3. o \in Nat
    <3>1. n \in Nat \ {0}
      BY <1>1
    <3>2. \A z \in Nat : z % n \in 0 .. n - 1
      <4> HIDE DEF n
      <4> QED  BY <3>1, ModIsBelow
    <3> QED  BY <1>1, <3>2
  <2>4. p = (q + o) % n
    BY DEF Phase
  <2> HIDE DEF q, o, n, p
  <2> QED  BY <1>1, <2>2, <2>3, <2>4, ModIsBelow
<1>3. x \in 0 .. 2 * n - 1 /\ y \in 0 .. 2 * n - 1
  BY StepFacts
<1>4. x % n = y % n => i = k
  BY StepFacts
<1>5. Position(j, i) = (p + x) % n /\ Position(j, k) = (p + y) % n
  BY DEF Position
<1>6. NextNonce(j, i) = IF n = 1 THEN j.start ELSE (j.start + (((p + x) % Word) % n)) % Word
  <2>1. i % n = i
    BY <1>1, ModLow
  <2> QED  BY <2>1 DEF NextNonce
<1>7. i \in 0 .. n - 1 /\ Word \in Nat \ {0}
  BY WordType
<1> HIDE DEF n, p, x, y
<1>8. (p + x) % n \in 0 .. n - 1
  <2>1. p + x \in Int
    BY <1>2, <1>3
  <2> QED  BY <1>1, <2>1, ModIsBelow
<1>9. (p + x) % n = (p + y) % n => x % n = y % n
  <2> SUFFICES ASSUME (p + x) % n = (p + y) % n PROVE x % n = y % n
    OBVIOUS
  <2>1. x \in Nat /\ y \in Nat
    BY <1>1, <1>3
  <2> QED  BY <1>1, <1>2, <2>1, SumCancels, ZenonT(60)
<1>10. (p + x) % Word = p + x
  <2>1. p + x \in 0 .. Word - 1
    BY <1>1, <1>2, <1>3, <1>7
  <2> QED  BY <1>7, <2>1, ModLow
<1>11. CASE n = 1
  <2>1. (p + x) % n = 0
    BY <1>8, <1>11
  <2>2. (j.start + 0) % Word = j.start
    BY <1>1, <1>7, ModLow
  <2> QED  BY <1>4, <1>5, <1>6, <1>8, <1>9, <1>11, <2>1, <2>2 DEF n
<1>12. CASE n # 1
  BY <1>4, <1>5, <1>6, <1>8, <1>9, <1>10, <1>12 DEF n
<1> QED  BY <1>11, <1>12

LEMMA NoncesDiffer ==
  ASSUME NEW j, IsJob(j), NEW i \in 0 .. j.range - 1, NEW k \in 0 .. j.range - 1,
         NextNonce(j, i) = NextNonce(j, k)
  PROVE  i = k
<1> DEFINE a == Position(j, i)
           b == Position(j, k)
<1>1. j.range \in Nat \ {0} /\ 3 * j.range <= Word /\ j.start \in 0 .. Word - 1 /\ Word \in Nat \ {0}
  BY WordType DEF IsJob, Job
<1>2. /\ a \in 0 .. j.range - 1 /\ b \in 0 .. j.range - 1
      /\ a = b => i = k
      /\ (j.start + a) % Word = (j.start + b) % Word
  BY PositionFacts
<1> HIDE DEF a, b
<1>3. a \in 0 .. Word - 1 /\ b \in 0 .. Word - 1 /\ a \in Nat /\ b \in Nat
  BY <1>1, <1>2
<1>4. a % Word = b % Word
  <2> DEFINE o == j.start
  <2>1. o \in 0 .. Word - 1 /\ (o + a) % Word = (o + b) % Word
    BY <1>1, <1>2
  <2> HIDE DEF o
  <2> QED  BY <1>1, <1>3, <2>1, SumCancels, ZenonT(60)
<1>5. a % Word = a /\ b % Word = b
  BY <1>1, <1>3, ModLow
<1> QED  BY <1>2, <1>4, <1>5

LEMMA WalkIsPermutation ==
  ASSUME NEW j, IsJob(j)
  PROVE  {NextNonce(j, i) : i \in 0 .. j.range - 1} = Assigned(j)
<1> DEFINE n == j.range
           f == [i \in 0 .. n - 1 |-> Position(j, i)]
<1>1. n \in Nat
  BY DEF IsJob, Job
<1>2. f \in [0 .. n - 1 -> 0 .. n - 1] /\ \A i, k \in 0 .. n - 1 : f[i] = f[k] => i = k
  BY PositionFacts
<1>3. \A i \in 0 .. n - 1 : NextNonce(j, i) = (j.start + f[i]) % Word
  BY PositionFacts
<1> HIDE DEF f, n
<1>4. {f[i] : i \in 0 .. n - 1} = 0 .. n - 1
  BY <1>1, <1>2, AllValues
<1>5. {NextNonce(j, i) : i \in 0 .. n - 1} = {(j.start + m) % Word : m \in 0 .. n - 1}
  <2>1. \A i \in 0 .. n - 1 : NextNonce(j, i) \in {(j.start + m) % Word : m \in 0 .. n - 1}
    BY <1>2, <1>3
  <2>2. \A m \in 0 .. n - 1 : \E i \in 0 .. n - 1 : f[i] = m
    BY <1>4
  <2>3. \A m \in 0 .. n - 1 : \E i \in 0 .. n - 1 : NextNonce(j, i) = (j.start + m) % Word
    BY <1>3, <2>2
  <2> QED  BY <2>1, <2>3
<1> QED  BY <1>5 DEF Assigned, n

----------------------------------------------------------------------------
(* The walk. *)

Reached(j) == {NextNonce(j, i) : i \in 0 .. j.done - 1}

WalkInv ==
  /\ splits \in Nat
  /\ job = None => hashed = {} /\ splits = 0
  /\ job # None => IsJob(job)
  /\ job # None /\ splits = 0 =>
       hashed = Reached(job) /\ IsFiniteSet(hashed) /\ Cardinality(hashed) = job.done

LEMMA ConfiguredIsJob ==
  ASSUME NEW slice \in Slice, NEW seed \in Seed, NEW drawn \in Lane, NEW lane \in Lane,
         NEW sector \in SectorsOf(drawn), NEW arm \in DOMAIN Arms
  PROVE  IsJob(Configured(slice, seed, lane, sector, arm))
         /\ Configured(slice, seed, lane, sector, arm).done = 0
<1> DEFINE c == Configured(slice, seed, lane, sector, arm)
<1>1. slice.start \in 0 .. Word - 1 /\ slice.range \in Nat \ {0} /\ 3 * slice.range <= Word
  BY SliceAssumption
<1>2. Arms[arm] \in Nat
  BY SizesAssumption
<1>3. /\ CoprimeStride(Arms[arm], slice.range) \in Nat
      /\ Coprime(CoprimeStride(Arms[arm], slice.range), slice.range)
  BY <1>1, <1>2, CoprimeStrideFacts
<1>4. sector \in Nat
  <2>1. 6 % Sectors \in Nat /\ 7 % Sectors \in Nat
    <3>1. Sectors \in Nat \ {0}
      BY SizesAssumption
    <3>2. \A y \in Nat : y % Sectors \in 0 .. Sectors - 1
      BY <3>1, ModIsBelow
    <3> QED  BY <3>1, <3>2
  <2>2. 0 .. Sectors - 1 \subseteq Nat
    BY SizesAssumption
  <2> QED  BY <2>1, <2>2 DEF SectorsOf
<1>5. seed \in 0 .. Word - 1 /\ BitXor(seed, Masks.offset) \in 0 .. Word - 1
  BY WordAssumption
<1>6. BitReverse(BitXor(seed, Masks.offset), Bits) \in 0 .. Word - 1
  <2> DEFINE x == BitXor(seed, Masks.offset)
  <2>1. x \in Nat /\ Bits \in 0 .. Bits
    BY <1>5, SizesAssumption, WordType
  <2> HIDE DEF x
  <2>2. BitReverse(x, Bits) \in 0 .. Pow2[Bits] - 1
    BY <2>1, ReversalOfBits
  <2> QED  BY <2>2 DEF Word, x
<1>7. c \in Job /\ c.range = slice.range /\ c.done = 0 /\ c.stride = CoprimeStride(Arms[arm], slice.range)
  BY <1>1, <1>3, <1>4, <1>5, <1>6 DEF Configured, Job
<1> QED  BY <1>1, <1>3, <1>7 DEF IsJob

LEMMA SplitIsJob ==
  ASSUME NEW j, IsJob(j), NEW peer \in Peer, NEW pick \in DOMAIN Claws
  PROVE  IsJob(Split(j, peer, pick)) /\ Split(j, peer, pick).done = j.done
<1> DEFINE arm    == SplitArm(j, peer)
           sector == SplitSector(peer, pick)
           stride == IF arm = j.arm THEN j.stride ELSE CoprimeStride(Arms[arm], j.range)
           offset == BitXor(j.offset, Masks.split[sector])
           lane   == SplitLane(j, peer)
<1>1. j \in Job /\ j.range \in Nat \ {0} /\ j.arm \in DOMAIN Arms /\ j.stride \in Nat
      /\ Coprime(j.stride, j.range) /\ j.lane \in Lane /\ j.offset \in 0 .. Word - 1
  BY DEF IsJob, Job
<1>2. arm \in DOMAIN Arms
  <2> DEFINE L == Len(Arms)
  <2>1. L \in Nat \ {0} /\ DOMAIN Arms = 1 .. L
    BY SizesAssumption, EmptySeq, LenProperties
  <2>2. j.arm + 4 \in Int
    BY <1>1, <2>1
  <2> DEFINE m == j.arm + 4
  <2>3. m % L \in 0 .. L - 1
    <3> HIDE DEF m, L
    <3> QED  BY <2>1, <2>2, ModIsBelow DEF m
  <2>4. arm = IF j.stride = peer.stride THEN (m % L) + 1 ELSE j.arm
    BY DEF SplitArm
  <2> HIDE DEF m, L, arm
  <2> QED  BY <1>1, <2>1, <2>3, <2>4
<1>3. sector \in 0 .. 7
  BY DEF SplitSector, Claws
<1>4. lane \in Lane
  <2>1. OddNode \in {0, 1} /\ j.lane \in Nat
    BY <1>1, SizesAssumption DEF Lane
  <2> DEFINE m == j.lane + 2 + OddNode
  <2>2. m % 6 \in 0 .. 6 - 1
    <3>1. m \in Nat
      BY <2>1
    <3> HIDE DEF m
    <3> QED  BY <3>1, ModIsBelow
  <2>3. lane = IF j.lane = peer.lane THEN m % 6 ELSE j.lane
    BY DEF SplitLane
  <2> HIDE DEF m, lane
  <2> QED  BY <1>1, <2>2, <2>3 DEF Lane
<1>5. offset \in 0 .. Word - 1
  <2>1. Masks.split[sector] \in 0 .. Word - 1
    BY <1>3, WordAssumption
  <2> QED  BY <1>1, <2>1, WordAssumption
<1>6. stride \in Nat /\ Coprime(stride, j.range)
  <2>1. Arms[arm] \in Nat
    BY <1>2, SizesAssumption
  <2> HIDE DEF arm
  <2> QED  BY <1>1, <2>1, CoprimeStrideFacts
<1>7. Split(j, peer, pick) = [j EXCEPT !.sector = sector, !.lane = lane, !.arm = arm,
                                       !.stride = stride, !.offset = offset]
  BY DEF Split
<1> HIDE DEF arm, sector, stride, offset, lane
<1>8. [j EXCEPT !.sector = sector, !.lane = lane, !.arm = arm,
                !.stride = stride, !.offset = offset] \in Job
  <2>1. sector \in Nat
    BY <1>3
  <2> QED  BY <1>1, <1>2, <1>4, <1>5, <1>6, <2>1 DEF Job
<1>9. /\ Split(j, peer, pick).range = j.range /\ Split(j, peer, pick).done = j.done
      /\ Split(j, peer, pick).stride = stride
  BY <1>1, <1>7 DEF Job
<1> QED  BY <1>6, <1>7, <1>8, <1>9 DEF IsJob

(* What a job has done does not change what its nonces are. *)
LEMMA SameNonces ==
  ASSUME NEW j \in Job, NEW d \in Nat
  PROVE  \A i : NextNonce([j EXCEPT !.done = d], i) = NextNonce(j, i)
<1> DEFINE e == [j EXCEPT !.done = d]
<1>1. /\ e.start = j.start /\ e.range = j.range /\ e.seed = j.seed /\ e.lane = j.lane
      /\ e.sector = j.sector /\ e.stride = j.stride /\ e.offset = j.offset
  BY DEF Job
<1> HIDE DEF e
<1>2. Phase(e) = Phase(j)
  BY <1>1 DEF Phase
<1>3. \A i : CenterOut(e, i) = CenterOut(j, i)
  BY <1>1 DEF CenterOut
<1>4. ASSUME NEW i PROVE Step(e, i) = Step(j, i)
  BY <1>1, <1>3 DEF Step
<1>5. ASSUME NEW i PROVE NextNonce(e, i) = NextNonce(j, i)
  BY <1>1, <1>2, <1>4 DEF NextNonce
<1> QED  BY <1>5 DEF e

LEMMA WalkStart == WalkInit => WalkInv
BY DEF WalkInit, WalkInv

LEMMA WalkStep == WalkInv /\ [WalkNext]_walkVars => WalkInv'
<1> SUFFICES ASSUME WalkInv, [WalkNext]_walkVars PROVE WalkInv'
  OBVIOUS
<1>1. CASE Accept
  <2>1. hashed = {} /\ splits = 0 /\ hashed' = hashed /\ splits' = splits
    BY <1>1 DEF Accept, WalkInv
  <2>2. IsJob(job') /\ job'.done = 0
    <3>1. PICK slice \in Slice, seed \in Seed, drawn \in Lane, arm \in DOMAIN Arms :
            \E sector \in SectorsOf(drawn), hint \in {drawn, 3, 4, 5} :
              LET alone == Configured(slice, seed, hint, sector, arm)
              IN \/ job' = alone
                 \/ \E peer \in Peer, pick \in DOMAIN Claws :
                      /\ MaxSplits > 0
                      /\ job' = Split(alone, peer, pick)
      BY <1>1 DEF Accept
    <3>2. PICK sector \in SectorsOf(drawn), hint \in {drawn, 3, 4, 5} :
            \/ job' = Configured(slice, seed, hint, sector, arm)
            \/ \E peer \in Peer, pick \in DOMAIN Claws :
                 job' = Split(Configured(slice, seed, hint, sector, arm), peer, pick)
      BY <3>1
    <3> DEFINE alone == Configured(slice, seed, hint, sector, arm)
    <3>3. hint \in Lane
      BY DEF Lane
    <3>4. IsJob(alone) /\ alone.done = 0
      BY <3>3, ConfiguredIsJob
    <3> HIDE DEF alone
    <3>5. job' = alone \/ \E peer \in Peer, pick \in DOMAIN Claws : job' = Split(alone, peer, pick)
      BY <3>2 DEF alone
    <3> QED  BY <3>4, <3>5, SplitIsJob
  <2>3. Reached(job') = {}
    <3>1. 0 .. job'.done - 1 = {}
      BY <2>2
    <3> QED  BY <3>1 DEF Reached
  <2>4. job' # None
    BY <2>2, NoJobAssumption DEF IsJob
  <2> QED  BY <2>1, <2>2, <2>3, <2>4, FS_EmptySet DEF WalkInv
<1>2. CASE Hash
  <2> DEFINE d == job.done
             x == NextNonce(job, d)
  <2>1. IsJob(job) /\ job # None /\ d < job.range /\ splits' = splits
    BY <1>2 DEF Hash, WalkInv
  <2>2. d \in 0 .. job.range - 1 /\ job.range \in Nat \ {0} /\ job \in Job
    BY <2>1 DEF IsJob, Job
  <2>3. job' = [job EXCEPT !.done = d + 1] /\ hashed' = hashed \union {x}
    BY <1>2 DEF Hash
  <2>4. /\ job' \in Job /\ job'.done = d + 1 /\ job'.range = job.range
        /\ job'.stride = job.stride
    BY <2>2, <2>3 DEF Job
  <2>5. IsJob(job') /\ job' # None
    BY <2>1, <2>2, <2>4, NoJobAssumption DEF IsJob
  <2>6. \A i : NextNonce(job', i) = NextNonce(job, i)
    <3> HIDE DEF d
    <3> QED  BY <2>2, <2>3, SameNonces
  <2>7. ASSUME splits = 0
        PROVE  hashed' = Reached(job') /\ IsFiniteSet(hashed') /\ Cardinality(hashed') = d + 1
    <3>1. hashed = Reached(job) /\ IsFiniteSet(hashed) /\ Cardinality(hashed) = d
      BY <2>1, <2>7 DEF WalkInv
    <3>2. x \notin hashed
      <4> SUFFICES ASSUME NEW i \in 0 .. d - 1, NextNonce(job, i) = NextNonce(job, d) PROVE FALSE
        BY <3>1 DEF Reached
      <4>1. i \in 0 .. job.range - 1 /\ i # d
        BY <2>2
      <4> HIDE DEF d
      <4> QED  BY <2>1, <2>2, <4>1, NoncesDiffer
    <3>3. Reached(job') = {NextNonce(job, i) : i \in 0 .. d}
      <4>1. (d + 1) - 1 = d
        BY <2>2
      <4> QED  BY <2>4, <2>6, <4>1 DEF Reached
    <3>4. 0 .. d = (0 .. d - 1) \union {d}
      BY <2>2
    <3>5. hashed' = Reached(job')
      <4> HIDE DEF d
      <4> QED  BY <2>3, <3>1, <3>3, <3>4 DEF Reached, d
    <3> HIDE DEF x
    <3>6. IsFiniteSet(hashed') /\ Cardinality(hashed') = d + 1
      BY <2>3, <3>1, <3>2, FS_AddElement
    <3> QED  BY <3>5, <3>6
  <2> QED  BY <2>1, <2>4, <2>5, <2>7 DEF WalkInv
<1>3. CASE TwinReceive
  <2>1. job # None /\ IsJob(job) /\ splits \in Nat /\ splits' = splits + 1
    BY <1>3 DEF TwinReceive, WalkInv
  <2>2. IsJob(job')
    BY <1>3, <2>1, SplitIsJob DEF TwinReceive
  <2>3. job' # None /\ splits' \in Nat /\ splits' # 0
    BY <2>1, <2>2, NoJobAssumption DEF IsJob
  <2> QED  BY <2>2, <2>3 DEF WalkInv
<1>4. CASE UNCHANGED walkVars
  BY <1>4 DEF walkVars, WalkInv, Reached
<1> QED  BY <1>1, <1>2, <1>3, <1>4 DEF WalkNext

(* However a job was configured and however often its walk was split for the
   twin: the order in which its lane visits the range is a permutation of the
   nonces that were assigned. *)
THEOREM WalksCoverRange == WalkSpec => []WalkCoversRange
<1>1. WalkInv => WalkCoversRange
  BY WalkIsPermutation DEF WalkInv, WalkCoversRange
<1> QED  BY <1>1, WalkStart, WalkStep, PTL DEF WalkSpec

(* A job that no J/T packet reached hashes no nonce twice, and has hashed all
   of its range when it ends. *)
THEOREM UndisturbedWalks == WalkSpec => []UndisturbedWalkIsExact
<1>1. WalkInv => UndisturbedWalkIsExact
  <2> SUFFICES ASSUME WalkInv, job # None, splits = 0
               PROVE  Cardinality(hashed) = job.done /\ (job.done = job.range => hashed = Assigned(job))
    BY DEF UndisturbedWalkIsExact
  <2>1. hashed = Reached(job) /\ Cardinality(hashed) = job.done /\ IsJob(job)
    BY DEF WalkInv
  <2>2. job.done = job.range => Reached(job) = Assigned(job)
    BY <2>1, WalkIsPermutation DEF Reached
  <2> QED  BY <2>1, <2>2
<1> QED  BY <1>1, WalkStart, WalkStep, PTL DEF WalkSpec
=============================================================================
