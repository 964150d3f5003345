------------------------------ MODULE P4Worker ------------------------------
(***************************************************************************)
(* One node of the P4 dual swarm core                                      *)
(* (firmware/p4_dual_swarm_core/JANUS_P4_DUAL_SWARM_CORE_v1_1.ino): the    *)
(* Arduino loop takes commands and JP4 frames, saves the state to flash    *)
(* and sends frames; the worker task hashes and verifies. They share gJob, *)
(* gStats and the queue of candidates under gMux, one critical section at  *)
(* a time, and gResetBest, gRole and gMode without it.                     *)
(*                                                                         *)
(* A hash is what went into it: two frames with the same inputs have the   *)
(* same digest, and a digest verifies exactly with the inputs it is of.    *)
(***************************************************************************)
EXTENDS Integers, Sequences

CONSTANTS
  JobSeed,       (* seeds of jobs                                          *)
  Role, Mode,    (* gRole and gMode                                        *)
  Verifying,     (* the modes that verify: VERIFY, MIRROR, RELAY           *)
  Mirroring,     (* the modes that mix the peer's job in: VERIFY, MIRROR   *)
  TopZ,          (* the most zero bits a hash has                          *)
  QueueSlots,    (* JANUS_VERIFY_QUEUE                                     *)
  MaxFrames      (* bound of the model: frames received                    *)

ASSUME QueueAssumption == QueueSlots \in Nat \ {0}

VARIABLES
  role, mode,
  gJob,          (* the job: its seed, and whether it is past its time     *)
  resetBest,     (* gResetBest                                             *)
  best,          (* the best hash of gStats: its z and what it is of       *)
  loopPc,        (* what the command in progress does next                 *)
  workerPc,      (* what the worker does next                              *)
  copy,          (* the worker's copy of gJob                              *)
  workMode,      (* the mode the worker goes by in this round              *)
  flash,         (* NVS: role, mode, best, and job or 0                    *)
  restored,      (* history: the best is from flash and was not reset yet  *)
  verifyQueue,   (* gVerifyQueue: a candidate or 0 in each slot            *)
  received,      (* candidates so far: they are 1, 2, ...; gVerifyHead     *)
  verified       (* history: the candidates the worker took                *)

jobState == <<gJob, resetBest, best, restored>>
queueVars == <<verifyQueue, received, verified>>
loopVars == <<role, mode, loopPc, flash>>
workerVars == <<workerPc, copy, workMode>>
p4Vars == <<jobState, queueVars, loopVars, workerVars>>

NoBest == [z |-> 0, of |-> 0, mirrored |-> FALSE, role |-> "none"]

P4Init ==
  \E r \in Role, m \in Mode, s \in JobSeed :
    /\ role = r /\ mode = m /\ gJob = [seed |-> s, old |-> FALSE]
    /\ resetBest = FALSE /\ best = NoBest /\ restored = FALSE
    /\ loopPc = "loop"
    /\ flash = [role |-> r, mode |-> m, best |-> NoBest, job |-> 0]
    /\ workerPc = "top" /\ copy = gJob /\ workMode = m
    /\ verifyQueue = [i \in 0 .. QueueSlots - 1 |-> 0] /\ received = 0 /\ verified = {}

----------------------------------------------------------------------------
(* The loop. *)

(* A command "job": setJob() under gMux, then gResetBest, then a save. *)
CommandJob ==
  /\ loopPc = "loop" /\ loopPc' = "flag"
  /\ \E s \in JobSeed : gJob' = [seed |-> s, old |-> FALSE]
  /\ UNCHANGED <<resetBest, best, restored, queueVars, workerVars, role, mode, flash>>

FlagJob ==
  /\ loopPc = "flag" /\ loopPc' = "save" /\ resetBest' = TRUE
  /\ UNCHANGED <<gJob, best, restored, queueVars, workerVars, role, mode, flash>>

CommandReset ==
  /\ loopPc = "loop" /\ resetBest' = TRUE
  /\ UNCHANGED <<gJob, best, restored, queueVars, workerVars, loopVars>>

CommandRole ==
  /\ loopPc = "loop" /\ loopPc' = "save" /\ role' \in Role /\ mode' \in Mode
  /\ UNCHANGED <<jobState, queueVars, workerVars, flash>>

(* savePersistentState, after a command or by the clock. Its keys are written
   one by one: the node may stop in between. *)
SaveState ==
  /\ loopPc \in {"loop", "save"} /\ loopPc' = "saveJob"
  /\ flash' = [role |-> role, mode |-> mode, best |-> best, job |-> flash.job]
  /\ UNCHANGED <<jobState, queueVars, workerVars, role, mode>>

SaveJob ==
  /\ loopPc = "saveJob" /\ loopPc' = "loop"
  /\ flash' = [flash EXCEPT !.job = gJob.seed]
  /\ UNCHANGED <<jobState, queueVars, workerVars, role, mode>>

(* emitJP4Frame: the best, with the seed of the job and the role of now. *)
Frame == [best |-> best, seed |-> gJob.seed, role |-> role]

(* parseJP4Frame of a good frame whose z is enough: queueVerify. *)
ReceiveFrame ==
  /\ loopPc = "loop" /\ received < MaxFrames
  /\ received' = received + 1
  /\ verifyQueue' = [verifyQueue EXCEPT ![received % QueueSlots] = received + 1]
  /\ UNCHANGED <<jobState, verified, loopVars, workerVars>>

JobAges ==
  /\ ~gJob.old /\ gJob' = [gJob EXCEPT !.old = TRUE]
  /\ UNCHANGED <<resetBest, best, restored, queueVars, loopVars, workerVars>>

(* A reset and setup(): the best and the job come back from flash, or
   the seed is drawn anew. *)
Reboot ==
  /\ role' = flash.role /\ mode' = flash.mode
  /\ \E s \in IF flash.job = 0 THEN JobSeed ELSE {flash.job} :
       gJob' = [seed |-> s, old |-> FALSE]
  /\ best' = flash.best /\ restored' = TRUE /\ resetBest' = FALSE
  /\ loopPc' = "loop"
  /\ workerPc' = "top" /\ copy' = gJob' /\ workMode' = flash.mode
  /\ verifyQueue' = [i \in DOMAIN verifyQueue |-> 0] /\ received' = 0 /\ verified' = {}
  /\ UNCHANGED flash

----------------------------------------------------------------------------
(* The worker. *)

ClearThenReset ==
  /\ workerPc = "top" /\ workerPc' = IF resetBest THEN "reset" ELSE "verify"
  /\ resetBest' = FALSE
  /\ UNCHANGED <<gJob, best, restored, queueVars, loopVars, copy, workMode>>

ResetBestOnly ==
  /\ workerPc = "reset" /\ workerPc' = "verify"
  /\ best' = NoBest /\ restored' = FALSE
  /\ UNCHANGED <<gJob, resetBest, queueVars, loopVars, copy, workMode>>

(* popVerify takes the first slot that is not empty, not the oldest one. *)
Waiting == {i \in DOMAIN verifyQueue : verifyQueue[i] # 0}

(* A bug: the queue is emptied for one candidate. *)
VerifyAndForget ==
  /\ workerPc = "verify" /\ workerPc' = "copy" /\ workMode' = mode
  /\ IF mode \in Verifying /\ Waiting # {}
     THEN LET i == CHOOSE i \in Waiting : \A j \in Waiting : i <= j
          IN /\ verified' = verified \union {verifyQueue[i]}
             /\ verifyQueue' = [k \in DOMAIN verifyQueue |-> 0]
     ELSE UNCHANGED <<verified, verifyQueue>>
  /\ UNCHANGED <<jobState, received, loopVars, copy>>

VerifyOneCandidate ==
  /\ workerPc = "verify" /\ workerPc' = "copy" /\ workMode' = mode
  /\ IF mode \in Verifying /\ Waiting # {}
     THEN LET i == CHOOSE i \in Waiting : \A j \in Waiting : i <= j
          IN /\ verified' = verified \union {verifyQueue[i]}
             /\ verifyQueue' = [verifyQueue EXCEPT ![i] = 0]
     ELSE UNCHANGED <<verified, verifyQueue>>
  /\ UNCHANGED <<jobState, received, loopVars, copy>>

(* A bug: the copy of the job takes the flag down with it. *)
CopyAndClear ==
  /\ workerPc = "copy" /\ copy' = gJob /\ resetBest' = FALSE
  /\ workerPc' = IF workMode \in {"RELAY", "IDLE"} THEN "top"
                 ELSE IF gJob.old THEN "expire" ELSE "hash"
  /\ UNCHANGED <<gJob, best, restored, queueVars, loopVars, workMode>>

(* The copy of the job; RELAY and IDLE hash nothing. *)
CopyJob ==
  /\ workerPc = "copy" /\ copy' = gJob
  /\ workerPc' = IF workMode \in {"RELAY", "IDLE"} THEN "top"
                 ELSE IF gJob.old THEN "expire" ELSE "hash"
  /\ UNCHANGED <<jobState, queueVars, loopVars, workMode>>

(* The copy is past its time: a local job takes the place of whatever gJob is
   by now. *)
SetLocalJob ==
  /\ workerPc = "expire" /\ workerPc' = "flag"
  /\ \E s \in JobSeed \ {copy.seed} :
       gJob' = [seed |-> s, old |-> FALSE] /\ copy' = [seed |-> s, old |-> FALSE]
  /\ UNCHANGED <<resetBest, best, restored, queueVars, loopVars, workMode>>

FlagLocalJob ==
  /\ workerPc = "flag" /\ workerPc' = "hash" /\ resetBest' = TRUE
  /\ UNCHANGED <<gJob, best, restored, queueVars, loopVars, copy, workMode>>

(* A batch: some hash in it may be a new best. *)
HashBatch ==
  /\ workerPc = "hash"
  /\ \/ workerPc' = "top" /\ UNCHANGED <<best, restored>>
     \/ /\ \E z \in best.z + 1 .. TopZ :
             best' = [z |-> z, of |-> copy.seed, mirrored |-> workMode \in Mirroring, role |-> role]
        /\ restored' = FALSE /\ UNCHANGED workerPc
  /\ UNCHANGED <<gJob, resetBest, queueVars, loopVars, copy, workMode>>

P4Next ==
  \/ CommandJob \/ FlagJob \/ CommandReset \/ CommandRole \/ SaveState \/ SaveJob
  \/ ReceiveFrame \/ JobAges \/ Reboot
  \/ ClearThenReset \/ ResetBestOnly \/ VerifyOneCandidate \/ CopyJob
  \/ SetLocalJob \/ FlagLocalJob \/ HashBatch

P4Spec == P4Init /\ [][P4Next]_p4Vars

----------------------------------------------------------------------------
(* Properties. *)

(* The best stands beside a job it is not of only while its reset is certain
   to come - the flag is up, about to go up, or just taken down - or after a
   reboot: no command that falls between the worker's steps is lost. *)
StaleBestIsTransient ==
  best.z > 0 /\ best.of # gJob.seed =>
    resetBest \/ restored \/ loopPc = "flag" \/ workerPc \in {"reset", "flag"}

(* A candidate waits until it is verified or as many as the queue has slots
   have come after it, whatever the order in which they are taken. *)
RecentCandidatesWait ==
  \A c \in 1 .. received :
    c > received - QueueSlots /\ c \notin verified =>
      \E i \in DOMAIN verifyQueue : verifyQueue[i] = c

(* "P4_B: Verifies peer frames" (README_P4_DUAL_SWARM_CORE.txt): a frame that
   was not altered holds what its digest is made of, so it verifies. *)
HonestFrameVerifies ==
  loopPc = "loop" /\ best.z > 0 =>
    /\ Frame.best.of = Frame.seed /\ ~Frame.best.mirrored
    /\ Frame.best.role = Frame.role
=============================================================================
