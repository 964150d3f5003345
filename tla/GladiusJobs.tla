----------------------------- MODULE GladiusJobs -----------------------------
(***************************************************************************)
(* How Gladius takes and hashes jobs (firmware/gladius/Gladius.ino). Four  *)
(* tasks on two cores share the current job and one queued slice: the      *)
(* parser applies what arrives, the miner hashes in batches and takes the  *)
(* queued slice, the status task makes a job of the node's own when it     *)
(* sees none, and the service task does so on command. jobMux covers each  *)
(* write of the job, but neither what is decided before it nor the cursor, *)
(* which the miner counts up outside of it.                                *)
(*                                                                         *)
(* A step is a critical section, or one access outside of them. A job ages *)
(* in three stages: its first 320 ms, up to 18 s, and beyond.              *)
(***************************************************************************)
EXTENDS Integers

CONSTANTS
  BuzzPacket,   (* J/B packets: [id, slice]; the id is the pool job's      *)
  CoreJob,      (* J/G packets of the same form                            *)
  SelfJob,      (* jobs that the node makes for itself, of the same form   *)
  NoPacket,
  JobRange,     (* nonces of a job                                         *)
  MinHashes     (* GLADIUS_JOBQ_MIN_HASHES                                 *)

ASSUME JobsAssumption ==
  /\ JobRange \in Nat \ {0} /\ MinHashes \in Nat
  /\ \A p \in BuzzPacket, q \in CoreJob \union SelfJob : p.id # q.id

VARIABLES
  currentJob,
  currentBuzz,   (* currentBuzzJobId, currentBuzzHeader, currentBuzzTarget *)
  running,       (* "none" without minerHasJob; else whose job it is, as   *)
                 (* currentJobIsSelf and currentJobIsBuzz tell             *)
  workerCursor,
  jobAge,        (* since minerJobStartedMs: "young", "held", "expired"    *)
  queuedBuzzJob, (* the queued packet, or NoPacket                         *)
  queueStale,    (* it is older than BUZZ_JOB_TIMEOUT_MS                   *)
  parser,        (* what the parser has decided: [does, packet]            *)
  status,        (* what the status task does next                         *)
  minerPc,       (* what the miner does next                               *)
  taken,         (* the packet the miner took from the queue               *)
  snap,          (* the miner's copy of the job: [job, kind, buzz]         *)
  index,         (* i, the miner's copy of workerCursor                    *)
  share          (* the share just sent: [as, names]                       *)

sharedVars == <<currentJob, currentBuzz, running, workerCursor, jobAge>>
queueVars == <<queuedBuzzJob, queueStale>>
gladiusMiner == <<minerPc, taken, snap, index, share>>
gladiusVars == <<sharedVars, queueVars, parser, status, gladiusMiner>>

Idle == [does |-> "listen", packet |-> NoPacket]
NoShare == [as |-> "none", names |-> NoPacket]
NoCopy == [job |-> NoPacket, kind |-> "none", buzz |-> NoPacket]

GladiusInit ==
  /\ currentJob = NoPacket /\ currentBuzz = NoPacket /\ running = "none"
  /\ workerCursor = 0 /\ jobAge = "young"
  /\ queuedBuzzJob = NoPacket /\ queueStale = FALSE
  /\ parser = Idle /\ status = "sleep"
  /\ minerPc = "promote" /\ taken = NoPacket /\ index = 0 /\ share = NoShare
  /\ snap = NoCopy

----------------------------------------------------------------------------
(* What the critical sections write. *)

Starts(job, kind) ==
  /\ currentJob' = job /\ running' = kind
  /\ workerCursor' = 0 /\ jobAge' = "young"

ApplyBuzzJob(p) ==
  Starts(p, "buzz") /\ currentBuzz' = p

(* makeSelfJob and makeDemoJob: the id is drawn at random. *)
MakeSelfJob ==
  (\E j \in SelfJob : Starts(j, "self")) /\ UNCHANGED currentBuzz

(* A job that has ended is cleared if the current one has its id still. *)
ClearIf(same) ==
  /\ running' = IF same THEN "none" ELSE running
  /\ UNCHANGED <<currentJob, currentBuzz, workerCursor, jobAge>>

----------------------------------------------------------------------------
(* The parser. *)

SameWork(p) == running = "buzz" /\ currentJob.id = p.id

KeepChewing == jobAge = "young" /\ workerCursor < MinHashes

(* applyBuzzJob looks at the job under the lock and decides; what it decides
   it does later. *)
OnBuzzJob ==
  /\ parser = Idle
  /\ \E p \in BuzzPacket :
       /\ ~(SameWork(p) /\ currentJob.slice = p.slice)
       /\ parser' = [does |-> IF SameWork(p) /\ KeepChewing THEN "queue" ELSE "apply",
                     packet |-> p]
  /\ UNCHANGED <<sharedVars, queueVars, status, gladiusMiner>>

ParserQueues ==
  /\ parser.does = "queue" /\ parser' = Idle
  /\ queuedBuzzJob' = parser.packet /\ queueStale' = FALSE
  /\ UNCHANGED <<sharedVars, status, gladiusMiner>>

ParserApplies ==
  /\ parser.does = "apply" /\ parser' = Idle
  /\ ApplyBuzzJob(parser.packet)
  /\ UNCHANGED <<queueVars, status, gladiusMiner>>

(* A discovery ping of Buzz finds no job ... *)
OnPing ==
  /\ parser = Idle /\ running = "none"
  /\ parser' = [Idle EXCEPT !.does = "self"]
  /\ UNCHANGED <<sharedVars, queueVars, status, gladiusMiner>>

(* ... and a self job is made, whatever the job is by now. *)
ParserMakesSelf ==
  /\ parser.does = "self" /\ parser' = Idle
  /\ MakeSelfJob
  /\ UNCHANGED <<queueVars, status, gladiusMiner>>

(* applyJob *)
OnCoreJob ==
  /\ parser = Idle
  /\ \E j \in CoreJob : Starts(j, "core")
  /\ UNCHANGED <<currentBuzz, queueVars, parser, status, gladiusMiner>>

----------------------------------------------------------------------------
(* The status task (ensureSelfJobFallback) and the service task. *)

StatusLooks ==
  /\ status = "sleep" /\ running = "none" /\ status' = "self"
  /\ UNCHANGED <<sharedVars, queueVars, parser, gladiusMiner>>

StatusMakesSelf ==
  /\ status = "self" /\ status' = "sleep" /\ MakeSelfJob
  /\ UNCHANGED <<queueVars, parser, gladiusMiner>>

(* The commands "self job" and "job demo". *)
CommandSelf ==
  /\ MakeSelfJob
  /\ UNCHANGED <<queueVars, parser, status, gladiusMiner>>

----------------------------------------------------------------------------
(* The miner. *)

(* The loop begins anew, with no copy of a job. *)
NextRound == minerPc' = "promote" /\ snap' = NoCopy /\ index' = 0

MayPromote ==
  ~SameWork(queuedBuzzJob) \/ jobAge # "young" \/ workerCursor >= MinHashes

(* gladiusPromoteQueuedBuzzJobIfReady takes the slice out of the queue ... *)
MinerPromotes ==
  /\ minerPc = "promote"
  /\ IF queuedBuzzJob # NoPacket /\ (queueStale \/ MayPromote)
     THEN /\ queuedBuzzJob' = NoPacket /\ queueStale' = FALSE
          /\ IF queueStale THEN minerPc' = "copy" /\ UNCHANGED taken
             ELSE minerPc' = "apply" /\ taken' = queuedBuzzJob
     ELSE minerPc' = "copy" /\ UNCHANGED <<queueVars, taken>>
  /\ UNCHANGED <<sharedVars, parser, status, snap, index, share>>

(* ... and applies it, whatever the job is by now. *)
MinerApplies ==
  /\ minerPc = "apply" /\ minerPc' = "copy" /\ taken' = NoPacket
  /\ ApplyBuzzJob(taken)
  /\ UNCHANGED <<queueVars, parser, status, snap, index, share>>

MinerCopies ==
  /\ minerPc = "copy"
  /\ IF running = "none" THEN minerPc' = "promote" /\ UNCHANGED snap
     ELSE /\ snap' = [job |-> currentJob, kind |-> running,
                     buzz |-> IF running = "buzz" THEN currentBuzz ELSE NoPacket]
          /\ minerPc' = IF running = "buzz" THEN "expire?" ELSE "batch"
  /\ UNCHANGED <<sharedVars, queueVars, parser, status, taken, index, share>>

MinerLooksAtAge ==
  /\ minerPc = "expire?"
  /\ minerPc' = IF jobAge = "expired" THEN "expire" ELSE "batch"
  /\ UNCHANGED <<sharedVars, queueVars, parser, status, taken, snap, index, share>>

MinerExpires ==
  /\ minerPc = "expire" /\ NextRound
  /\ ClearIf(currentJob.id = snap.job.id /\ running = "buzz")
  /\ UNCHANGED <<queueVars, parser, status, taken, share>>

BatchEnds ==
  /\ minerPc = "batch" /\ NextRound
  /\ UNCHANGED <<sharedVars, queueVars, parser, status, taken, share>>

(* i = workerCursor++: the parser's reset may come in between and is lost. *)
CursorRead ==
  /\ minerPc = "batch" /\ minerPc' = "count" /\ index' = workerCursor
  /\ UNCHANGED <<sharedVars, queueVars, parser, status, taken, snap, share>>

(* The nonce of index i is hashed, if there is one: it may be a share. The
   model counts no further than one past the range and its end. *)
CursorWrite ==
  /\ minerPc = "count"
  /\ workerCursor' = IF index > JobRange THEN index ELSE index + 1
  /\ IF index >= JobRange THEN minerPc' = "done"
     ELSE minerPc' \in {"batch", "share"}
  /\ index' = IF minerPc' = "share" THEN index ELSE 0
  /\ UNCHANGED <<currentJob, currentBuzz, running, jobAge,
                 queueVars, parser, status, taken, snap, share>>

RangeDone ==
  /\ minerPc = "done" /\ NextRound
  /\ ClearIf(currentJob.id = snap.job.id)
  /\ UNCHANGED <<queueVars, parser, status, taken, share>>

(* A bug: the share names the pool job of now. *)
ShareOfNow == snap.kind = "buzz" /\ share' = [as |-> "S2", names |-> currentBuzz]

(* sendBuzzSharePacket *)
BuzzShare == snap.kind = "buzz" /\ share' = [as |-> "S2", names |-> snap.buzz]

Send(packet) == minerPc' = "sent" /\ share' = packet

(* sendSharePacket: what is no self job, as the current one is marked ... *)
OtherShare ==
  /\ snap.kind # "buzz"
  /\ IF running = "self" THEN minerPc' = "self?" /\ UNCHANGED share
     ELSE Send([as |-> "GS", names |-> snap.job])

MinerShares ==
  /\ minerPc = "share"
  /\ \/ BuzzShare /\ minerPc' = "sent"
     \/ OtherShare
  /\ UNCHANGED <<sharedVars, queueVars, parser, status, taken, snap, index>>

(* ... goes out, and a self job's proof stays here if the current job has its
   id still. No lock is held from one look to the other. *)
SelfShare ==
  /\ minerPc = "self?"
  /\ Send(IF currentJob.id = snap.job.id THEN NoShare
          ELSE [as |-> "GS", names |-> snap.job])
  /\ UNCHANGED <<sharedVars, queueVars, parser, status, taken, snap, index>>

(* A pool job ends with its share, any other goes on. *)
ShareClears ==
  /\ minerPc = "sent" /\ snap.kind = "buzz" /\ NextRound /\ share' = NoShare
  /\ ClearIf(currentJob.id = snap.job.id /\ running = "buzz")
  /\ UNCHANGED <<queueVars, parser, status, taken>>

BatchGoesOn ==
  /\ minerPc = "sent" /\ snap.kind # "buzz" /\ minerPc' = "batch" /\ index' = 0
  /\ share' = NoShare
  /\ UNCHANGED <<sharedVars, queueVars, parser, status, taken, snap>>

----------------------------------------------------------------------------
(* Time. *)

JobGetsOlder ==
  /\ \/ jobAge = "young" /\ jobAge' = "held"
     \/ jobAge = "held" /\ jobAge' = "expired"
  /\ UNCHANGED <<currentJob, currentBuzz, running, workerCursor,
                 queueVars, parser, status, gladiusMiner>>

QueueGetsOlder ==
  /\ queuedBuzzJob # NoPacket /\ ~queueStale /\ queueStale' = TRUE
  /\ UNCHANGED <<sharedVars, queuedBuzzJob, parser, status, gladiusMiner>>

GladiusParserNext ==
  \/ OnBuzzJob \/ ParserQueues \/ ParserApplies \/ OnPing \/ ParserMakesSelf \/ OnCoreJob

GladiusMinerNext ==
  \/ MinerPromotes \/ MinerApplies \/ MinerCopies \/ MinerLooksAtAge \/ MinerExpires
  \/ BatchEnds \/ CursorRead \/ CursorWrite \/ RangeDone \/ MinerShares \/ SelfShare
  \/ ShareClears \/ BatchGoesOn

GladiusNext ==
  \/ GladiusParserNext \/ GladiusMinerNext
  \/ StatusLooks \/ StatusMakesSelf \/ CommandSelf
  \/ JobGetsOlder \/ QueueGetsOlder

GladiusSpec == GladiusInit /\ [][GladiusNext]_gladiusVars

----------------------------------------------------------------------------
(* Properties. *)

(* Whatever the tasks do to the job, the queue and the cursor while the miner
   works: a share that goes out names the job whose header and range it was
   hashed with, and its nonce is of that range. *)
ShareIsOfOnePacket ==
  share # NoShare =>
    /\ share.names = snap.job
    /\ share.as = "S2" <=> snap.kind = "buzz"
    /\ index < JobRange

(* "The proof of an internal self job is not sent as a G/S share, so that
   Buzz and Core do not take it for one of a real pool job." *)
SelfProofStaysHome == share.as = "GS" => snap.kind # "self"
=============================================================================
