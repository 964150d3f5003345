----------------------------- MODULE BuzzColony -----------------------------
(***************************************************************************)
(* The job that Buzz publishes for its workers (firmware/buzz/Buzz.ino).   *)
(* Three tasks share it under the mutex xColonyJobLock: the miner task on  *)
(* core 0 mirrors each job of the pool and clears it when the connection   *)
(* is lost, the UI task on core 1 (colonyTick) broadcasts it in ranges of  *)
(* nonces, and the radio callback takes a snapshot of it for every share   *)
(* that a worker sends.                                                    *)
(*                                                                         *)
(* A critical section is two steps: its effect, which takes the mutex, and *)
(* Unlock. A task that finds the mutex taken for too long goes on without. *)
(***************************************************************************)
EXTENDS Integers, Sequences

CONSTANTS
  Nodes,            (* workers that are online                             *)
  Draw,             (* what esp_random() may draw for the cursor           *)
  NonceSpace,       (* number of nonces                                    *)
  WorkerRange,      (* JANUS_COLONY_WORKER_RANGE                           *)
  DiscoveryRange,   (* JANUS_COLONY_DISCOVERY_RANGE                        *)
  ShareQueue,       (* JANUS_COLONY_REMOTE_SHARE_QUEUE                     *)
  MaxJobs, MaxSessions, MaxRanges      (* bounds of the model              *)

(* The ranges of one job do not use up the nonces: there are 1024 discovery
   ranges, and 16 times as many of the others. *)
ASSUME RangeAssumption ==
  /\ {Nodes, MaxRanges} \subseteq Nat /\ NonceSpace \in Nat \ {0}
  /\ {WorkerRange, DiscoveryRange} \subseteq Nat \ {0}
  /\ Draw \subseteq 0 .. NonceSpace - 1
  /\ WorkerRange <= DiscoveryRange
  /\ (MaxRanges + Nodes) * DiscoveryRange < NonceSpace

VARIABLES
  lock,        (* the task that holds xColonyJobLock, or "free"            *)
  ready,       (* colonyMasterJobReady                                     *)
  master,      (* the published job: colonyMasterJobId, Header, Target     *)
  cursor,      (* colonyMasterNonceCursor                                  *)
  pending,     (* colonyMasterClearPending                                 *)
  miner,       (* what the miner task does next                            *)
  session,     (* the subscription (extranonce1) of the pool connection    *)
  live,        (* client.connected() and authorized                        *)
  work,        (* the job the miner hashes, or NoWork                       *)
  notified,    (* extranonce2: jobs received so far                        *)
  ui,          (* what the UI task does next                               *)
  round,       (* the broadcast in progress: its snapshot and its progress *)
  thermal,     (* janusThermalStop                                         *)
  shares,      (* colonyRemoteShareQueue: the job snapshots of the shares  *)
  handed,      (* history: the ranges sent to workers, in order            *)
  since        (* history: ranges sent when the cursor was last set        *)

minerVars == <<miner, session, live, work, notified>>
uiVars == <<ui, round, thermal, handed>>
jobVars == <<ready, master, cursor, pending, since>>
colonyVars == <<lock, jobVars, minerVars, uiVars, shares>>

NoWork == [session |-> 0, seq |-> 0]

ColonyInit ==
  /\ lock = "free" /\ ready = FALSE /\ master = NoWork /\ cursor = 0
  /\ pending = FALSE /\ since = 0
  /\ miner = "clear" /\ session = 0 /\ live = FALSE /\ work = NoWork /\ notified = 0
  /\ ui = "tick" /\ round = [job |-> NoWork, todo |-> 0, sent |-> 0] /\ thermal = FALSE
  /\ shares = <<>> /\ handed = <<>>

----------------------------------------------------------------------------
(* The mutex. *)

Lock(t) == lock = "free" /\ lock' = t

Busy(t) == lock \notin {"free", t} /\ UNCHANGED lock

Unlock(t) == lock = t /\ lock' = "free" /\ UNCHANGED <<jobVars, minerVars, uiVars, shares>>

(* A bug: a clear that finds the mutex taken is given up. *)
ForgottenClear(t) ==
  \/ /\ Lock(t)
     /\ ready' = FALSE /\ pending' = FALSE
     /\ master' = NoWork /\ cursor' = 0 /\ since' = Len(handed)
  \/ Busy(t) /\ UNCHANGED jobVars

(* colonyClearMasterJob: five attempts, or left to colonyTick(). *)
ClearMasterJob(t) ==
  \/ /\ Lock(t)
     /\ ready' = FALSE /\ pending' = FALSE
     /\ master' = NoWork /\ cursor' = 0 /\ since' = Len(handed)
  \/ /\ Busy(t)
     /\ pending' = TRUE /\ UNCHANGED <<ready, master, cursor, since>>

----------------------------------------------------------------------------
(* The miner task. *)

(* The thermal branch drops the connection and clears nothing. *)
MinerStops ==
  /\ thermal /\ miner = "loop" /\ lock # "miner"
  /\ live' = FALSE /\ work' = NoWork /\ miner' = "clear"
  /\ UNCHANGED <<lock, jobVars, uiVars, shares, session, notified>>

(* Wi-Fi or pool lost, client.reconnect, a timeout or a watchdog. *)
ConnectionEnds ==
  /\ ~thermal /\ miner = "loop" /\ live /\ lock # "miner"
  /\ live' = FALSE /\ work' = NoWork /\ miner' = "clear"
  /\ UNCHANGED <<lock, jobVars, uiVars, shares, session, notified>>

(* mining.set_extranonce: the connection stays, its jobs are void. *)
SetExtranonce ==
  /\ miner = "loop" /\ live /\ session < MaxSessions /\ lock # "miner"
  /\ session' = session + 1 /\ notified' = 0 /\ work' = NoWork /\ miner' = "clear"
  /\ UNCHANGED <<lock, jobVars, uiVars, shares, live>>

(* The disconnected branch clears in every pass, before it may connect. *)
MinerClears ==
  /\ miner = "clear" /\ (thermal => live) /\ ClearMasterJob("miner")
  /\ miner' = IF live THEN "loop" ELSE "connect"
  /\ UNCHANGED <<uiVars, shares, session, live, work, notified>>

Connect ==
  /\ miner = "connect" /\ lock # "miner"
  /\ \/ /\ session < MaxSessions
        /\ session' = session + 1 /\ live' = TRUE /\ notified' = 0 /\ miner' = "loop"
     \/ miner' = "clear" /\ UNCHANGED <<session, live, notified>>
  /\ UNCHANGED <<lock, jobVars, uiVars, shares, work>>

(* mining.notify *)
Notify ==
  /\ miner = "loop" /\ live /\ notified < MaxJobs /\ lock # "miner"
  /\ notified' = notified + 1
  /\ work' = [session |-> session, seq |-> notified']
  /\ miner' = "mirror"
  /\ UNCHANGED <<lock, jobVars, uiVars, shares, session, live>>

(* mirrorColonyJobForWorkers, or "job mirror skipped: lock busy". *)
Mirror ==
  /\ miner = "mirror" /\ miner' = "loop"
  /\ \/ /\ Lock("miner")
        /\ ready' = TRUE /\ master' = work /\ cursor' \in Draw /\ since' = Len(handed)
        /\ UNCHANGED pending
     \/ Busy("miner") /\ UNCHANGED jobVars
  /\ UNCHANGED <<uiVars, shares, session, live, work, notified>>

(* Relay a share of a worker: it is hashed again and submitted, or dropped as
   weak or duplicate. It need not be one of the job that is mined now. *)
Relay ==
  /\ miner = "loop" /\ live /\ work # NoWork /\ lock # "miner" /\ shares # <<>>
  /\ shares' = Tail(shares)
  /\ UNCHANGED <<lock, jobVars, minerVars, uiVars>>

MinerNext ==
  \/ MinerStops \/ ConnectionEnds \/ SetExtranonce \/ MinerClears \/ Connect
  \/ Notify \/ Mirror \/ Relay \/ Unlock("miner")

----------------------------------------------------------------------------
(* The UI task: janusThermalTick(), then colonyTick(). *)

EnterThermalStop ==
  /\ ui = "tick" /\ ~thermal /\ lock # "ui"
  /\ thermal' = TRUE /\ ui' = "clear"
  /\ UNCHANGED <<lock, jobVars, minerVars, shares, round, handed>>

ThermalClears ==
  /\ ui = "clear" /\ ClearMasterJob("ui") /\ ui' = "tick"
  /\ UNCHANGED <<minerVars, shares, round, thermal, handed>>

ExitThermalStop ==
  /\ ui = "tick" /\ thermal /\ lock # "ui" /\ thermal' = FALSE
  /\ UNCHANGED <<lock, jobVars, minerVars, shares, ui, round, handed>>

(* A bug: the clear that was left to colonyTick() is not ticked off. *)
EndlessClear ==
  /\ ui = "tick" /\ ~thermal /\ pending
  /\ Lock("ui")
  /\ ready' = FALSE /\ master' = NoWork /\ cursor' = 0 /\ since' = Len(handed)
  /\ UNCHANGED <<pending, minerVars, uiVars, shares>>

(* colonyTick() repeats the clear that was left to it. *)
PendingClear ==
  /\ ui = "tick" /\ ~thermal /\ pending /\ ClearMasterJob("ui")
  /\ UNCHANGED <<minerVars, uiVars, shares>>

(* broadcastColonyJob takes its snapshot under one hold of the mutex ... *)
BroadcastBegin ==
  /\ ui = "tick" /\ ~thermal /\ ~pending
  /\ Lock("ui")
  /\ ready /\ Len(handed) < MaxRanges
  /\ round' = [job |-> master, todo |-> Nodes, sent |-> 0] /\ ui' = "send"
  /\ UNCHANGED <<jobVars, minerVars, shares, thermal, handed>>

Ranged(size) == [job |-> round.job, start |-> cursor, size |-> size]

(* A bug: a discovery range is sent and the cursor stays. *)
CutUnicastOnly(size) ==
  /\ Lock("ui")
  /\ cursor' = IF size = WorkerRange THEN (cursor + size) % NonceSpace ELSE cursor
  /\ UNCHANGED <<ready, master, pending, since>>

(* ... and cuts each range from the cursor under another. *)
CutRange(size) ==
  /\ Lock("ui")
  /\ cursor' = (cursor + size) % NonceSpace
  /\ UNCHANGED <<ready, master, pending, since>>

(* One worker: its range is sent, or the mutex is taken and the worker is
   passed over. A frame that esp_now_send refuses is lost like one in the air,
   but does not count as sent. *)
SendUnicast ==
  /\ ui = "send" /\ round.todo > 0
  /\ \/ /\ CutRange(WorkerRange)
        /\ handed' = Append(handed, Ranged(WorkerRange))
        /\ \E ok \in {round.sent, 1} : round' = [round EXCEPT !.todo = @ - 1, !.sent = ok]
     \/ /\ Busy("ui") /\ UNCHANGED <<jobVars, handed>>
        /\ round' = [round EXCEPT !.todo = @ - 1]
  /\ UNCHANGED <<minerVars, shares, ui, thermal>>

(* A range for workers unknown so far if none was sent; else at most a ping
   of range 0, which moves no cursor. *)
Discover ==
  /\ ui = "send" /\ round.todo = 0 /\ ui' = "tick"
  /\ \/ /\ round.sent = 0 /\ CutRange(DiscoveryRange)
        /\ handed' = Append(handed, Ranged(DiscoveryRange))
     \/ /\ round.sent = 1 \/ Busy("ui")
        /\ lock # "ui" /\ UNCHANGED <<lock, jobVars, handed>>
  /\ round' = [job |-> NoWork, todo |-> 0, sent |-> 0]
  /\ UNCHANGED <<minerVars, shares, thermal>>

UINext ==
  \/ EnterThermalStop \/ ThermalClears \/ ExitThermalStop \/ PendingClear
  \/ BroadcastBegin \/ SendUnicast \/ Discover \/ Unlock("ui")

----------------------------------------------------------------------------
(* The radio callback. *)

(* A worker answers with a share of a job it was sent: the snapshot of the
   job is queued with it, or it is dropped. *)
OnShare ==
  \E i \in DOMAIN handed :
    /\ \/ /\ Lock("radio")
          /\ shares' = IF ready /\ master = handed[i].job /\ Len(shares) < ShareQueue
                       THEN Append(shares, master) ELSE shares
       \/ Busy("radio") /\ UNCHANGED shares
    /\ UNCHANGED <<jobVars, minerVars, uiVars>>

ColonyNext == MinerNext \/ UINext \/ OnShare \/ Unlock("radio")

ColonySpec == ColonyInit /\ [][ColonyNext]_colonyVars

(* Every task runs. A take of the mutex waits in its queue, so a task that
   tries again and again gets it (strong fairness of the UI's clear). *)
ColonyFairness ==
  /\ \A t \in {"miner", "ui", "radio"} : WF_colonyVars(Unlock(t))
  /\ WF_colonyVars(SendUnicast) /\ WF_colonyVars(Discover) /\ WF_colonyVars(ThermalClears)
  /\ SF_colonyVars(PendingClear /\ lock = "free")

ColonyFairSpec == ColonySpec /\ ColonyFairness

----------------------------------------------------------------------------
(* Properties. *)

(* A job of an earlier subscription is published only while its clear is
   certain to come: the miner is about to try it, or left it to the UI task.
   Three tasks and the mutex would have to fail together. *)
PublishedIsOfThisSession ==
  ready => master.session = session \/ pending \/ miner = "clear"

(* A clear that was left to colonyTick() comes, unless the node is too hot to
   work: "stale jobs do not survive transient mutex contention". *)
DeferredClearHappens == pending ~> (~pending \/ thermal)

Overlap(r, s) ==
  (s.start - r.start) % NonceSpace < r.size \/ (r.start - s.start) % NonceSpace < s.size

(* Ranges cut since the cursor was last set do not overlap, whoever set it and
   whatever job goes out with them: each holding of the mutex moves the cursor
   past the range it took. *)
RangesOfOneDrawAreDisjoint ==
  \A i, j \in since + 1 .. Len(handed) : i < j => ~Overlap(handed[i], handed[j])
=============================================================================
