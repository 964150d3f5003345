----------------------------- MODULE GolcronNode -----------------------------
(***************************************************************************)
(* Golcron (firmware/golcron): its job, whose range it divides into slices *)
(* that it takes in an order of its own, each along a path of its own; and *)
(* the search for the channel that Buzz sends on, which rests while there  *)
(* is a job or Buzz was heard.                                             *)
(*                                                                         *)
(* One loop() does it all. What hash functions and learnt scores choose -  *)
(* the order of the slices, the offset and the stride of a path - is       *)
(* chosen freely from what they can choose. A nonce is its distance from   *)
(* start_nonce.                                                            *)
(***************************************************************************)
EXTENDS Integers, FiniteSets, Sequences

CONSTANTS
  Packet,          (* J/B packets with a range: [id, range]                *)
  Small, SmallUpTo, Normal,    (* STAR_FORGE_SLICE_...: the sizes of slices *)
  Channels,        (* JANUS_SCAN_CHANNELS                                  *)
  RxSlots,         (* packets that rxQueue holds: RX_QUEUE_DEPTH - 1       *)
  MaxMoves         (* bound of the model: changes of Buzz's channel        *)

ASSUME SlicesAssumption ==
  /\ {Small, SmallUpTo, Normal} \subseteq Nat \ {0} /\ Small <= SmallUpTo
  /\ \A p \in Packet : p.range \in Nat \ {0}
  /\ Channels # <<>> /\ RxSlots \in Nat \ {0} /\ MaxMoves \in Nat

VARIABLES
  astrolabe,       (* AstrolabeJob job                                     *)
  late,            (* millis() - job.rxMs > JOB_TTL_MS                     *)
  heard,           (* buzzSeen && now - lastBuzzMs < 12000                 *)
  channel,         (* activeChannel                                        *)
  scanIndex,
  rxWaiting,       (* the packets in rxQueue; what they say is chosen when *)
                   (* they are handled                                     *)
  buzzChannel,     (* the channel that Buzz sends on                       *)
  moves,           (* history: how often it changed                        *)
  checked          (* history: the nonces of this job that were hashed     *)

astrolabeVars == <<astrolabe, late, checked>>
radioVars == <<heard, channel, scanIndex, rxWaiting>>
golcronVars == <<astrolabeVars, radioVars, buzzChannel, moves>>

Channel == {Channels[i] : i \in DOMAIN Channels}

NoAssignment == [active |-> FALSE, job |-> [id |-> 0, range |-> 0], cursor |-> 0,
          ordinal |-> 0, orderOffset |-> 0, orderStride |-> 1,
          sliceCursor |-> 0, offset |-> 0, stride |-> 1, replan |-> FALSE]

GolcronInit ==
  /\ astrolabe = NoAssignment /\ late = FALSE /\ checked = {}
  /\ heard = FALSE /\ channel = Channels[1] /\ scanIndex = 0 /\ rxWaiting = 0
  /\ buzzChannel \in Channel /\ moves = 0

----------------------------------------------------------------------------
(* The slices of a range. The two larger sizes of the code, for ranges of
   more than 262144, are left out. *)

SliceSpan(range) ==
  IF range <= Small THEN range ELSE IF range <= SmallUpTo THEN Small ELSE Normal

SliceCount(range) == (range + SliceSpan(range) - 1) \div SliceSpan(range)

SliceStart(a) ==
  (((a.ordinal * a.orderStride) + a.orderOffset) % SliceCount(a.job.range))
    * SliceSpan(a.job.range)

SliceSize(a) ==
  LET left == a.job.range - SliceStart(a)
  IN IF left < SliceSpan(a.job.range) THEN left ELSE SliceSpan(a.job.range)

Coprime(a, b) == \A d \in 2 .. b : a % d # 0 \/ b % d # 0

(* What makeCoprimeStride returns. *)
Strides(n) == IF n <= 1 THEN {1} ELSE {s \in 1 .. n - 1 : Coprime(s, n)}

Along(a, offset, stride) ==
  [a EXCEPT !.sliceCursor = 0, !.offset = offset, !.stride = stride, !.replan = FALSE]

(* starForgePrepareNextSlice: a path through the slice that is next. *)
Prepared(a) ==
  {Along(a, o, s) : o \in 0 .. SliceSize(a) - 1, s \in Strides(SliceSize(a))}

Ended(a) == [a EXCEPT !.ordinal = SliceCount(a.job.range), !.active = FALSE]

(* starForgeAdvanceSlice: the next slice, or the end of the range. *)
NextSlice(a) ==
  LET b == [a EXCEPT !.ordinal = @ + 1]
  IN IF b.ordinal < SliceCount(a.job.range) /\ SliceStart(b) < a.job.range
     THEN Prepared(b) ELSE {Ended(a)}

Ordered(p, offset, stride) ==
  [NoAssignment EXCEPT !.active = TRUE, !.job = p,
                       !.orderOffset = offset, !.orderStride = stride]

(* A new job: configureAstrolabePath. *)
Configured(p) ==
  UNION {Prepared(Ordered(p, o, s)) :
           o \in 0 .. SliceCount(p.range) - 1, s \in Strides(SliceCount(p.range))}

----------------------------------------------------------------------------
(* Packets. *)

(* The receive callback, at any time. A packet that finds the queue full is
   dropped. *)
PacketArrives ==
  /\ channel = buzzChannel /\ rxWaiting < RxSlots /\ rxWaiting' = rxWaiting + 1
  /\ UNCHANGED <<astrolabeVars, heard, channel, scanIndex, buzzChannel, moves>>

(* drainRxQueue() takes a packet, which may be of a channel left since. *)
Dequeued ==
  /\ rxWaiting > 0 /\ rxWaiting' = rxWaiting - 1
  /\ UNCHANGED <<channel, scanIndex, buzzChannel, moves>>

(* The packet after the last that one pass may handle is taken and not
   looked at. *)
OnePacketTooMany == Dequeued /\ UNCHANGED <<astrolabeVars, heard>>

Hears == Dequeued /\ heard' = TRUE

(* A ping of range 0, or a packet with a target of zero. *)
OnEmptyPacket == Hears /\ UNCHANGED astrolabeVars

(* The same assignment again: the job goes on where it stopped. *)
OnSameAssignment ==
  /\ Hears /\ astrolabe.job \in Packet
  /\ late' = FALSE
  /\ astrolabe' = IF astrolabe.cursor < astrolabe.job.range
                  THEN [astrolabe EXCEPT !.active = TRUE] ELSE astrolabe
  /\ UNCHANGED checked

OnNewAssignment ==
  /\ Hears
  /\ \E p \in Packet \ {astrolabe.job} : astrolabe' \in Configured(p)
  /\ late' = FALSE /\ checked' = {}

(* applyAgentReward, with a seed. *)
OnReward ==
  /\ Dequeued /\ astrolabe.job \in Packet
  /\ astrolabe' = [astrolabe EXCEPT !.replan = TRUE]
  /\ UNCHANGED <<late, checked, heard>>

----------------------------------------------------------------------------
(* loop() *)

(* A bug: a new path is taken at once. *)
ReplanNow ==
  /\ astrolabe.active /\ astrolabe.cursor < astrolabe.job.range
  /\ astrolabe' \in Prepared([astrolabe EXCEPT !.replan = TRUE])
  /\ UNCHANGED <<late, checked, radioVars, buzzChannel, moves>>

(* starForgeReforgeCurrent, button B or the command "g": the next path will
   be another one. *)
Replan ==
  /\ astrolabe.active /\ astrolabe.cursor < astrolabe.job.range
  /\ astrolabe' = [astrolabe EXCEPT !.replan = TRUE]
  /\ UNCHANGED <<late, checked, radioVars, buzzChannel, moves>>

(* runMinerSlice with a job past its time. *)
JobGoesStale ==
  /\ astrolabe.active /\ late
  /\ astrolabe' = [astrolabe EXCEPT !.active = FALSE]
  /\ UNCHANGED <<late, checked, radioVars, buzzChannel, moves>>

(* The nonce at the place a on its path. *)
Nonce(a) == SliceStart(a) + (((a.sliceCursor * a.stride) + a.offset) % SliceSize(a))

(* One nonce of runMinerSlice: the next of this slice, or the first of the
   next one. The job ends in the pass that has hashed all of its range. *)
MineNonce ==
  /\ astrolabe.active /\ ~late
  /\ \E a \in IF astrolabe.sliceCursor >= SliceSize(astrolabe) THEN NextSlice(astrolabe)
              ELSE {astrolabe} :
       IF a.active
       THEN LET b == [a EXCEPT !.cursor = @ + 1, !.sliceCursor = @ + 1]
            IN /\ checked' = checked \union {Nonce(a)}
               /\ astrolabe' = IF b.cursor >= b.job.range THEN Ended(b) ELSE b
       ELSE astrolabe' = a /\ UNCHANGED checked
  /\ UNCHANGED <<late, radioVars, buzzChannel, moves>>

(* A bug: the node searches only as long as it has heard nothing at all,
   and stays where it once heard Buzz. *)
ScanUntilHeard ==
  /\ ~heard /\ ~astrolabe.active /\ astrolabe.job = NoAssignment.job
  /\ scanIndex' = (scanIndex + 1) % Len(Channels)
  /\ channel' = Channels[scanIndex' + 1]
  /\ UNCHANGED <<astrolabeVars, heard, rxWaiting, buzzChannel, moves>>

(* channelScanTick, and the command "c" at any time. *)
ScanTick ==
  /\ ~heard /\ ~astrolabe.active
  /\ scanIndex' = (scanIndex + 1) % Len(Channels)
  /\ channel' = Channels[scanIndex' + 1]
  /\ UNCHANGED <<astrolabeVars, heard, rxWaiting, buzzChannel, moves>>

CommandCycle ==
  /\ scanIndex' = (scanIndex + 1) % Len(Channels)
  /\ channel' = Channels[scanIndex' + 1]
  /\ UNCHANGED <<astrolabeVars, heard, rxWaiting, buzzChannel, moves>>

CommandChannel ==
  /\ channel' \in Channel
  /\ UNCHANGED <<astrolabeVars, heard, scanIndex, rxWaiting, buzzChannel, moves>>

----------------------------------------------------------------------------
(* Time, and Buzz. A job is late after 6.5 s, before Buzz counts as silent. *)

JobGetsLate ==
  /\ astrolabe.job \in Packet /\ ~late /\ late' = TRUE
  /\ UNCHANGED <<astrolabe, checked, radioVars, buzzChannel, moves>>

BuzzFades ==
  /\ heard /\ (astrolabe.job \in Packet => late) /\ heard' = FALSE
  /\ UNCHANGED <<astrolabeVars, channel, scanIndex, rxWaiting, buzzChannel, moves>>

BuzzMoves ==
  /\ moves < MaxMoves /\ moves' = moves + 1
  /\ buzzChannel' \in Channel
  /\ UNCHANGED <<astrolabeVars, radioVars>>

GolcronNext ==
  \/ PacketArrives \/ OnePacketTooMany
  \/ OnEmptyPacket \/ OnSameAssignment \/ OnNewAssignment \/ OnReward
  \/ Replan \/ JobGoesStale \/ MineNonce
  \/ ScanTick \/ CommandCycle \/ CommandChannel
  \/ JobGetsLate \/ BuzzFades \/ BuzzMoves

GolcronSpec == GolcronInit /\ [][GolcronNext]_golcronVars

(* loop() runs and time passes; whether packets come is left open. *)
GolcronFairness ==
  /\ WF_golcronVars(JobGoesStale) /\ WF_golcronVars(MineNonce) /\ WF_golcronVars(ScanTick)
  /\ WF_golcronVars(JobGetsLate) /\ WF_golcronVars(BuzzFades)

----------------------------------------------------------------------------
(* Properties. *)

(* "noRepeat=1", "disjoint untouched slices": the cursor counts different
   nonces of the range, whatever replans, duplicates and interruptions there
   were, and a job that is not mined is late or has had all of them. *)
UnseenPathsOnly ==
  /\ checked \subseteq 0 .. astrolabe.job.range - 1
  /\ Cardinality(checked) = astrolabe.cursor
  /\ ~astrolabe.active => late \/ checked = 0 .. astrolabe.job.range - 1

(* The node comes upon Buzz's channel again and again, also when Buzz has
   moved in the middle of a job and commands move the node: no job, however
   long its range is, and no memory of Buzz keeps it elsewhere. *)
BuzzIsFound == []<>(channel = buzzChannel)
=============================================================================
