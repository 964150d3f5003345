------------------------------ MODULE NonceWalk ------------------------------
(***************************************************************************)
(* The walk of the Anchor's miner over the nonces of its slice: six lanes, *)
(* each an order in which nextNonce visits the range, and the split that   *)
(* moves Anchor off the lane, sector and stride of its twin Gladius when   *)
(* the two report the same work (J/T packets).                             *)
(*                                                                         *)
(* Words have Bits bits; sums wrap around where the code computes them in  *)
(* uint32_t, and do not where it uses uint64_t.                            *)
(***************************************************************************)
EXTENDS Integers, FiniteSets, Sequences

CONSTANTS
  Bits,       (* 32                                                        *)
  Sectors,    (* MINER_SECTORS                                             *)
  Arms,       (* the values of strideArmValue, a sequence                  *)
  Attempts,   (* strides that janusCoprimeStride tries, 128                *)
  Slice,      (* slices of work: [start, range]                            *)
  Seed,       (* seeds drawn by configureMinerLane                         *)
  Masks,      (* the constants that are xored with seeds and offsets:
                 [offset, split, knight : Word]                            *)
  BitXor(_, _), (* a ^ b                                                     *)
  XorShift,   (* [Word -> Word], xorShift32                                *)
  OddNode,    (* workerId & 1                                              *)
  PeerSector, (* sectors and strides that the twin reports                 *)
  PeerStride,
  MaxSplits,  (* bound on the J/T packets that split a running job         *)
  None

(* Powers of two: 1 << k *)
Pow2[k \in 0 .. Bits] == IF k = 0 THEN 1 ELSE 2 * Pow2[k - 1]

Word == Pow2[Bits]

Lane == 0 .. 5

ASSUME SliceAssumption ==
  \A s \in Slice : s.start \in 0 .. Word - 1 /\ s.range \in Nat \ {0} /\ 3 * s.range <= Word
ASSUME SizesAssumption ==
  /\ Bits \in Nat /\ Attempts \in Nat /\ Sectors \in Nat \ {0} /\ OddNode \in {0, 1}
  /\ Arms \in Seq(Nat) /\ Arms # <<>>
ASSUME WordAssumption ==
  /\ Seed \subseteq 0 .. Word - 1
  /\ Masks \in [offset : 0 .. Word - 1, knight : 0 .. Word - 1,
                split : [0 .. 7 -> 0 .. Word - 1]]
  /\ \A x, y \in 0 .. Word - 1 : BitXor(x, y) \in 0 .. Word - 1
  /\ XorShift \in [0 .. Word - 1 -> 0 .. Word - 1]

VARIABLES
  job,     (* the running job, or None                                     *)
  hashed,  (* history: the nonces hashed for it                            *)
  splits   (* J/T packets that changed its walk                            *)

walkVars == <<job, hashed, splits>>

(* The parts of a running job that determine its nonces, and what it has done *)
Job == [start : 0 .. Word - 1, range : Nat \ {0}, seed : 0 .. Word - 1, lane : Lane,
        sector : Nat, arm : DOMAIN Arms, stride : Nat, offset : 0 .. Word - 1, done : Nat]

ASSUME NoJobAssumption == None \notin Job

----------------------------------------------------------------------------
(* janusCoprimeStride *)

Coprime(a, b) == \A d \in 2 .. b : a % d # 0 \/ b % d # 0

Odd(x) == IF x % 2 = 0 THEN x + 1 ELSE x

NextStride(stride, range) ==
  IF stride + 2 >= range THEN Odd((stride + 2) % range) ELSE stride + 2

Retried(stride, range) ==
  IF Coprime(stride, range) THEN stride ELSE NextStride(stride, range)

(* A bug: the stride of the arm is taken as it is. *)
ArmStride(stride, range) == stride

CoprimeStride(stride, range) ==
  LET nonzero == IF stride % range = 0 THEN 1 ELSE stride % range
      first   == IF range % 2 = 0 THEN Odd(nonzero) ELSE nonzero
      tried[k \in 0 .. Attempts] == IF k = 0 THEN first ELSE Retried(tried[k - 1], range)
      found   == tried[Attempts]
  IN IF range > 1 /\ Coprime(found, range) THEN found ELSE 1

(* bitReverse32(x) >> (32 - bits) *)
BitReverse(x, bits) ==
  LET reversed[k \in 0 .. bits] ==
        IF k = 0 THEN 0 ELSE 2 * reversed[k - 1] + ((x \div Pow2[k - 1]) % 2)
  IN reversed[bits]

PowerOfTwo(x) == \E k \in 0 .. Bits - 1 : x = Pow2[k]

Log2(x) == CHOOSE k \in 0 .. Bits - 1 : x = Pow2[k]

----------------------------------------------------------------------------
(* nextNonce *)

Phase(j) == ((j.range * j.sector) \div Sectors + (j.offset % j.range)) % j.range

(* A bug: the two arms of the walk meet in the centre. *)
CenterOutMeeting(j, index) ==
  LET center == j.range \div 2
      step   == index \div 2
  IN IF index % 2 = 1 THEN (center + step) % j.range
     ELSE (center + j.range - (step % j.range)) % j.range

CenterOut(j, index) ==
  LET center == j.range \div 2
      step   == (index + 1) \div 2
  IN IF index % 2 = 1 THEN (center + step) % j.range
     ELSE (center + j.range - (step % j.range)) % j.range

(* Where the walk of a lane is at its index-th hash, before the phase is added
   modulo the range. *)
Step(j, index) ==
  LET seed   == BitXor(j.seed, j.offset)
      stride == IF j.stride % j.range = 0 THEN 1 ELSE j.stride % j.range
      walk   == (index * stride) % j.range
  IN CASE j.lane = 1 -> (seed % j.range) + j.range - walk
       [] j.lane = 2 -> IF PowerOfTwo(j.range)
                        THEN BitReverse((index + (seed % j.range)) % j.range, Log2(j.range))
                        ELSE (seed % j.range) + walk
       [] j.lane = 3 -> CenterOut(j, index)
       [] j.lane = 4 -> (BitXor(seed, Masks.knight) % j.range) + walk
       [] j.lane = 5 -> (XorShift[seed] % j.range) + walk
       [] OTHER      -> index

NextNonce(j, i) ==
  IF j.range = 1 THEN j.start
  ELSE (j.start + (((Phase(j) + Step(j, i % j.range)) % Word) % j.range)) % Word

----------------------------------------------------------------------------
(* janusTwinApplyLaneSplit, for a packet of the twin that reports the same
   work. *)

Claws == <<6, 4, 2, 0>>

(* Which claw comes first depends on counters; no index is excluded. *)
SplitSector(peer, pick) ==
  IF Claws[pick] = peer.sector THEN Claws[(pick % 4) + 1] ELSE Claws[pick]

SplitLane(j, peer) ==
  IF j.lane = peer.lane THEN (j.lane + 2 + OddNode) % 6 ELSE j.lane

SplitArm(j, peer) ==
  IF j.stride = peer.stride THEN ((j.arm + 4) % Len(Arms)) + 1 ELSE j.arm

Split(j, peer, pick) ==
  LET arm    == SplitArm(j, peer)
      sector == SplitSector(peer, pick)
  IN [j EXCEPT !.sector = sector,
               !.lane   = SplitLane(j, peer),
               !.arm    = arm,
               !.stride = IF arm = j.arm THEN j.stride ELSE CoprimeStride(Arms[arm], j.range),
               !.offset = BitXor(@, Masks.split[sector])]

Peer == [lane : Lane, sector : PeerSector, stride : PeerStride]

----------------------------------------------------------------------------
(* configureMinerLane: the seed is entropy, and it and the agent's hints choose
   the lane, the sector of that lane, another lane, and the stride arm. *)

SectorsOf(lane) ==
  IF lane \in {0, 1} THEN {6 % Sectors}
  ELSE IF lane = 4 THEN {7 % Sectors}
  ELSE 0 .. Sectors - 1

Configured(slice, seed, lane, sector, arm) ==
  [start  |-> slice.start,
   range  |-> slice.range,
   seed   |-> seed,
   lane   |-> lane,
   sector |-> sector,
   arm    |-> arm,
   stride |-> CoprimeStride(Arms[arm], slice.range),
   offset |-> BitReverse(BitXor(seed, Masks.offset), Bits),
   done   |-> 0]

WalkInit ==
  /\ job = None
  /\ hashed = {}
  /\ splits = 0

(* A job that follows another starts like the first one. *)
Accept ==
  /\ job = None
  /\ \E slice \in Slice, seed \in Seed, drawn \in Lane, arm \in DOMAIN Arms :
       \E sector \in SectorsOf(drawn), hint \in {drawn, 3, 4, 5} :
         LET alone == Configured(slice, seed, hint, sector, arm)
         IN \/ job' = alone
            \/ \E peer \in Peer, pick \in DOMAIN Claws :
                 /\ MaxSplits > 0
                 /\ job' = Split(alone, peer, pick)
  /\ UNCHANGED <<hashed, splits>>

(* One hash of runMining *)
Hash ==
  /\ job # None
  /\ job.done < job.range
  /\ hashed' = hashed \union {NextNonce(job, job.done)}
  /\ job' = [job EXCEPT !.done = @ + 1]
  /\ UNCHANGED splits

(* janusTwinTaskReceive, when the job runs: the walk changes, what it has done
   is kept. *)
TwinReceive ==
  /\ job # None
  /\ job.done < job.range
  /\ splits < MaxSplits
  /\ \E peer \in Peer, pick \in DOMAIN Claws : job' = Split(job, peer, pick)
  /\ splits' = splits + 1
  /\ UNCHANGED hashed

WalkNext == Accept \/ Hash \/ TwinReceive

WalkSpec == WalkInit /\ [][WalkNext]_walkVars

----------------------------------------------------------------------------
(* Properties. *)

Assigned(j) == {(j.start + n) % Word : n \in 0 .. j.range - 1}

(* "every lane can walk the whole Buzz range" (Anchor_part_03.ino:3-6): for
   every seed, lane, sector and stride, also after splits, the order in which
   the lane would visit the range from its beginning is a permutation. *)
WalkCoversRange ==
  job # None => {NextNonce(job, i) : i \in 0 .. job.range - 1} = Assigned(job)

(* A job whose walk no J/T packet changed hashes no nonce twice, and has
   hashed its whole range when it ends. *)
UndisturbedWalkIsExact ==
  job # None /\ splits = 0 =>
    /\ Cardinality(hashed) = job.done
    /\ job.done = job.range => hashed = Assigned(job)

(* "without that repetition": no nonce is hashed twice for one job. The code
   does not keep it: a J/T packet changes the walk in the middle. *)
NoNonceTwice == job # None => Cardinality(hashed) = job.done
=============================================================================
