---------------------------- MODULE WorkersProofs ----------------------------
(***************************************************************************)
(* Proofs about two workers. A share of GladiusJobs is of one packet, for  *)
(* every range and all sets of packets: what names the share, what was     *)
(* hashed and the kind of the job are one copy, taken in one critical      *)
(* section, of three globals that every critical section writes together.  *)
(* A job of GolcronNode hashes each nonce of its range once, for every     *)
(* range: its slices are taken in an order that comes to each of them, and *)
(* each along a path that comes to each of its nonces.                     *)
(***************************************************************************)
EXTENDS GladiusJobs, GolcronNode, Basics

(* What the critical sections keep of the globals. *)
GlobalsInv ==
  /\ running = "buzz" => currentBuzz = currentJob
  /\ workerCursor \in Nat

(* What the miner's locals say while it works on a copy. *)
CopyOfOne ==
  /\ snap.kind = "buzz" => snap.buzz = snap.job
  /\ index \in Nat
  /\ minerPc \in {"share", "self?", "sent"} => index < JobRange
  /\ minerPc = "self?" => snap.kind # "buzz"

SentInv ==
  share # NoShare =>
    /\ minerPc = "sent" /\ share.names = snap.job
    /\ share.as = "S2" <=> snap.kind = "buzz"

OnePacketInv == GlobalsInv /\ CopyOfOne /\ SentInv

LEMMA OnePacketInit == GladiusInit => OnePacketInv
  BY DEF GladiusInit, OnePacketInv, GlobalsInv, CopyOfOne, SentInv, NoCopy, NoShare

(* Every writer of the job leaves the globals in agreement. *)
LEMMA StartsAgree ==
  ASSUME GlobalsInv,
         \/ \E p : ApplyBuzzJob(p)
         \/ MakeSelfJob
         \/ \E same : ClearIf(same)
         \/ (\E j \in CoreJob : Starts(j, "core")) /\ UNCHANGED currentBuzz
  PROVE  GlobalsInv'
  BY DEF GlobalsInv, ApplyBuzzJob, MakeSelfJob, ClearIf, Starts

(* The parser, the status task, the commands and time leave the miner's
   locals alone. *)
LEMMA OthersKeep ==
  ASSUME OnePacketInv,
         \/ GladiusParserNext \/ StatusLooks \/ StatusMakesSelf \/ CommandSelf
         \/ JobGetsOlder \/ QueueGetsOlder
  PROVE  OnePacketInv'
<1> USE DEF OnePacketInv
<1>1. CopyOfOne' /\ SentInv'
  BY DEF CopyOfOne, SentInv, GladiusParserNext, OnBuzzJob, ParserQueues, ParserApplies,
         OnPing, ParserMakesSelf, OnCoreJob, StatusLooks, StatusMakesSelf, CommandSelf,
         JobGetsOlder, QueueGetsOlder, gladiusMiner
<1>2. GlobalsInv'
  <2>1. CASE ParserApplies  BY <2>1, StartsAgree DEF ParserApplies
  <2>2. CASE ParserMakesSelf \/ StatusMakesSelf \/ CommandSelf
    BY <2>2, StartsAgree DEF ParserMakesSelf, StatusMakesSelf, CommandSelf
  <2>3. CASE OnCoreJob  BY <2>3, StartsAgree DEF OnCoreJob
  <2>4. CASE OnBuzzJob \/ ParserQueues \/ OnPing \/ StatusLooks \/ JobGetsOlder \/ QueueGetsOlder
    BY <2>4 DEF GlobalsInv, OnBuzzJob, ParserQueues, OnPing, StatusLooks, JobGetsOlder,
                QueueGetsOlder, sharedVars
  <2>5. QED  BY <2>1, <2>2, <2>3, <2>4 DEF GladiusParserNext
<1>3. QED  BY <1>1, <1>2

(* The steps of the miner that touch the job or the queue, but no nonce. *)
LEMMA MinerKeeps ==
  ASSUME OnePacketInv,
         \/ MinerPromotes \/ MinerApplies \/ MinerCopies \/ MinerLooksAtAge
         \/ MinerExpires \/ BatchEnds \/ RangeDone \/ ShareClears \/ BatchGoesOn
  PROVE  OnePacketInv'
<1> USE DEF OnePacketInv
<1>1. CASE MinerPromotes \/ MinerLooksAtAge
  BY <1>1 DEF MinerPromotes, MinerLooksAtAge, GlobalsInv, CopyOfOne, SentInv, sharedVars
<1>2. CASE MinerApplies
  <2>1. GlobalsInv'  BY <1>2, StartsAgree DEF MinerApplies
  <2>2. QED  BY <1>2, <2>1 DEF MinerApplies, CopyOfOne, SentInv
<1>3. CASE MinerCopies
  <2>1. GlobalsInv' /\ SentInv' /\ index' = index
    BY <1>3 DEF MinerCopies, GlobalsInv, SentInv, sharedVars
  <2>2. snap'.kind = "buzz" => snap'.buzz = snap'.job
    BY <1>3 DEF MinerCopies, GlobalsInv, CopyOfOne
  <2>3. minerPc' \notin {"share", "self?", "sent"}  BY <1>3 DEF MinerCopies
  <2>4. QED  BY <2>1, <2>2, <2>3 DEF CopyOfOne
<1>4. CASE MinerExpires \/ BatchEnds \/ RangeDone \/ ShareClears
  <2>1. GlobalsInv'
    <3>1. CASE BatchEnds  BY <3>1 DEF BatchEnds, GlobalsInv, sharedVars
    <3>2. CASE MinerExpires \/ RangeDone \/ ShareClears
      BY <3>2, StartsAgree DEF MinerExpires, RangeDone, ShareClears
    <3>3. QED  BY <1>4, <3>1, <3>2
  <2>2. NextRound /\ share' = NoShare
    BY <1>4 DEF MinerExpires, BatchEnds, RangeDone, ShareClears, SentInv
  <2>3. QED  BY <2>1, <2>2 DEF NextRound, NoCopy, CopyOfOne, SentInv
<1>5. CASE BatchGoesOn
  BY <1>5 DEF BatchGoesOn, GlobalsInv, CopyOfOne, SentInv, sharedVars
<1>6. QED  BY <1>1, <1>2, <1>3, <1>4, <1>5

(* The cursor and the share. *)
LEMMA NoncesKeep ==
  ASSUME OnePacketInv, CursorRead \/ CursorWrite \/ MinerShares \/ SelfShare
  PROVE  OnePacketInv'
<1> USE DEF OnePacketInv
<1>1. CASE CursorRead
  BY <1>1 DEF CursorRead, GlobalsInv, CopyOfOne, SentInv, sharedVars
<1>2. CASE CursorWrite
  <2>1. minerPc' = "share" => index < JobRange
    BY <1>2, JobsAssumption DEF CursorWrite, CopyOfOne
  <2>2. minerPc' \notin {"self?", "sent"} /\ minerPc # "sent"  BY <1>2 DEF CursorWrite
  <2>3. workerCursor' \in Nat /\ index' \in Nat /\ (minerPc' = "share" => index' = index)
    BY <1>2, JobsAssumption DEF CursorWrite, CopyOfOne
  <2>4. UNCHANGED <<currentJob, currentBuzz, running, snap, share>>
    BY <1>2 DEF CursorWrite
  <2>5. QED  BY <2>1, <2>2, <2>3, <2>4 DEF GlobalsInv, CopyOfOne, SentInv
<1>3. CASE MinerShares
  <2>1. GlobalsInv'
    BY <1>3 DEF MinerShares, GlobalsInv, sharedVars
  <2>2. CASE BuzzShare /\ minerPc' = "sent"
    BY <1>3, <2>1, <2>2 DEF MinerShares, BuzzShare, SentInv, CopyOfOne, NoShare
  <2>3. CASE OtherShare
    BY <1>3, <2>1, <2>3 DEF MinerShares, OtherShare, Send, SentInv, CopyOfOne, NoShare
  <2>4. QED  BY <1>3, <2>2, <2>3 DEF MinerShares
<1>4. CASE SelfShare
  BY <1>4 DEF SelfShare, Send, GlobalsInv, SentInv, CopyOfOne, NoShare, sharedVars
<1>5. QED  BY <1>1, <1>2, <1>3, <1>4

(* A share names the packet that the miner hashed, as the kind of packet it
   is, with a nonce of its range: ShareIsOfOnePacket always holds. *)
THEOREM ShareNamesItsWork == GladiusSpec => []ShareIsOfOnePacket
<1>1. OnePacketInv /\ [GladiusNext]_gladiusVars => OnePacketInv'
  <2>1. OnePacketInv /\ GladiusNext => OnePacketInv'
    BY OthersKeep, MinerKeeps, NoncesKeep DEF GladiusNext, GladiusMinerNext
  <2>2. OnePacketInv /\ UNCHANGED gladiusVars => OnePacketInv'
    BY DEF OnePacketInv, GlobalsInv, CopyOfOne, SentInv, gladiusVars, sharedVars, gladiusMiner
  <2>3. QED  BY <2>1, <2>2
<1>2. OnePacketInv => ShareIsOfOnePacket
  BY DEF OnePacketInv, CopyOfOne, SentInv, ShareIsOfOnePacket
<1>3. QED  BY OnePacketInit, <1>1, <1>2, PTL DEF GladiusSpec

----------------------------------------------------------------------------
(* The slices of a range: each nonce is in one of them, at a distance from its
   start that is below its size. *)

Part(n, x) == {y \in 0 .. n - 1 : y \div SliceSpan(n) = x}

SizeOf(n, x) ==
  LET left == n - x * SliceSpan(n)
  IN IF left < SliceSpan(n) THEN left ELSE SliceSpan(n)

LEMMA SpanFacts ==
  ASSUME NEW n \in Nat \ {0}
  PROVE  /\ SliceSpan(n) \in Nat \ {0} /\ SliceCount(n) \in Nat \ {0}
         /\ \A y \in 0 .. n - 1 : y \div SliceSpan(n) \in 0 .. SliceCount(n) - 1
         /\ \A x \in 0 .. SliceCount(n) - 1 : x * SliceSpan(n) < n
<1> DEFINE w == SliceSpan(n)
           c == SliceCount(n)
           m == (n + w) - 1
<1>1. w \in Nat \ {0}
  BY SlicesAssumption DEF SliceSpan
<1> HIDE DEF w
<1>2. m \in Nat /\ c = m \div w
  BY <1>1 DEF SliceCount, w
<1> HIDE DEF m, c
<1>3. c \in Nat /\ m % w \in 0 .. w - 1 /\ m = w * c + (m % w)
  BY <1>1, <1>2, Division
<1>4. w * c \in Nat /\ n <= w * c /\ w * c < n + w
  BY <1>1, <1>3 DEF m
<1>5. c # 0
  <2>1. c = 0 => w * c = 0
    BY <1>1
  <2> QED  BY <1>1, <1>4, <2>1
<1>6. ASSUME NEW y \in 0 .. n - 1 PROVE y \div w \in 0 .. c - 1
  <2>1. y \div w \in Nat /\ y % w \in 0 .. w - 1 /\ y = w * (y \div w) + (y % w)
    BY <1>1, Division
  <2>2. y \div w < c
    <3> SUFFICES ASSUME c <= y \div w PROVE FALSE
      BY <1>3, <2>1
    <3>1. w * c <= w * (y \div w)
      BY <1>1, <1>3, <2>1, Z3
    <3>2. w * (y \div w) \in Nat
      BY <1>1, <2>1
    <3> QED  BY <1>1, <1>4, <2>1, <3>1, <3>2
  <2> QED  BY <1>3, <2>1, <2>2
<1>7. ASSUME NEW x \in 0 .. c - 1 PROVE x * w < n
  <2>1. x * w <= w * c - w
    BY <1>1, <1>3, Z3
  <2>2. x * w \in Nat
    BY <1>1
  <2> QED  BY <1>1, <1>4, <2>1, <2>2
<1> QED  BY <1>1, <1>3, <1>5, <1>6, <1>7 DEF w, c

LEMMA PartFacts ==
  ASSUME NEW n \in Nat \ {0}, NEW x \in 0 .. SliceCount(n) - 1
  PROVE  /\ SizeOf(n, x) \in Nat \ {0} /\ x * SliceSpan(n) \in Nat
         /\ \A r \in 0 .. SizeOf(n, x) - 1 : x * SliceSpan(n) + r \in Part(n, x)
         /\ \A y \in Part(n, x) : \E r \in 0 .. SizeOf(n, x) - 1 : y = x * SliceSpan(n) + r
<1> DEFINE w == SliceSpan(n)
           c == SliceCount(n)
           s == x * w
           z == SizeOf(n, x)
<1>1. w \in Nat \ {0} /\ c \in Nat \ {0} /\ x * w < n
  BY SpanFacts
<1> HIDE DEF w, c
<1>2. s \in Nat /\ s < n /\ x \in Nat /\ s = w * x
  BY <1>1, Z3
<1>3. z = IF n - s < w THEN n - s ELSE w
  BY DEF SizeOf, w
<1> HIDE DEF s, z
<1>4. z \in Nat \ {0} /\ z <= w /\ s + z <= n
  BY <1>1, <1>2, <1>3
<1>5. ASSUME NEW r \in 0 .. z - 1 PROVE s + r \in Part(n, x)
  <2>1. r \in 0 .. w - 1 /\ s + r \in 0 .. n - 1
    BY <1>1, <1>2, <1>4
  <2>2. (w * x + r) \div w = x
    BY <1>1, <1>2, <2>1, Quotient
  <2> QED  BY <1>2, <2>1, <2>2 DEF Part, w
<1>6. ASSUME NEW y \in Part(n, x) PROVE \E r \in 0 .. z - 1 : y = s + r
  <2>1. y \in 0 .. n - 1 /\ y \div w = x
    BY DEF Part, w
  <2>2. y = w * (y \div w) + (y % w) /\ y % w \in 0 .. w - 1
    BY <1>1, <2>1, Division
  <2>3. y = s + (y % w)
    BY <1>2, <2>1, <2>2
  <2>4. y % w \in 0 .. z - 1
    BY <1>1, <1>2, <1>3, <2>1, <2>2, <2>3
  <2> QED  BY <2>3, <2>4
<1> QED  BY <1>2, <1>4, <1>5, <1>6 DEF s, z, w

(* What makeCoprimeStride returns leads to every residue once. *)
LEMMA StrideFacts ==
  ASSUME NEW n \in Nat \ {0}, NEW s \in Strides(n), NEW o \in Nat
  PROVE  /\ s \in Nat
         /\ \A i \in Nat : ((i * s) + o) % n \in 0 .. n - 1
         /\ \A i, j \in 0 .. n - 1 : ((i * s) + o) % n = ((j * s) + o) % n => i = j
         /\ \A r \in 0 .. n - 1 : \E i \in 0 .. n - 1 : r = ((i * s) + o) % n
<1>1. s \in Nat /\ \A d \in 2 .. n : s % d # 0 \/ n % d # 0
  BY DEF Strides, Coprime
<1>2. ASSUME NEW i \in Nat PROVE ((i * s) + o) % n \in 0 .. n - 1
  <2> DEFINE x == (i * s) + o
  <2>1. x \in Int
    BY <1>1
  <2> HIDE DEF x
  <2>2. x % n \in 0 .. n - 1
    BY <2>1, ModIsBelow
  <2> QED  BY <2>2 DEF x
<1>3. \A i, j \in 0 .. n - 1 : ((i * s) + o) % n = ((j * s) + o) % n => i = j
  BY <1>1, CoprimeWalk
<1> DEFINE f == [i \in 0 .. n - 1 |-> ((i * s) + o) % n]
<1>4. {f[i] : i \in 0 .. n - 1} = 0 .. n - 1
  <2>1. f \in [0 .. n - 1 -> 0 .. n - 1]
    BY <1>2
  <2>2. \A i, j \in 0 .. n - 1 : f[i] = f[j] => i = j
    BY <1>3
  <2> HIDE DEF f
  <2> QED  BY <2>1, <2>2, AllValues
<1>5. \A r \in 0 .. n - 1 : \E i \in 0 .. n - 1 : r = ((i * s) + o) % n
  BY <1>4
<1> QED  BY <1>1, <1>2, <1>3, <1>4, <1>5

----------------------------------------------------------------------------
(* What a job has hashed: the slices it is through with, and its path up to
   where it is. *)

(* The k-th slice that a job takes, and the nonce at a place of its path. *)
At(a, k) == ((k * a.orderStride) + a.orderOffset) % SliceCount(a.job.range)

Here(a) == At(a, a.ordinal)

NonceAt(a, i) ==
  Here(a) * SliceSpan(a.job.range)
    + (((i * a.stride) + a.offset) % SizeOf(a.job.range, Here(a)))

Through(a, k) == UNION {Part(a.job.range, At(a, l)) : l \in 0 .. k - 1}

Hashed(a) == Through(a, a.ordinal) \union {NonceAt(a, i) : i \in 0 .. a.sliceCursor - 1}

IsAssignment(a) ==
  a = [active |-> a.active, job |-> a.job, cursor |-> a.cursor,
       ordinal |-> a.ordinal, orderOffset |-> a.orderOffset, orderStride |-> a.orderStride,
       sliceCursor |-> a.sliceCursor, offset |-> a.offset, stride |-> a.stride,
       replan |-> a.replan]

IsPlan(a) ==
  /\ IsAssignment(a) /\ a.job \in Packet
  /\ a.orderOffset \in Nat /\ a.orderStride \in Strides(SliceCount(a.job.range))

IsInPath(a) ==
  /\ a.ordinal \in 0 .. SliceCount(a.job.range) - 1
  /\ a.sliceCursor \in 0 .. SizeOf(a.job.range, Here(a))
  /\ a.offset \in Nat /\ a.stride \in Strides(SizeOf(a.job.range, Here(a)))

(* b takes the slices in the order of a. *)
SamePlan(a, b) ==
  b.job = a.job /\ b.orderOffset = a.orderOffset /\ b.orderStride = a.orderStride

LEMMA PlanFacts ==
  ASSUME NEW a, IsPlan(a)
  PROVE  /\ a.job.range \in Nat \ {0} /\ SliceCount(a.job.range) \in Nat \ {0}
         /\ \A k \in Nat : /\ At(a, k) \in 0 .. SliceCount(a.job.range) - 1
                           /\ SizeOf(a.job.range, At(a, k)) \in Nat \ {0}
         /\ \A k, l \in 0 .. SliceCount(a.job.range) - 1 : At(a, k) = At(a, l) => k = l
         /\ \A x \in 0 .. SliceCount(a.job.range) - 1 :
              \E k \in 0 .. SliceCount(a.job.range) - 1 : x = At(a, k)
<1>1. a.job.range \in Nat \ {0}
  BY SlicesAssumption DEF IsPlan
<1>2. SliceCount(a.job.range) \in Nat \ {0}
  BY <1>1, SpanFacts
<1> DEFINE c == SliceCount(a.job.range)
<1>3. \A k : At(a, k) = ((k * a.orderStride) + a.orderOffset) % c
  BY DEF At
<1>4. a.orderOffset \in Nat /\ a.orderStride \in Strides(c)
  BY DEF IsPlan
<1> HIDE DEF c
<1> DEFINE s == a.orderStride
           o == a.orderOffset
<1>5. /\ \A k \in Nat : At(a, k) \in 0 .. c - 1
      /\ \A k, l \in 0 .. c - 1 : At(a, k) = At(a, l) => k = l
      /\ \A x \in 0 .. c - 1 : \E k \in 0 .. c - 1 : x = At(a, k)
  <2>1. c \in Nat \ {0} /\ s \in Strides(c) /\ o \in Nat /\ \A k : At(a, k) = ((k * s) + o) % c
    BY <1>2, <1>3, <1>4 DEF c
  <2> HIDE DEF s, o
  <2>2. /\ \A k \in Nat : ((k * s) + o) % c \in 0 .. c - 1
        /\ \A k, l \in 0 .. c - 1 : ((k * s) + o) % c = ((l * s) + o) % c => k = l
        /\ \A x \in 0 .. c - 1 : \E k \in 0 .. c - 1 : x = ((k * s) + o) % c
    BY <2>1, StrideFacts
  <2>3. \A x \in 0 .. c - 1 : \E k \in 0 .. c - 1 : x = At(a, k)
    BY <2>1, <2>2
  <2>4. \A k \in Nat : At(a, k) \in 0 .. c - 1
    BY <2>1, <2>2
  <2>5. ASSUME NEW k \in 0 .. c - 1, NEW l \in 0 .. c - 1, At(a, k) = At(a, l) PROVE k = l
    BY <2>1, <2>2, <2>5
  <2> QED  BY <2>2, <2>3, <2>4, <2>5
<1>6. \A k \in Nat : SizeOf(a.job.range, At(a, k)) \in Nat \ {0}
  BY <1>1, <1>5, PartFacts DEF c
<1> QED  BY <1>1, <1>2, <1>5, <1>6 DEF c

(* The slice a path is in. *)
LEMMA HereFacts ==
  ASSUME NEW a, IsPlan(a), a.ordinal \in 0 .. SliceCount(a.job.range) - 1
  PROVE  /\ Here(a) \in 0 .. SliceCount(a.job.range) - 1
         /\ SliceStart(a) = Here(a) * SliceSpan(a.job.range)
         /\ SliceStart(a) \in Nat /\ SliceStart(a) < a.job.range
         /\ SliceSize(a) = SizeOf(a.job.range, Here(a))
         /\ SliceSize(a) \in Nat \ {0}
         /\ Nonce(a) = NonceAt(a, a.sliceCursor)
<1>1. Here(a) \in 0 .. SliceCount(a.job.range) - 1 /\ a.job.range \in Nat \ {0}
  BY PlanFacts DEF Here
<1>2. SliceStart(a) = Here(a) * SliceSpan(a.job.range)
  BY DEF SliceStart, Here, At
<1>3. SliceSize(a) = SizeOf(a.job.range, Here(a))
  BY <1>2 DEF SliceSize, SizeOf
<1>4. SliceStart(a) \in Nat /\ SliceStart(a) < a.job.range /\ SliceSize(a) \in Nat \ {0}
  BY <1>1, <1>2, <1>3, PartFacts, SpanFacts, ZenonT(60)
<1> QED  BY <1>1, <1>2, <1>3, <1>4 DEF Nonce, NonceAt

(* A path stays in its slice, comes to no nonce twice and to all of them. *)
LEMMA PathFacts ==
  ASSUME NEW a, IsPlan(a), IsInPath(a)
  PROVE  LET z == SizeOf(a.job.range, Here(a))
         IN /\ \A i \in Nat : NonceAt(a, i) \in Part(a.job.range, Here(a))
            /\ \A i, j \in 0 .. z - 1 : NonceAt(a, i) = NonceAt(a, j) => i = j
            /\ {NonceAt(a, i) : i \in 0 .. z - 1} = Part(a.job.range, Here(a))
<1> DEFINE n == a.job.range
           x == Here(a)
           z == SizeOf(n, x)
           s == x * SliceSpan(n)
           p(i) == ((i * a.stride) + a.offset) % z
<1>1. n \in Nat \ {0} /\ x \in 0 .. SliceCount(n) - 1
  BY PlanFacts, HereFacts DEF IsInPath
<1>2. /\ z \in Nat \ {0} /\ s \in Nat
      /\ \A r \in 0 .. z - 1 : s + r \in Part(n, x)
      /\ \A y \in Part(n, x) : \E r \in 0 .. z - 1 : y = s + r
  <2> HIDE DEF n, x
  <2> QED  BY <1>1, PartFacts
<1>3. \A i : NonceAt(a, i) = s + p(i)
  BY DEF NonceAt
<1>4. a.offset \in Nat /\ a.stride \in Strides(z)
  BY DEF IsInPath
<1> HIDE DEF z, s, n, x
<1> DEFINE t == a.stride
           o == a.offset
<1>5. /\ \A i \in Nat : p(i) \in 0 .. z - 1
      /\ \A i, j \in 0 .. z - 1 : p(i) = p(j) => i = j
      /\ \A r \in 0 .. z - 1 : \E i \in 0 .. z - 1 : r = p(i)
  <2>1. \A i : p(i) = ((i * t) + o) % z
    OBVIOUS
  <2>6. t \in Strides(z) /\ o \in Nat
    BY <1>4
  <2> HIDE DEF p, t, o
  <2>0. z \in Nat \ {0}
    BY <1>2
  <2>2. /\ \A i \in Nat : ((i * t) + o) % z \in 0 .. z - 1
        /\ \A i, j \in 0 .. z - 1 : ((i * t) + o) % z = ((j * t) + o) % z => i = j
        /\ \A r \in 0 .. z - 1 : \E i \in 0 .. z - 1 : r = ((i * t) + o) % z
    BY <2>0, <2>6, StrideFacts
  <2>3. \A r \in 0 .. z - 1 : \E i \in 0 .. z - 1 : r = p(i)
    BY <2>1, <2>2
  <2>4. \A i \in Nat : p(i) \in 0 .. z - 1
    BY <2>1, <2>2
  <2>5. ASSUME NEW i \in 0 .. z - 1, NEW j \in 0 .. z - 1, p(i) = p(j) PROVE i = j
    BY <2>1, <2>2, <2>5
  <2> QED  BY <2>2, <2>3, <2>4, <2>5
<1> HIDE DEF p
<1>6. \A i \in Nat : NonceAt(a, i) \in Part(n, x)
  <2> SUFFICES ASSUME NEW i \in Nat PROVE NonceAt(a, i) \in Part(n, x)
    OBVIOUS
  <2>1. NonceAt(a, i) = s + p(i) /\ p(i) \in 0 .. z - 1
    BY <1>3, <1>5
  <2> QED  BY <1>2, <2>1
<1>7. ASSUME NEW i \in 0 .. z - 1, NEW j \in 0 .. z - 1, NonceAt(a, i) = NonceAt(a, j)
      PROVE  i = j
  <2>1. p(i) \in 0 .. z - 1 /\ p(j) \in 0 .. z - 1 /\ s + p(i) = s + p(j)
    BY <1>3, <1>5, <1>7
  <2>2. p(i) = p(j)
    BY <1>2, <2>1
  <2> QED  BY <1>5, <2>2
<1>8. ASSUME NEW y \in Part(n, x) PROVE \E i \in 0 .. z - 1 : y = NonceAt(a, i)
  <2>1. PICK r \in 0 .. z - 1 : y = s + r
    BY <1>2
  <2>2. PICK i \in 0 .. z - 1 : r = p(i)
    BY <1>5
  <2> QED  BY <1>3, <2>1, <2>2
<1>9. {NonceAt(a, i) : i \in 0 .. z - 1} = Part(n, x)
  <2>1. \A i \in 0 .. z - 1 : i \in Nat
    OBVIOUS
  <2> QED  BY <1>6, <1>8, <2>1
<1> QED  BY <1>6, <1>7, <1>9 DEF z, n, x

LEMMA HashedIsInRange ==
  ASSUME NEW a, IsPlan(a), IsInPath(a)
  PROVE  Hashed(a) \subseteq 0 .. a.job.range - 1
<1>1. \A i \in 0 .. a.sliceCursor - 1 : i \in Nat
  OBVIOUS
<1> QED
  BY <1>1, PathFacts DEF Hashed, Through, Part

(* The next nonce of a path. *)
LEMMA NonceIsNew ==
  ASSUME NEW a, IsPlan(a), IsInPath(a), a.sliceCursor < SliceSize(a)
  PROVE  Nonce(a) \notin Hashed(a) /\ Nonce(a) \in 0 .. a.job.range - 1
<1> DEFINE n == a.job.range
           z == SizeOf(n, Here(a))
<1>1. /\ SliceSize(a) = z /\ z \in Nat \ {0} /\ Nonce(a) = NonceAt(a, a.sliceCursor)
      /\ a.sliceCursor \in 0 .. z /\ a.ordinal \in 0 .. SliceCount(n) - 1
  BY HereFacts DEF IsInPath
<1> HIDE DEF z
<1>2. a.sliceCursor \in 0 .. z - 1 /\ \A i \in 0 .. a.sliceCursor - 1 : i \in 0 .. z - 1 /\ i # a.sliceCursor
  BY <1>1
<1>3. /\ Nonce(a) \in Part(n, Here(a))
      /\ \A i \in 0 .. a.sliceCursor - 1 : NonceAt(a, i) # Nonce(a)
  BY <1>1, <1>2, PathFacts DEF z
<1>4. \A l \in 0 .. a.ordinal - 1 : Nonce(a) \notin Part(n, At(a, l))
  <2> SUFFICES ASSUME NEW l \in 0 .. a.ordinal - 1, Nonce(a) \in Part(n, At(a, l))
               PROVE  FALSE
    OBVIOUS
  <2>1. At(a, l) = At(a, a.ordinal)
    BY <1>3 DEF Part, Here
  <2>2. l \in 0 .. SliceCount(n) - 1 /\ l # a.ordinal
    BY <1>1, PlanFacts, SMTT(30)
  <2> QED  BY <1>1, <2>1, <2>2, PlanFacts
<1> QED  BY <1>3, <1>4 DEF Hashed, Through, Part

(* A path at its end. *)
LEMMA SliceIsDone ==
  ASSUME NEW a, IsPlan(a), IsInPath(a), a.sliceCursor >= SliceSize(a)
  PROVE  /\ Hashed(a) = Through(a, a.ordinal + 1)
         /\ a.ordinal + 1 = SliceCount(a.job.range) => Hashed(a) = 0 .. a.job.range - 1
<1> DEFINE n == a.job.range
           z == SizeOf(n, Here(a))
           c == SliceCount(n)
<1>1. /\ SliceSize(a) = z /\ z \in Nat \ {0} /\ a.ordinal \in 0 .. c - 1
      /\ a.sliceCursor \in 0 .. z
  BY HereFacts DEF IsInPath
<1>2. n \in Nat \ {0} /\ c \in Nat \ {0}
      /\ \A x \in 0 .. c - 1 : \E k \in 0 .. c - 1 : x = At(a, k)
  BY PlanFacts
<1> HIDE DEF z, c, n
<1>3. a.sliceCursor = z
  BY <1>1
<1>4. {NonceAt(a, i) : i \in 0 .. a.sliceCursor - 1} = Part(n, Here(a))
  BY <1>3, PathFacts DEF z, n
<1>5. 0 .. (a.ordinal + 1) - 1 = (0 .. a.ordinal - 1) \union {a.ordinal}
  BY <1>1, <1>2
<1>6. Hashed(a) = Through(a, a.ordinal + 1)
  BY <1>4, <1>5 DEF Hashed, Through, Here, n
<1>7. ASSUME a.ordinal + 1 = c, NEW y \in 0 .. n - 1
      PROVE  y \in Hashed(a)
  <2>1. y \div SliceSpan(n) \in 0 .. c - 1
    BY <1>2, SpanFacts DEF c
  <2>2. PICK k \in 0 .. c - 1 : y \div SliceSpan(n) = At(a, k)
    BY <1>2, <2>1
  <2>3. k \in 0 .. (a.ordinal + 1) - 1
    BY <1>1, <1>2, <1>7
  <2> QED  BY <1>6, <2>2, <2>3 DEF Through, Part, n
<1> QED  BY <1>6, <1>7, HashedIsInRange DEF c, n

----------------------------------------------------------------------------
(* A job and what was hashed for it: nothing twice, and, while something is
   left, what its plan says. *)

IsMined(a) ==
  /\ IsPlan(a)
  /\ checked \subseteq 0 .. a.job.range - 1 /\ a.cursor = Cardinality(checked)
  /\ a.cursor < a.job.range => IsInPath(a) /\ checked = Hashed(a)
  /\ a.active => a.cursor < a.job.range
  /\ ~a.active => late \/ a.cursor = a.job.range

GolcronInv ==
  \/ astrolabe = NoAssignment /\ checked = {}
  \/ IsMined(astrolabe)

LEMMA NoAssignmentIsIdle ==
  ~NoAssignment.active /\ NoAssignment.job \notin Packet /\ NoAssignment.job.range = 0
    /\ NoAssignment.cursor = 0
<1>1. NoAssignment.job.range = 0
  BY DEF NoAssignment
<1> QED  BY <1>1, SlicesAssumption DEF NoAssignment

LEMMA CheckedFacts ==
  ASSUME NEW a, IsMined(a)
  PROVE  /\ IsFiniteSet(checked) /\ a.cursor \in Nat /\ a.cursor <= a.job.range
         /\ a.cursor = a.job.range => checked = 0 .. a.job.range - 1
<1> DEFINE n == a.job.range
<1>1. n \in Nat \ {0}
  BY PlanFacts DEF IsMined
<1>2. IsFiniteSet(0 .. n - 1) /\ Cardinality(0 .. n - 1) = n
  BY <1>1, IntervalSize
<1>3. checked \in SUBSET (0 .. n - 1) /\ a.cursor = Cardinality(checked)
  BY DEF IsMined
<1> HIDE DEF n
<1>4. /\ IsFiniteSet(checked) /\ Cardinality(checked) <= n
      /\ n = Cardinality(checked) => 0 .. n - 1 = checked
  BY <1>2, <1>3, FS_Subset
<1>5. Cardinality(checked) \in Nat
  BY <1>4, FS_CardinalityType
<1> QED  BY <1>3, <1>4, <1>5 DEF n

(* A path prepared for a slice. *)
LEMMA PreparedFacts ==
  ASSUME NEW a, IsPlan(a), a.ordinal \in 0 .. SliceCount(a.job.range) - 1,
         NEW b \in Prepared(a)
  PROVE  /\ IsPlan(b) /\ IsInPath(b) /\ b.sliceCursor = 0
         /\ b.active = a.active /\ b.job = a.job /\ b.cursor = a.cursor
         /\ Hashed(b) = Through(a, a.ordinal)
         /\ b.sliceCursor < SliceSize(b)
<1>1. PICK o \in 0 .. SliceSize(a) - 1, s \in Strides(SliceSize(a)) :
        b = Along(a, o, s)
  BY DEF Prepared
<1>2. DOMAIN a = {"active", "job", "cursor", "ordinal", "orderOffset", "orderStride",
                  "sliceCursor", "offset", "stride", "replan"}
  BY DEF IsPlan, IsAssignment
<1>3. /\ b.active = a.active /\ b.job = a.job /\ b.cursor = a.cursor
      /\ b.ordinal = a.ordinal /\ b.orderOffset = a.orderOffset
      /\ b.orderStride = a.orderStride
      /\ b.sliceCursor = 0 /\ b.offset = o /\ b.stride = s /\ DOMAIN b = DOMAIN a
  BY <1>1, <1>2 DEF Along
<1>4. IsAssignment(b)
  BY <1>1, <1>2, <1>3 DEF IsAssignment, Along
<1>5. \A k : At(b, k) = At(a, k)
  BY <1>3 DEF At
<1>6. IsPlan(b)
  BY <1>3, <1>4 DEF IsPlan
<1>7. Here(b) = Here(a)
  BY <1>3, <1>5 DEF Here
<1>8. SliceSize(a) = SizeOf(a.job.range, Here(a)) /\ SliceSize(a) \in Nat \ {0}
  BY HereFacts
<1>9. SliceSize(b) = SliceSize(a)
  BY <1>3, <1>6, <1>7, <1>8, HereFacts
<1>10. IsInPath(b)
  BY <1>3, <1>7, <1>8 DEF IsInPath
<1>11. Hashed(b) = Through(a, a.ordinal)
  BY <1>3, <1>5 DEF Hashed, Through
<1> QED  BY <1>3, <1>6, <1>8, <1>9, <1>10, <1>11

(* A nonce further on a path. *)
LEMMA HashedGrows ==
  ASSUME NEW a, IsPlan(a), IsInPath(a), a.sliceCursor < SliceSize(a), a.cursor \in Nat,
         NEW b, b = [a EXCEPT !.cursor = @ + 1, !.sliceCursor = @ + 1]
  PROVE  /\ IsPlan(b) /\ IsInPath(b) /\ Hashed(b) = Hashed(a) \union {Nonce(a)}
         /\ b.active = a.active /\ b.job = a.job /\ b.cursor = a.cursor + 1
<1>1. DOMAIN a = {"active", "job", "cursor", "ordinal", "orderOffset", "orderStride",
                  "sliceCursor", "offset", "stride", "replan"}
  BY DEF IsPlan, IsAssignment
<1>2. /\ b.active = a.active /\ b.job = a.job /\ b.cursor = a.cursor + 1
      /\ b.ordinal = a.ordinal /\ b.orderOffset = a.orderOffset
      /\ b.orderStride = a.orderStride
      /\ b.sliceCursor = a.sliceCursor + 1 /\ b.offset = a.offset /\ b.stride = a.stride
      /\ DOMAIN b = DOMAIN a
  BY <1>1
<1>3. IsAssignment(b)
  BY <1>1, <1>2 DEF IsAssignment
<1>4. IsPlan(b)
  BY <1>2, <1>3 DEF IsPlan
<1>5. \A k : At(b, k) = At(a, k)
  BY <1>2 DEF At
<1>6. Here(b) = Here(a)
  BY <1>2, <1>5 DEF Here
<1>7. /\ SliceSize(a) = SizeOf(a.job.range, Here(a)) /\ SliceSize(a) \in Nat \ {0}
      /\ a.sliceCursor \in Nat /\ Nonce(a) = NonceAt(a, a.sliceCursor)
  BY HereFacts DEF IsInPath
<1>8. IsInPath(b)
  <2>1. b.sliceCursor \in 0 .. SizeOf(b.job.range, Here(b))
    BY <1>2, <1>6, <1>7
  <2> QED  BY <1>2, <1>6, <2>1 DEF IsInPath
<1>9. \A i : NonceAt(b, i) = NonceAt(a, i)
  BY <1>2, <1>6 DEF NonceAt
<1>10. 0 .. b.sliceCursor - 1 = (0 .. a.sliceCursor - 1) \union {a.sliceCursor}
  BY <1>2, <1>7
<1>11. Through(b, b.ordinal) = Through(a, a.ordinal)
  BY <1>2, <1>5 DEF Through
<1>12. {NonceAt(b, i) : i \in 0 .. b.sliceCursor - 1}
         = {NonceAt(a, i) : i \in 0 .. a.sliceCursor - 1} \union {Nonce(a)}
  BY <1>7, <1>9, <1>10
<1>13. Hashed(b) = Hashed(a) \union {Nonce(a)}
  BY <1>11, <1>12 DEF Hashed
<1> QED  BY <1>2, <1>4, <1>8, <1>13

(* The path that the next nonce is on. *)
LEMMA NextSliceFacts ==
  ASSUME NEW a, IsMined(a), a.active, a.sliceCursor >= SliceSize(a), NEW b \in NextSlice(a)
  PROVE  /\ IsPlan(b) /\ IsInPath(b) /\ b.sliceCursor < SliceSize(b)
         /\ b.active /\ b.job = a.job /\ b.cursor = a.cursor /\ Hashed(b) = Hashed(a)
<1> DEFINE d == [a EXCEPT !.ordinal = @ + 1]
           n == a.job.range
           c == SliceCount(n)
<1>1. IsPlan(a) /\ IsInPath(a) /\ checked = Hashed(a) /\ a.cursor < n
  BY DEF IsMined
<1>2. n \in Nat \ {0} /\ c \in Nat \ {0} /\ a.ordinal \in 0 .. c - 1
  BY <1>1, PlanFacts DEF IsInPath
<1>3. a.ordinal + 1 < c
  <2> SUFFICES ASSUME a.ordinal + 1 = c PROVE FALSE
    BY <1>2
  <2>1. checked = 0 .. n - 1
    BY <1>1, SliceIsDone
  <2>2. Cardinality(0 .. n - 1) = n
    BY <1>2, IntervalSize
  <2> QED  BY <1>1, <1>2, <2>1, <2>2 DEF IsMined
<1>4. DOMAIN a = {"active", "job", "cursor", "ordinal", "orderOffset", "orderStride",
                  "sliceCursor", "offset", "stride", "replan"}
  BY <1>1 DEF IsPlan, IsAssignment
<1>5. /\ d.active = a.active /\ d.job = a.job /\ d.cursor = a.cursor
      /\ d.ordinal = a.ordinal + 1 /\ d.orderOffset = a.orderOffset
      /\ d.orderStride = a.orderStride /\ DOMAIN d = DOMAIN a
  BY <1>4
<1>6. IsAssignment(d)
  BY <1>1, <1>4, <1>5 DEF IsPlan, IsAssignment
<1>7. b \in IF d.ordinal < c /\ SliceStart(d) < n THEN Prepared(d) ELSE {Ended(a)}
  BY DEF NextSlice
<1> HIDE DEF d
<1>8. IsPlan(d) /\ d.ordinal \in 0 .. SliceCount(d.job.range) - 1
  BY <1>1, <1>2, <1>3, <1>5, <1>6 DEF IsPlan
<1>9. SliceStart(d) < n
  BY <1>5, <1>8, HereFacts
<1>10. b \in Prepared(d)
  BY <1>3, <1>5, <1>7, <1>9
<1>11. /\ IsPlan(b) /\ IsInPath(b) /\ b.sliceCursor < SliceSize(b)
       /\ b.active = d.active /\ b.job = d.job /\ b.cursor = d.cursor
       /\ Hashed(b) = Through(d, d.ordinal)
  BY <1>8, <1>10, PreparedFacts
<1>12. \A k : At(d, k) = At(a, k)
  BY <1>5 DEF At
<1>13. Through(d, d.ordinal) = Through(a, a.ordinal + 1)
  BY <1>5, <1>12 DEF Through
<1>14. Hashed(a) = Through(a, a.ordinal + 1)
  BY <1>1, SliceIsDone
<1> QED  BY <1>5, <1>11, <1>13, <1>14

LEMMA MineKeepsGolcron ==
  ASSUME GolcronInv, MineNonce PROVE GolcronInv'
<1>1. IsMined(astrolabe) /\ astrolabe.active /\ ~late /\ late' = late
  BY NoAssignmentIsIdle DEF GolcronInv, MineNonce
<1>2. PICK a \in IF astrolabe.sliceCursor >= SliceSize(astrolabe) THEN NextSlice(astrolabe)
                 ELSE {astrolabe} :
        IF a.active
        THEN LET b == [a EXCEPT !.cursor = @ + 1, !.sliceCursor = @ + 1]
             IN /\ checked' = checked \union {Nonce(a)}
                /\ astrolabe' = IF b.cursor >= b.job.range THEN Ended(b) ELSE b
        ELSE astrolabe' = a /\ UNCHANGED checked
  BY DEF MineNonce
<1>3. /\ IsPlan(a) /\ IsInPath(a) /\ a.sliceCursor < SliceSize(a)
      /\ a.active /\ a.job = astrolabe.job /\ a.cursor = astrolabe.cursor
      /\ Hashed(a) = Hashed(astrolabe)
  <2>1. CASE astrolabe.sliceCursor >= SliceSize(astrolabe)
    BY <1>1, <1>2, <2>1, NextSliceFacts
  <2>2. CASE ~(astrolabe.sliceCursor >= SliceSize(astrolabe))
    <3>1. IsPlan(astrolabe) /\ IsInPath(astrolabe) /\ a = astrolabe
      BY <1>1, <1>2, <2>2 DEF IsMined
    <3>2. SliceSize(astrolabe) \in Nat /\ astrolabe.sliceCursor \in Nat
      BY <3>1, HereFacts DEF IsInPath
    <3> QED  BY <1>1, <2>2, <3>1, <3>2
  <2> QED  BY <2>1, <2>2
<1> DEFINE b == [a EXCEPT !.cursor = @ + 1, !.sliceCursor = @ + 1]
           n == a.job.range
<1>4. /\ checked' = checked \union {Nonce(a)}
      /\ astrolabe' = IF b.cursor >= b.job.range THEN Ended(b) ELSE b
  BY <1>2, <1>3
<1>5. /\ checked = Hashed(a) /\ checked \subseteq 0 .. n - 1 /\ a.cursor < n
      /\ IsFiniteSet(checked) /\ a.cursor \in Nat /\ a.cursor = Cardinality(checked)
  BY <1>1, <1>3, CheckedFacts DEF IsMined
<1>6. /\ IsPlan(b) /\ IsInPath(b) /\ Hashed(b) = Hashed(a) \union {Nonce(a)}
      /\ b.active /\ b.job = a.job /\ b.cursor = a.cursor + 1
  BY <1>3, <1>5, HashedGrows
<1> HIDE DEF b
<1>7. Nonce(a) \notin checked /\ Nonce(a) \in 0 .. n - 1 /\ n \in Nat \ {0}
  BY <1>3, <1>5, NonceIsNew, PlanFacts
<1>8. /\ checked' = Hashed(b) /\ checked' \subseteq 0 .. n - 1
      /\ Cardinality(checked') = b.cursor
  <2>1. Cardinality(checked \union {Nonce(a)}) = Cardinality(checked) + 1
    BY <1>5, <1>7, FS_AddElement
  <2> QED  BY <1>4, <1>5, <1>6, <1>7, <2>1
<1>9. CASE b.cursor < n
  <2>1. astrolabe' = b
    BY <1>4, <1>5, <1>6, <1>7, <1>9
  <2> QED  BY <1>6, <1>8, <1>9, <2>1 DEF GolcronInv, IsMined
<1>10. CASE ~(b.cursor < n)
  <2>1. astrolabe' = Ended(b) /\ b.cursor = n
    BY <1>4, <1>5, <1>6, <1>7, <1>10
  <2>2. DOMAIN b = {"active", "job", "cursor", "ordinal", "orderOffset", "orderStride",
                    "sliceCursor", "offset", "stride", "replan"}
    BY <1>6 DEF IsPlan, IsAssignment
  <2>3. astrolabe' = [b EXCEPT !.ordinal = SliceCount(n), !.active = FALSE]
    BY <1>6, <2>1 DEF Ended
  <2>4. /\ astrolabe'.active = FALSE /\ astrolabe'.job = b.job /\ astrolabe'.cursor = n
        /\ astrolabe'.orderOffset = b.orderOffset /\ astrolabe'.orderStride = b.orderStride
        /\ DOMAIN astrolabe' = DOMAIN b
    BY <2>1, <2>2, <2>3
  <2>5. IsAssignment(astrolabe')
    BY <1>6, <2>2, <2>3, <2>4 DEF IsPlan, IsAssignment
  <2>6. IsPlan(astrolabe')
    BY <1>6, <2>4, <2>5 DEF IsPlan
  <2> QED
    BY <1>6, <1>7, <1>8, <2>1, <2>4, <2>6 DEF GolcronInv, IsMined
<1> QED  BY <1>9, <1>10

LEMMA GolcronStart == GolcronInit => GolcronInv
BY DEF GolcronInit, GolcronInv

(* A new job, whatever there was before. *)
LEMMA NewAssignmentIsMined ==
  ASSUME OnNewAssignment PROVE GolcronInv'
<1>1. PICK p \in Packet : astrolabe' \in Configured(p)
  BY DEF OnNewAssignment
<1> DEFINE n == p.range
<1>2. PICK o \in 0 .. SliceCount(n) - 1, s \in Strides(SliceCount(n)) :
        astrolabe' \in Prepared(Ordered(p, o, s))
  BY <1>1 DEF Configured
<1> DEFINE a == Ordered(p, o, s)
           blank == NoAssignment
<1>a. /\ DOMAIN blank = {"active", "job", "cursor", "ordinal", "orderOffset", "orderStride",
                         "sliceCursor", "offset", "stride", "replan"}
      /\ blank.cursor = 0 /\ blank.ordinal = 0
  BY DEF NoAssignment
<1>b. a = [blank EXCEPT !.active = TRUE, !.job = p, !.orderOffset = o, !.orderStride = s]
  BY DEF Ordered
<1> HIDE DEF a, blank
<1>3. /\ a.active /\ a.job = p /\ a.cursor = 0 /\ a.ordinal = 0
      /\ a.orderOffset = o /\ a.orderStride = s /\ DOMAIN a = DOMAIN blank
  BY <1>a, <1>b
<1>4. IsAssignment(a)
  BY <1>a, <1>b, <1>3 DEF IsAssignment
<1>5. astrolabe' \in Prepared(a)
  BY <1>2 DEF a
<1>6. n \in Nat \ {0} /\ SliceCount(n) \in Nat \ {0}
  BY SlicesAssumption, SpanFacts
<1>7. IsPlan(a) /\ a.ordinal \in 0 .. SliceCount(a.job.range) - 1
  BY <1>3, <1>4, <1>6 DEF IsPlan
<1>8. /\ IsPlan(astrolabe') /\ IsInPath(astrolabe') /\ astrolabe'.active
      /\ astrolabe'.job = p /\ astrolabe'.cursor = 0
      /\ Hashed(astrolabe') = Through(a, a.ordinal)
  BY <1>3, <1>5, <1>7, PreparedFacts
<1>9. Through(a, a.ordinal) = {}
  BY <1>3 DEF Through
<1>10. checked' = {} /\ Cardinality({}) = 0
  BY FS_EmptySet DEF OnNewAssignment
<1> QED
  BY <1>6, <1>8, <1>9, <1>10 DEF GolcronInv, IsMined

(* A job that is otherwise as it was: told to replan, stopped when it is late,
   or taken up again. *)
LEMMA SameJobIsMined ==
  ASSUME NEW a, IsMined(a), NEW active, NEW replan,
         astrolabe' = [a EXCEPT !.active = active, !.replan = replan],
         checked' = checked,
         active => a.cursor < a.job.range,
         ~active => late' \/ a.cursor = a.job.range
  PROVE  GolcronInv'
<1>1. DOMAIN a = {"active", "job", "cursor", "ordinal", "orderOffset", "orderStride",
                  "sliceCursor", "offset", "stride", "replan"}
  BY DEF IsMined, IsPlan, IsAssignment
<1>2. /\ astrolabe'.active = active /\ astrolabe'.job = a.job /\ astrolabe'.cursor = a.cursor
      /\ astrolabe'.ordinal = a.ordinal /\ astrolabe'.orderOffset = a.orderOffset
      /\ astrolabe'.orderStride = a.orderStride /\ astrolabe'.sliceCursor = a.sliceCursor
      /\ astrolabe'.offset = a.offset /\ astrolabe'.stride = a.stride
      /\ DOMAIN astrolabe' = DOMAIN a
  BY <1>1
<1>3. IsAssignment(astrolabe')
  BY <1>1, <1>2 DEF IsAssignment
<1>4. IsPlan(astrolabe')
  BY <1>2, <1>3 DEF IsMined, IsPlan
<1>5. \A k : At(astrolabe', k) = At(a, k)
  BY <1>2 DEF At
<1>6. Here(astrolabe') = Here(a)
  BY <1>2, <1>5 DEF Here
<1>7. IsInPath(a) => IsInPath(astrolabe')
  BY <1>2, <1>6 DEF IsInPath
<1>8. \A i : NonceAt(astrolabe', i) = NonceAt(a, i)
  BY <1>2, <1>6 DEF NonceAt
<1>9. Hashed(astrolabe') = Hashed(a)
  BY <1>2, <1>5, <1>8 DEF Hashed, Through
<1> QED
  BY <1>2, <1>4, <1>7, <1>9 DEF GolcronInv, IsMined

LEMMA GolcronStep == GolcronInv /\ [GolcronNext]_golcronVars => GolcronInv'
<1> SUFFICES ASSUME GolcronInv, [GolcronNext]_golcronVars PROVE GolcronInv'
  OBVIOUS
<1>1. ASSUME UNCHANGED <<astrolabe, checked>>, late => late' PROVE GolcronInv'
  BY <1>1 DEF GolcronInv, IsMined
<1>2. ASSUME IsMined(astrolabe), UNCHANGED <<checked, late>>,
             astrolabe' = [astrolabe EXCEPT !.replan = TRUE]
      PROVE  GolcronInv'
  <2> DEFINE active == astrolabe.active
  <2>1. DOMAIN astrolabe = {"active", "job", "cursor", "ordinal", "orderOffset", "orderStride",
                            "sliceCursor", "offset", "stride", "replan"}
    BY <1>2 DEF IsMined, IsPlan, IsAssignment
  <2>2. astrolabe' = [astrolabe EXCEPT !.active = active, !.replan = TRUE]
    BY <1>2, <2>1
  <2>3. (active => astrolabe.cursor < astrolabe.job.range)
          /\ (~active => late' \/ astrolabe.cursor = astrolabe.job.range)
    BY <1>2 DEF IsMined
  <2> HIDE DEF active
  <2> QED  BY <1>2, <2>2, <2>3, SameJobIsMined
<1>3. CASE OnEmptyPacket
  BY <1>1, <1>3 DEF OnEmptyPacket, astrolabeVars
<1>4. CASE OnSameAssignment
  <2>1. IsMined(astrolabe)
    BY <1>4, NoAssignmentIsIdle DEF OnSameAssignment, GolcronInv
  <2>2. CASE astrolabe.cursor < astrolabe.job.range
    <3> DEFINE replan == astrolabe.replan
    <3>1. DOMAIN astrolabe = {"active", "job", "cursor", "ordinal", "orderOffset", "orderStride",
                              "sliceCursor", "offset", "stride", "replan"}
      BY <2>1 DEF IsMined, IsPlan, IsAssignment
    <3>2. astrolabe' = [astrolabe EXCEPT !.active = TRUE] /\ checked' = checked
      BY <1>4, <2>2 DEF OnSameAssignment
    <3>3. astrolabe' = [astrolabe EXCEPT !.active = TRUE, !.replan = replan]
      BY <3>1, <3>2
    <3> HIDE DEF replan
    <3> QED  BY <2>1, <2>2, <3>2, <3>3, SameJobIsMined
  <2>3. CASE ~(astrolabe.cursor < astrolabe.job.range)
    <3>1. astrolabe' = astrolabe /\ checked' = checked
      BY <1>4, <2>3 DEF OnSameAssignment
    <3>2. astrolabe.cursor = astrolabe.job.range
      <4>1. astrolabe.cursor \in Nat /\ astrolabe.cursor <= astrolabe.job.range
        BY <2>1, CheckedFacts
      <4>2. astrolabe.job.range \in Nat
        BY <2>1, PlanFacts DEF IsMined
      <4> QED  BY <2>3, <4>1, <4>2
    <3> QED  BY <2>1, <3>1, <3>2 DEF GolcronInv, IsMined
  <2> QED  BY <2>2, <2>3
<1>5. CASE OnNewAssignment
  BY <1>5, NewAssignmentIsMined
<1>6. CASE OnReward
  BY <1>2, <1>6, NoAssignmentIsIdle DEF OnReward, GolcronInv
<1>7. CASE Replan
  BY <1>2, <1>7, NoAssignmentIsIdle DEF Replan, GolcronInv
<1>8. CASE JobGoesStale
  <2>1. IsMined(astrolabe) /\ late' /\ checked' = checked
          /\ astrolabe' = [astrolabe EXCEPT !.active = FALSE]
    BY <1>8, NoAssignmentIsIdle DEF JobGoesStale, GolcronInv
  <2> DEFINE replan == astrolabe.replan
  <2>2. DOMAIN astrolabe = {"active", "job", "cursor", "ordinal", "orderOffset", "orderStride",
                            "sliceCursor", "offset", "stride", "replan"}
    BY <2>1 DEF IsMined, IsPlan, IsAssignment
  <2>3. astrolabe' = [astrolabe EXCEPT !.active = FALSE, !.replan = replan]
    BY <2>1, <2>2
  <2> HIDE DEF replan
  <2> QED  BY <2>1, <2>3, SameJobIsMined
<1>9. CASE MineNonce
  BY <1>9, MineKeepsGolcron
<1>10. CASE \/ PacketArrives \/ OnePacketTooMany \/ ScanTick \/ CommandCycle
            \/ CommandChannel \/ BuzzFades \/ BuzzMoves
  BY <1>1, <1>10 DEF PacketArrives, OnePacketTooMany, ScanTick, CommandCycle, CommandChannel,
                     BuzzFades, BuzzMoves, astrolabeVars
<1>11. CASE JobGetsLate
  BY <1>1, <1>11 DEF JobGetsLate
<1>12. CASE UNCHANGED golcronVars
  BY <1>1, <1>12 DEF golcronVars, astrolabeVars
<1> QED
  BY <1>3, <1>4, <1>5, <1>6, <1>7, <1>8, <1>9, <1>10, <1>11, <1>12 DEF GolcronNext

(* UnseenPathsOnly for every range, every size of slices and all packets:
   whatever hash functions and rewards choose for a path, and whenever they do,
   no nonce of a job is hashed twice, and a job ends with all of them. *)
THEOREM NoNonceIsRepeated == GolcronSpec => []UnseenPathsOnly
<1>1. GolcronInv => UnseenPathsOnly
  <2>1. CASE astrolabe = NoAssignment /\ checked = {}
    <3>1. Cardinality({}) = 0 /\ 0 .. 0 - 1 = {}
      BY FS_EmptySet
    <3> QED  BY <2>1, <3>1, NoAssignmentIsIdle DEF UnseenPathsOnly
  <2>2. CASE IsMined(astrolabe)
    BY <2>2, CheckedFacts DEF IsMined, UnseenPathsOnly
  <2> QED  BY <2>1, <2>2 DEF GolcronInv
<1> QED
  BY GolcronStart, GolcronStep, <1>1, PTL DEF GolcronSpec
=============================================================================
