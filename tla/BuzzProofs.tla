------------------------------ MODULE BuzzProofs ------------------------------
(***************************************************************************)
(* Proofs about the two mechanisms of the master: the job that BuzzColony  *)
(* publishes and cuts into ranges, and the timers of BuzzPool.             *)
(***************************************************************************)
EXTENDS BuzzColony, BuzzPool, Basics, TLAPS

----------------------------------------------------------------------------
(* The published job. *)

(* Between the steps at which PublishedIsOfThisSession could fail: no
   connection is opened while a job is published whose clear is not left to
   the UI task, and what is about to be mirrored is of this session. *)
PublishInv ==
  /\ miner = "connect" => (ready => pending)
  /\ miner = "mirror" => work.session = session

SessionInv == PublishInv /\ PublishedIsOfThisSession

LEMMA SessionInit == ColonyInit => SessionInv
BY DEF ColonyInit, SessionInv, PublishInv, PublishedIsOfThisSession

(* A clear takes the job away or leaves word of it. *)
LEMMA ClearLeavesWord ==
  ASSUME NEW t, ClearMasterJob(t)
  PROVE  /\ ready' => pending'
         /\ ready' => ready /\ master' = master
BY DEF ClearMasterJob, Lock, Busy

LEMMA SessionStep == SessionInv /\ [ColonyNext]_colonyVars => SessionInv'
<1> SUFFICES ASSUME SessionInv, [ColonyNext]_colonyVars PROVE SessionInv'
  OBVIOUS
<1> USE DEF SessionInv, PublishInv, PublishedIsOfThisSession, jobVars, minerVars, uiVars
<1>1. CASE MinerStops \/ ConnectionEnds \/ SetExtranonce
  BY <1>1 DEF MinerStops, ConnectionEnds, SetExtranonce
<1>2. CASE MinerClears
  BY <1>2, ClearLeavesWord DEF MinerClears
<1>3. CASE Connect
  BY <1>3 DEF Connect
<1>4. CASE Notify
  BY <1>4 DEF Notify
<1>5. CASE Mirror
  BY <1>5 DEF Mirror, Lock, Busy
<1>6. CASE ThermalClears \/ PendingClear
  BY <1>6, ClearLeavesWord DEF ThermalClears, PendingClear
<1>7. CASE UNCHANGED <<ready, master, pending, minerVars>>
  BY <1>7
<1> QED
  BY <1>1, <1>2, <1>3, <1>4, <1>5, <1>6, <1>7
     DEF ColonyNext, MinerNext, UINext, Relay, Unlock, EnterThermalStop, ExitThermalStop,
         BroadcastBegin, SendUnicast, Discover, CutRange, OnShare, colonyVars

(* PublishedIsOfThisSession for any number of workers, jobs, sessions and
   shares, whichever takes of the mutex time out. *)
THEOREM PublishedIsCurrent == ColonySpec => []PublishedIsOfThisSession
<1>1. SessionInv => PublishedIsOfThisSession
  BY DEF SessionInv
<1> QED
  BY SessionInit, SessionStep, <1>1, PTL DEF ColonySpec

----------------------------------------------------------------------------
(* The ranges of one draw of the cursor. *)

Job == [session : Nat, seq : Nat]

Cut == [job : Job, start : 0 .. NonceSpace - 1, size : 1 .. DiscoveryRange]

ColonyTypes ==
  /\ work \in Job /\ master \in Job /\ session \in Nat /\ notified \in Nat
  /\ round \in [job : Job, todo : Nat, sent : {0, 1}]
  /\ cursor \in 0 .. NonceSpace - 1
  /\ handed \in Seq(Cut)
  /\ since \in 0 .. Len(handed)

(* A broadcast that has begun may still cut a range for each worker left, and
   one for discovery. *)
CountInv ==
  /\ Len(handed) <= MaxRanges + Nodes
  /\ ui = "send" => Len(handed) + round.todo + 1 <= MaxRanges + Nodes

(* The cursor c after a cut of z, how far it is past s, and how far k cuts move
   it at most. The provers see these operators by the lemmas below only. *)
Moved(c, z) == (c + z) % NonceSpace

Past(c, s) == (c - s) % NonceSpace

Reach(k) == k * DiscoveryRange

(* How far the cursor is past the start of a range: past the range itself, and
   less than a turn. *)
CursorInv ==
  \A i \in since + 1 .. Len(handed) :
    /\ handed[i].size <= Past(cursor, handed[i].start)
    /\ Past(cursor, handed[i].start) <= Reach(Len(handed) + 1 - i)

RangeInv == ColonyTypes /\ CountInv /\ CursorInv /\ RangesOfOneDrawAreDisjoint

LEMMA Products ==
  ASSUME NEW d \in Nat, NEW m \in Nat, NEW n \in Nat, n <= m
  PROVE  n * d <= m * d /\ (n + 1) * d = n * d + d
<1>1. m * d = n * d + (m - n) * d
  BY Z3
<1>2. (m - n) * d >= 0
  BY Z3
<1>3. (n + 1) * d = n * d + d
  BY Z3
<1> QED
  BY <1>1, <1>2, <1>3

(* A cursor c that moves by z: how far it is past s before and after. *)
LEMMA MovedCursor ==
  ASSUME NEW N \in Nat \ {0}, NEW c \in 0 .. N - 1, NEW s \in 0 .. N - 1, NEW z \in 1 .. N - 1
  PROVE  /\ (c - s) % N \in Nat
         /\ ((c - s) % N) + z < N => (((c + z) % N) - s) % N = ((c - s) % N) + z
         /\ (c - s) % N > 0 => (s - c) % N = N - ((c - s) % N)
         /\ (((c + z) % N) - c) % N = z
<1>1. (c - s) % N = IF s <= c THEN c - s ELSE c - s + N
  BY DifferenceModulo
<1>2. (s - c) % N = IF c <= s THEN s - c ELSE s - c + N
  BY DifferenceModulo
<1>3. (c - c) % N = 0
  BY AgeOfNow
<1>4. (((c + z) % N) - c) % N = ((c - c) % N) + z
  BY <1>3, AgeGrows
<1>5. ((c - s) % N) + z < N => (((c + z) % N) - s) % N = ((c - s) % N) + z
  BY AgeGrows
<1>6. (c - s) % N \in Nat
  BY <1>1
<1>7. (c - s) % N > 0 => (s - c) % N = N - ((c - s) % N)
  BY <1>1, <1>2
<1>8. ((c - c) % N) + z = z
  BY <1>3
<1> QED
  BY <1>4, <1>5, <1>6, <1>7, <1>8

(* The same of the cursor of the colony. *)
LEMMA CursorMoves ==
  ASSUME NEW c \in 0 .. NonceSpace - 1, NEW s \in 0 .. NonceSpace - 1,
         NEW z \in 1 .. NonceSpace - 1
  PROVE  /\ Past(c, s) \in Nat
         /\ Past(c, s) + z < NonceSpace => Past(Moved(c, z), s) = Past(c, s) + z
         /\ Past(c, s) > 0 => Past(s, c) = NonceSpace - Past(c, s)
         /\ Past(Moved(c, z), c) = z
<1>1. NonceSpace \in Nat \ {0}
  BY RangeAssumption
<1> QED
  BY <1>1, MovedCursor, ZenonT(60) DEF Past, Moved

LEMMA MovedIsNonce ==
  ASSUME NEW c \in 0 .. NonceSpace - 1, NEW z \in Nat
  PROVE  Moved(c, z) \in 0 .. NonceSpace - 1
<1>1. NonceSpace \in Nat \ {0} /\ c + z \in Int
  BY RangeAssumption
<1>2. (c + z) % NonceSpace \in 0 .. NonceSpace - 1
  BY <1>1, ModIsBelow, ZenonT(60)
<1> QED
  BY <1>2 DEF Moved

LEMMA ReachGrows ==
  ASSUME NEW k \in Nat, k <= MaxRanges + Nodes
  PROVE  /\ Reach(k) \in Nat /\ Reach(k) < NonceSpace
         /\ Reach(k + 1) = Reach(k) + DiscoveryRange
         /\ Reach(1) = DiscoveryRange
<1>1. MaxRanges + Nodes \in Nat /\ DiscoveryRange \in Nat /\ NonceSpace \in Nat
  BY RangeAssumption
<1>2. k * DiscoveryRange <= (MaxRanges + Nodes) * DiscoveryRange
  BY <1>1, Products
<1>3. (k + 1) * DiscoveryRange = k * DiscoveryRange + DiscoveryRange
  BY <1>1, Products
<1>4. k * DiscoveryRange \in Nat /\ 1 * DiscoveryRange = DiscoveryRange
  BY <1>1
<1>5. (MaxRanges + Nodes) * DiscoveryRange \in Nat
  BY <1>1
<1>6. k * DiscoveryRange < NonceSpace
  BY <1>1, <1>2, <1>4, <1>5, RangeAssumption
<1> QED
  BY <1>3, <1>4, <1>6 DEF Reach

LEMMA RangeFits == DiscoveryRange < NonceSpace \/ MaxRanges + Nodes = 0
<1>1. CASE MaxRanges + Nodes >= 1
  <2>1. Reach(1) < NonceSpace /\ Reach(1) = DiscoveryRange
    BY <1>1, ReachGrows
  <2> QED
    BY <2>1
<1> QED
  BY <1>1, RangeAssumption

(* The cut of a range, from the cursor that every earlier one is behind. *)
LEMMA CutKeepsApart ==
  ASSUME ColonyTypes, CursorInv, RangesOfOneDrawAreDisjoint,
         Len(handed) + 1 <= MaxRanges + Nodes,
         NEW size \in 1 .. DiscoveryRange,
         cursor' = Moved(cursor, size),
         handed' = Append(handed, Ranged(size)), since' = since
  PROVE  CursorInv' /\ RangesOfOneDrawAreDisjoint'
<1>1. /\ Len(handed) \in Nat /\ since \in 0 .. Len(handed)
      /\ cursor \in 0 .. NonceSpace - 1 /\ NonceSpace \in Nat \ {0}
      /\ DiscoveryRange \in Nat /\ MaxRanges + Nodes \in Nat
  BY RangeAssumption DEF ColonyTypes
<1>2. size \in 1 .. NonceSpace - 1
  BY <1>1, RangeFits
<1>3. \A i \in 1 .. Len(handed) :
        handed[i].start \in 0 .. NonceSpace - 1 /\ handed[i].size \in 1 .. DiscoveryRange
  <2>1. \A i \in 1 .. Len(handed) : handed[i] \in Cut
    BY DEF ColonyTypes
  <2> QED
    BY <2>1 DEF Cut
<1>4. /\ Len(handed') = Len(handed) + 1
      /\ \A i \in 1 .. Len(handed) : handed'[i] = handed[i]
      /\ handed'[Len(handed) + 1] = Ranged(size)
  BY DEF ColonyTypes
<1>5. Ranged(size).start = cursor /\ Ranged(size).size = size
  BY DEF Ranged
<1>6. ASSUME NEW i \in since + 1 .. Len(handed)
      PROVE  /\ handed[i].size <= Past(cursor, handed[i].start)
             /\ Past(cursor, handed[i].start) + size <= Reach(Len(handed) + 2 - i)
             /\ Past(cursor, handed[i].start) + size < NonceSpace
             /\ Past(cursor, handed[i].start) \in Nat
  <2>1. i \in 1 .. Len(handed) /\ (Len(handed) + 1) - i \in Nat
    BY <1>1
  <2>2. /\ handed[i].size <= Past(cursor, handed[i].start)
        /\ Past(cursor, handed[i].start) <= Reach((Len(handed) + 1) - i)
    BY DEF CursorInv
  <2>3. Past(cursor, handed[i].start) \in Nat
    BY <1>1, <1>2, <1>3, <2>1, CursorMoves
  <2>4. /\ Reach(((Len(handed) + 1) - i) + 1) = Reach((Len(handed) + 1) - i) + DiscoveryRange
        /\ Reach((Len(handed) + 1) - i) \in Nat
    <3>1. (Len(handed) + 1) - i <= MaxRanges + Nodes
      BY <1>1, <2>1
    <3> QED
      BY <2>1, <3>1, ReachGrows, ZenonT(60)
  <2>5. ((Len(handed) + 1) - i) + 1 = Len(handed) + 2 - i
    BY <1>1, <2>1
  <2>6. Reach(Len(handed) + 2 - i) < NonceSpace /\ Reach(Len(handed) + 2 - i) \in Nat
    <3>1. Len(handed) + 2 - i \in Nat /\ Len(handed) + 2 - i <= MaxRanges + Nodes
      BY <1>1, <2>1
    <3> QED
      BY <3>1, ReachGrows, ZenonT(60)
  <2>7. Reach(Len(handed) + 2 - i) = Reach((Len(handed) + 1) - i) + DiscoveryRange
    BY <2>4, <2>5
  <2>8. DiscoveryRange \in Nat /\ NonceSpace \in Nat /\ size \in Nat /\ size <= DiscoveryRange
    BY <1>1
  <2> QED
    BY <2>2, <2>3, <2>4, <2>6, <2>7, <2>8, SMTT(30)
<1>7. ASSUME NEW i \in since + 1 .. Len(handed) + 1
      PROVE  /\ handed'[i].size <= Past(cursor', handed'[i].start)
             /\ Past(cursor', handed'[i].start) <= Reach(Len(handed) + 2 - i)
  <2>1. CASE i = Len(handed) + 1
    <3>1. Past(cursor', cursor) = size
      BY <1>1, <1>2, CursorMoves
    <3>2. Reach(Len(handed) + 2 - i) = DiscoveryRange
      <4>1. Len(handed) + 2 - i = 1
        BY <2>1, <1>1
      <4>2. Reach(1) = DiscoveryRange
        BY <1>1, ReachGrows
      <4> QED
        BY <4>1, <4>2
    <3> QED
      BY <2>1, <3>1, <3>2, <1>1, <1>4, <1>5
  <2>2. CASE i \in since + 1 .. Len(handed)
    <3>1. i \in 1 .. Len(handed) /\ handed'[i] = handed[i] /\ handed[i].size \in Nat
      BY <2>2, <1>1, <1>3, <1>4
    <3>2. Past(cursor', handed[i].start) = Past(cursor, handed[i].start) + size
      <4>1. /\ handed[i].start \in 0 .. NonceSpace - 1
            /\ Past(cursor, handed[i].start) + size < NonceSpace
        BY <2>2, <3>1, <1>3, <1>6
      <4> QED
        BY <4>1, <1>1, <1>2, CursorMoves
    <3>3. /\ handed[i].size <= Past(cursor, handed[i].start)
          /\ Past(cursor, handed[i].start) + size <= Reach(Len(handed) + 2 - i)
          /\ Past(cursor, handed[i].start) \in Nat
      BY <2>2, <1>6
    <3> QED
      BY <3>1, <3>2, <3>3, <1>2
  <2> QED
    BY <1>1, <2>1, <2>2
<1>8. CursorInv'
  <2>1. \A i \in since + 1 .. Len(handed) + 1 : (Len(handed) + 1) + 1 - i = Len(handed) + 2 - i
    BY <1>1
  <2> QED
    BY <1>4, <1>7, <2>1 DEF CursorInv
<1>9. RangesOfOneDrawAreDisjoint'
  <2> SUFFICES ASSUME NEW i \in since + 1 .. Len(handed) + 1,
                      NEW j \in since + 1 .. Len(handed) + 1, i < j
               PROVE  ~Overlap(handed'[i], handed'[j])
    BY <1>4 DEF RangesOfOneDrawAreDisjoint, Overlap
  <2>1. i \in since + 1 .. Len(handed) /\ i \in 1 .. Len(handed) /\ handed'[i] = handed[i]
    BY <1>1, <1>4
  <2>2. CASE j \in since + 1 .. Len(handed)
    <3>1. handed'[j] = handed[j]
      BY <2>2, <1>1, <1>4
    <3> QED
      BY <2>1, <2>2, <3>1 DEF RangesOfOneDrawAreDisjoint
  <2>3. CASE j = Len(handed) + 1
    <3>1. handed'[j].start = cursor /\ handed'[j].size = size
      BY <2>3, <1>4, <1>5
    <3>2. /\ handed[i].size <= Past(cursor, handed[i].start)
          /\ Past(cursor, handed[i].start) + size < NonceSpace
          /\ Past(cursor, handed[i].start) \in Nat
          /\ handed[i].size \in Nat \ {0} /\ handed[i].start \in 0 .. NonceSpace - 1
      BY <2>1, <1>3, <1>6
    <3>3. Past(handed[i].start, cursor)
            = NonceSpace - Past(cursor, handed[i].start)
      <4>1. Past(cursor, handed[i].start) > 0
        BY <3>2
      <4> QED
        BY <4>1, <3>2, <1>1, <1>2, CursorMoves
    <3>4. ~(Past(handed[i].start, cursor) < size)
      BY <3>2, <3>3, <1>1, <1>2
    <3>5. ~(Past(cursor, handed[i].start) < handed[i].size)
      BY <3>2
    <3> QED
      BY <2>1, <3>1, <3>4, <3>5 DEF Overlap, Past
  <2> QED
    BY <1>1, <2>2, <2>3
<1> QED
  BY <1>8, <1>9

LEMMA CutTypes ==
  ASSUME ColonyTypes, NEW size \in {WorkerRange, DiscoveryRange},
         cursor' = Moved(cursor, size),
         handed' = Append(handed, Ranged(size)),
         UNCHANGED <<work, master, session, notified, since>>,
         round' \in [job : Job, todo : Nat, sent : {0, 1}]
  PROVE  ColonyTypes' /\ Len(handed') = Len(handed) + 1
<1> USE RangeAssumption
<1>1. Ranged(size) \in Cut
  BY DEF Ranged, ColonyTypes, Cut
<1>2. /\ handed' \in Seq(Cut)
      /\ Len(handed') = Len(handed) + 1 /\ Len(handed) \in Nat
  BY <1>1 DEF ColonyTypes
<1>3. cursor' \in 0 .. NonceSpace - 1
  BY MovedIsNonce DEF ColonyTypes
<1> QED
  BY <1>2, <1>3 DEF ColonyTypes

LEMMA RangeInit == ColonyInit => RangeInv
BY RangeAssumption
   DEF ColonyInit, RangeInv, ColonyTypes, CountInv, CursorInv, RangesOfOneDrawAreDisjoint,
       Job, NoWork

(* What no step but a cut or a new draw disturbs. *)
LEMMA RangesStay ==
  ASSUME RangeInv, UNCHANGED <<handed, cursor, since>>
  PROVE  CursorInv' /\ RangesOfOneDrawAreDisjoint'
BY DEF RangeInv, CursorInv, RangesOfOneDrawAreDisjoint, Overlap

(* A draw of the cursor leaves no range behind it. *)
LEMMA NewDraw ==
  ASSUME ColonyTypes, handed' = handed, since' = Len(handed)
  PROVE  CursorInv' /\ RangesOfOneDrawAreDisjoint' /\ since' \in 0 .. Len(handed')
<1>1. Len(handed) \in Nat
  BY DEF ColonyTypes
<1> QED
  BY <1>1 DEF CursorInv, RangesOfOneDrawAreDisjoint

LEMMA ClearKeepsRanges ==
  ASSUME RangeInv, NEW t, ClearMasterJob(t), handed' = handed,
         UNCHANGED <<work, round, session, notified, ui>>
  PROVE  RangeInv'
<1>1. CASE since' = Len(handed) /\ cursor' = 0 /\ master' = NoWork
  BY <1>1, NewDraw, RangeAssumption DEF RangeInv, ColonyTypes, CountInv, Job, NoWork
<1>2. CASE UNCHANGED <<master, cursor, since>>
  BY <1>2, RangesStay DEF RangeInv, ColonyTypes, CountInv
<1> QED
  BY <1>1, <1>2 DEF ClearMasterJob

LEMMA RangeStep == RangeInv /\ [ColonyNext]_colonyVars => RangeInv'
<1> SUFFICES ASSUME RangeInv, [ColonyNext]_colonyVars PROVE RangeInv'
  OBVIOUS
<1> USE RangeAssumption DEF jobVars, minerVars, uiVars
<1>1. CASE MinerStops \/ ConnectionEnds \/ SetExtranonce \/ Connect \/ Notify
  <2>1. UNCHANGED <<handed, cursor, since, master, round, ui>>
    BY <1>1 DEF MinerStops, ConnectionEnds, SetExtranonce, Connect, Notify
  <2>2. work' \in Job /\ session' \in Nat /\ notified' \in Nat
    <3>1. CASE MinerStops \/ ConnectionEnds \/ SetExtranonce \/ Connect
      <4>1. work' \in {work, NoWork} /\ session' \in {session, session + 1}
              /\ notified' \in {notified, 0}
        BY <3>1 DEF MinerStops, ConnectionEnds, SetExtranonce, Connect
      <4>2. NoWork \in Job
        BY DEF NoWork, Job
      <4> QED
        BY <4>1, <4>2, SMTT(30) DEF RangeInv, ColonyTypes
    <3>2. CASE Notify
      <4>1. session \in Nat /\ notified' \in Nat
        BY <3>2 DEF Notify, RangeInv, ColonyTypes
      <4> QED
        BY <3>2, <4>1 DEF Notify, Job
    <3> QED
      BY <1>1, <3>1, <3>2
  <2> QED
    BY <2>1, <2>2, RangesStay DEF RangeInv, ColonyTypes, CountInv
<1>2. CASE MinerClears
  BY <1>2, ClearKeepsRanges DEF MinerClears
<1>3. CASE Mirror
  <2>1. CASE since' = Len(handed) /\ cursor' \in Draw /\ master' = work
    BY <1>3, <2>1, NewDraw DEF Mirror, RangeInv, ColonyTypes, CountInv
  <2>2. CASE UNCHANGED <<master, cursor, since>>
    BY <1>3, <2>2, RangesStay DEF Mirror, RangeInv, ColonyTypes, CountInv
  <2> QED
    BY <1>3, <2>1, <2>2 DEF Mirror
<1>4. CASE ThermalClears
  <2>2. CASE since' = Len(handed) /\ cursor' = 0 /\ master' = NoWork
    BY <1>4, <2>2, NewDraw DEF ThermalClears, RangeInv, ColonyTypes, CountInv, Job, NoWork
  <2>3. CASE UNCHANGED <<master, cursor, since>>
    BY <1>4, <2>3, RangesStay DEF ThermalClears, RangeInv, ColonyTypes, CountInv
  <2> QED
    BY <1>4, <2>2, <2>3 DEF ThermalClears, ClearMasterJob
<1>5. CASE PendingClear
  BY <1>5, ClearKeepsRanges DEF PendingClear
<1>6. CASE BroadcastBegin
  BY <1>6, RangesStay DEF BroadcastBegin, RangeInv, ColonyTypes, CountInv
<1>7. CASE SendUnicast
  <2>1. /\ ui = "send" /\ ui' = ui /\ round.todo >= 1
        /\ UNCHANGED <<work, session, notified>>
    BY <1>7 DEF SendUnicast, RangeInv, ColonyTypes
  <2>2. round' \in [job : Job, todo : Nat, sent : {0, 1}] /\ round'.todo = round.todo - 1
    <3>1. round \in [job : Job, todo : Nat, sent : {0, 1}] /\ round.todo - 1 \in Nat
      BY <2>1 DEF RangeInv, ColonyTypes
    <3>2. CASE \E ok \in {round.sent, 1} : round' = [round EXCEPT !.todo = @ - 1, !.sent = ok]
      <4>1. PICK ok \in {0, 1} : round' = [round EXCEPT !.todo = @ - 1, !.sent = ok]
        BY <3>1, <3>2
      <4> QED
        BY <3>1, <4>1
    <3>3. CASE round' = [round EXCEPT !.todo = @ - 1]
      BY <3>1, <3>3
    <3> QED
      BY <1>7, <3>2, <3>3 DEF SendUnicast
  <2>3. CASE CutRange(WorkerRange) /\ handed' = Append(handed, Ranged(WorkerRange))
    <3>1. Len(handed) + 1 <= MaxRanges + Nodes
      BY <2>1 DEF RangeInv, CountInv, ColonyTypes
    <3>2. CursorInv' /\ RangesOfOneDrawAreDisjoint'
      BY <2>3, <3>1, CutKeepsApart DEF CutRange, Moved, RangeInv
    <3>3. ColonyTypes' /\ Len(handed') = Len(handed) + 1
      BY <2>1, <2>2, <2>3, CutTypes DEF RangeInv, CutRange, Moved
    <3>4. CountInv'
      BY <2>1, <2>2, <3>1, <3>3 DEF RangeInv, CountInv, ColonyTypes
    <3> QED
      BY <3>2, <3>3, <3>4 DEF RangeInv
  <2>4. CASE UNCHANGED <<jobVars, handed>>
    <3>1. CursorInv' /\ RangesOfOneDrawAreDisjoint'
      BY <2>4, RangesStay
    <3>2. ColonyTypes'
      BY <2>1, <2>2, <2>4 DEF RangeInv, ColonyTypes
    <3>3. CountInv'
      BY <2>1, <2>2, <2>4, SMTT(30) DEF RangeInv, CountInv, ColonyTypes
    <3> QED
      BY <3>1, <3>2, <3>3 DEF RangeInv
  <2> QED
    BY <1>7, <2>3, <2>4 DEF SendUnicast
<1>8. CASE Discover
  <2>1. ui = "send" /\ ui' = "tick" /\ round.todo = 0 /\ round' \in [job : Job, todo : Nat, sent : {0, 1}]
    BY <1>8 DEF Discover, Job, NoWork
  <2>2. CASE CutRange(DiscoveryRange) /\ handed' = Append(handed, Ranged(DiscoveryRange))
    <3>1. Len(handed) + 1 <= MaxRanges + Nodes
      BY <2>1 DEF RangeInv, CountInv, ColonyTypes
    <3>2. CursorInv' /\ RangesOfOneDrawAreDisjoint'
      BY <2>2, <3>1, CutKeepsApart DEF CutRange, Moved, RangeInv
    <3>3. ColonyTypes' /\ Len(handed') = Len(handed) + 1
      BY <1>8, <2>1, <2>2, CutTypes DEF RangeInv, Discover, CutRange, Moved
    <3> QED
      BY <2>1, <3>1, <3>2, <3>3 DEF RangeInv, CountInv
  <2>3. CASE UNCHANGED <<jobVars, handed>>
    BY <1>8, <2>1, <2>3, RangesStay DEF Discover, RangeInv, ColonyTypes, CountInv
  <2> QED
    BY <1>8, <2>2, <2>3 DEF Discover
<1>9. CASE UNCHANGED <<jobVars, handed, work, session, notified, round>> /\ ui' \in {ui, "clear"}
  BY <1>9, RangesStay DEF RangeInv, ColonyTypes, CountInv
<1> QED
  BY <1>1, <1>2, <1>3, <1>4, <1>5, <1>6, <1>7, <1>8, <1>9
     DEF ColonyNext, MinerNext, UINext, Relay, Unlock, EnterThermalStop, ExitThermalStop,
         OnShare, colonyVars

(* RangesOfOneDrawAreDisjoint for any number of workers, jobs and broadcasts,
   as long as the ranges together are fewer nonces than there are. *)
THEOREM RangesAreDisjoint == ColonySpec => []RangesOfOneDrawAreDisjoint
<1>1. RangeInv => RangesOfOneDrawAreDisjoint
  BY DEF RangeInv
<1> QED
  BY RangeInit, RangeStep, <1>1, PTL DEF ColonySpec
----------------------------------------------------------------------------
(* The timers of the pool connection. *)

(* age is a function like Top. *)
AgeNames == {"conn", "prog", "watch", "rec", "silent", "due"}

TimerTypes ==
  /\ age \in [AgeNames -> Nat]
  /\ age["conn"] <= NoJob
  /\ dark \in Nat /\ dark <= RestartAfter + 1

(* While a connection lasts, neither the cooldown of the watchdog nor the time
   without a hash outruns the time since it was opened. *)
LinkInv ==
  link.up =>
    /\ age["conn"] >= 1
    /\ age["silent"] <= age["conn"]
    /\ age["watch"] >= age["conn"] \/ age["watch"] >= Cooldown

(* A restart that is overdue waits for the time since the last recovery, or
   for the connection that was opened in that time. *)
DueInv ==
  /\ dark > 0 => worked
  /\ age["due"] > 0 => dark = RestartAfter + 1
  /\ age["rec"] >= 1
  /\ age["rec"] < Recovery => age["due"] < age["rec"]
  /\ age["due"] <= Recovery - 1 + IF link.up THEN age["conn"] - 1 ELSE NoJob

TimerInv == TimerTypes /\ LinkInv /\ DueInv
LEMMA Constants ==
  /\ {Handshake, NoAuth, NoJob, NoProgress, MinUptime, Cooldown, WifiDark,
      PoolDark, Recovery, RestartAfter} \subseteq Nat \ {0}
  /\ Handshake < MinUptime /\ MinUptime < NoJob /\ NoJob < NoProgress
  /\ Cooldown <= NoJob /\ WifiDark <= RestartAfter /\ PoolDark <= RestartAfter
BY PoolTimers

LEMMA TopFields ==
  /\ DOMAIN Top = AgeNames
  /\ Top["conn"] = NoJob /\ Top["prog"] = NoProgress /\ Top["watch"] = Cooldown
  /\ Top["rec"] = Recovery /\ Top["silent"] = NoJob + 2 /\ Top["due"] = NoJob + Recovery
BY DEF Top, AgeNames

LEMMA AgesType ==
  ASSUME NEW reset \in SUBSET AgeNames, age \in [AgeNames -> Nat]
  PROVE  /\ Ages(reset) \in [AgeNames -> Nat]
         /\ \A t \in AgeNames : Ages(reset)[t] = IF t \in reset THEN 0 ELSE age[t]
BY TopFields DEF Ages

(* One unit of time passes, from the ages a and the blackout d. *)
LEMMA Elapsed ==
  ASSUME NEW a \in [AgeNames -> Nat], a["conn"] <= NoJob,
         NEW d \in Nat, d <= RestartAfter + 1, Elapse(a, d)
  PROVE  /\ TimerTypes'
         /\ dark' = IF d = 0 THEN 0 ELSE Sooner(d + 1, RestartAfter + 1)
         /\ age'["conn"] = Sooner(a["conn"] + 1, NoJob)
         /\ age'["watch"] = Sooner(a["watch"] + 1, Cooldown)
         /\ age'["rec"] = Sooner(a["rec"] + 1, Recovery)
         /\ age'["silent"] = Sooner(a["silent"] + 1, NoJob + 2)
         /\ d <= RestartAfter => age'["due"] = 0
         /\ hot /\ d > RestartAfter => age'["due"] = a["due"]
         /\ d > RestartAfter => age'["due"] <= a["due"] + 1
<1>1. dark' = IF d = 0 THEN 0 ELSE Sooner(d + 1, RestartAfter + 1)
  BY DEF Elapse
<1>2. \A t \in AgeNames \ {"due"} : age'[t] = Sooner(a[t] + 1, Top[t])
  BY TopFields DEF Elapse
<1>3. age'["due"] = IF d <= RestartAfter THEN 0
                    ELSE IF hot THEN a["due"] ELSE Sooner(a["due"] + 1, Top["due"])
  BY TopFields DEF Elapse, Overdue, AgeNames
<1>4. DOMAIN age' = AgeNames /\ age' = [t \in AgeNames |-> age'[t]]
  BY TopFields DEF Elapse
<1>5. \A t \in AgeNames : a[t] \in Nat /\ Top[t] \in Nat
  BY TopFields, Constants DEF AgeNames
<1>6. \A t \in AgeNames : age'[t] \in Nat
  <2> SUFFICES ASSUME NEW t \in AgeNames PROVE age'[t] \in Nat
    OBVIOUS
  <2>1. CASE t = "due"
    BY <1>3, <1>5, <2>1 DEF Sooner, AgeNames
  <2>2. CASE t # "due"
    BY <1>2, <1>5, <2>2 DEF Sooner
  <2> QED
    BY <2>1, <2>2
<1>7. age' \in [AgeNames -> Nat]
  BY <1>4, <1>6
<1>8. dark' \in Nat /\ dark' <= RestartAfter + 1
  BY <1>1, Constants DEF Sooner
<1>9. age'["conn"] = Sooner(a["conn"] + 1, NoJob)
  BY <1>2, TopFields DEF AgeNames
<1>10. age'["conn"] <= NoJob
  BY <1>9, <1>5, Constants DEF Sooner, AgeNames
<1>11. TimerTypes'
  BY <1>7, <1>8, <1>10 DEF TimerTypes
<1>12. Sooner(a["due"] + 1, Top["due"]) <= a["due"] + 1
  BY <1>5 DEF Sooner, AgeNames
<1>13. /\ d <= RestartAfter => age'["due"] = 0
       /\ hot /\ d > RestartAfter => age'["due"] = a["due"]
       /\ d > RestartAfter => age'["due"] <= a["due"] + 1
  <2>1. a["due"] \in Nat /\ Top["due"] \in Nat
    BY <1>5 DEF AgeNames
  <2> QED
    BY <1>3, <1>12, <2>1, Constants
<1>14. /\ age'["watch"] = Sooner(a["watch"] + 1, Cooldown)
       /\ age'["rec"] = Sooner(a["rec"] + 1, Recovery)
       /\ age'["silent"] = Sooner(a["silent"] + 1, NoJob + 2)
  BY <1>2, TopFields DEF AgeNames
<1> QED
  BY <1>1, <1>9, <1>11, <1>13, <1>14

LEMMA BootedTimers ==
  ASSUME age = [Top EXCEPT !.prog = 0, !.silent = 0, !.due = 0], dark = 0, ~link.up
  PROVE  TimerInv
<1>1. /\ DOMAIN age = AgeNames /\ age = [t \in AgeNames |-> age[t]]
      /\ age["conn"] = NoJob /\ age["prog"] = 0 /\ age["watch"] = Cooldown
      /\ age["rec"] = Recovery /\ age["silent"] = 0 /\ age["due"] = 0
  BY TopFields DEF AgeNames, Top
<1>2. age \in [AgeNames -> Nat]
  BY <1>1, Constants DEF AgeNames
<1> QED
  BY <1>1, <1>2, Constants DEF TimerInv, TimerTypes, LinkInv, DueInv

LEMMA TimerInit == PoolInit => TimerInv
<1>1. PoolInit => /\ age = [Top EXCEPT !.prog = 0, !.silent = 0, !.due = 0]
                  /\ dark = 0 /\ ~link.up
  BY DEF PoolInit, Booted, Down
<1> QED
  BY <1>1, BootedTimers

LEMMA TimersRestart ==
  ASSUME Restart
  PROVE  TimerInv'
<1>1. /\ age' = [Top EXCEPT !.prog = 0, !.silent = 0, !.due = 0]
      /\ dark' = 0 /\ ~link'.up
  BY DEF Restart, Booted, Down
<1>2. /\ DOMAIN age' = AgeNames /\ age' = [t \in AgeNames |-> age'[t]]
      /\ age'["conn"] = NoJob /\ age'["prog"] = 0 /\ age'["watch"] = Cooldown
      /\ age'["rec"] = Recovery /\ age'["silent"] = 0 /\ age'["due"] = 0
  BY <1>1, TopFields DEF AgeNames, Top
<1>3. age' \in [AgeNames -> Nat]
  BY <1>2, Constants DEF AgeNames
<1> QED
  BY <1>1, <1>2, <1>3, Constants DEF TimerInv, TimerTypes, LinkInv, DueInv

(* A pass, from the ages a and the blackout d that may just have begun. A pass
   of a node with neither a connection nor its thermal stop that is overdue for
   its restart finds the last recovery too recent; a connection that stays is
   not yet too old. *)
LEMMA PassKeepsTimers ==
  ASSUME TimerInv,
         NEW a \in [AgeNames -> Nat], a["conn"] <= NoJob, a["due"] = age["due"],
         NEW d \in Nat, d <= RestartAfter + 1, d = dark \/ d <= 1, d > 0 => worked',
         Elapse(a, d),
         d > RestartAfter => a["rec"] = age["rec"],
         d > RestartAfter /\ ~link.up /\ ~hot => age["rec"] < Recovery,
         link'.up => /\ a["conn"] < NoJob /\ a["silent"] <= a["conn"] /\ ~hot
                     /\ a["watch"] >= a["conn"] \/ a["watch"] >= Cooldown
                     /\ link.up => a["conn"] = age["conn"]
  PROVE  TimerInv'
<1>1. /\ TimerTypes'
      /\ dark' = IF d = 0 THEN 0 ELSE Sooner(d + 1, RestartAfter + 1)
      /\ age'["conn"] = Sooner(a["conn"] + 1, NoJob)
      /\ age'["watch"] = Sooner(a["watch"] + 1, Cooldown)
      /\ age'["rec"] = Sooner(a["rec"] + 1, Recovery)
      /\ age'["silent"] = Sooner(a["silent"] + 1, NoJob + 2)
      /\ d <= RestartAfter => age'["due"] = 0
      /\ hot /\ d > RestartAfter => age'["due"] = a["due"]
      /\ d > RestartAfter => age'["due"] <= a["due"] + 1
  BY Elapsed
<1>2. \A t \in AgeNames : a[t] \in Nat /\ age[t] \in Nat /\ age'[t] \in Nat
  BY <1>1 DEF TimerInv, TimerTypes
<1>3. /\ {a["conn"], a["watch"], a["rec"], a["silent"], a["due"]} \subseteq Nat
      /\ {age["conn"], age["rec"], age["due"], age'["due"]} \subseteq Nat
  BY <1>2 DEF AgeNames
<1>4. LinkInv'
  BY <1>1, <1>3, Constants DEF LinkInv, Sooner
<1>5. /\ age'["conn"] >= 1 /\ age'["rec"] >= 1
      /\ link'.up => age'["conn"] = a["conn"] + 1
  BY <1>1, <1>3, Constants DEF Sooner
<1>6. dark' > 0 => worked'
  BY <1>1
<1>7. CASE d <= RestartAfter
  <2>1. age'["due"] = 0 /\ age'["conn"] - 1 >= 0 /\ Recovery - 1 >= 0 /\ age'["conn"] \in Nat
    BY <1>1, <1>2, <1>5, <1>7, Constants DEF AgeNames
  <2>2. age'["due"] <= Recovery - 1 + IF link'.up THEN age'["conn"] - 1 ELSE NoJob
    BY <2>1, Constants
  <2>3. age'["rec"] < Recovery => age'["due"] < age'["rec"]
    <3>1. age'["rec"] \in Nat
      BY <1>2 DEF AgeNames
    <3> QED
      BY <2>1, <1>5, <3>1
  <2> QED
    BY <1>1, <1>4, <1>5, <1>6, <2>1, <2>2, <2>3 DEF TimerInv, DueInv
<1>8. CASE d > RestartAfter
  <2>1. d = RestartAfter + 1 /\ d = dark /\ dark' = RestartAfter + 1
    BY <1>1, <1>8, Constants DEF Sooner
  <2>2. age'["rec"] < Recovery => age'["due"] < age'["rec"]
    <3>1. age["rec"] < Recovery => age["due"] < age["rec"]
      BY DEF TimerInv, DueInv
    <3> QED
      BY <1>1, <1>3, <1>8, <3>1, Constants DEF Sooner
  <2>3. age["due"] <= Recovery - 1 + IF link.up THEN age["conn"] - 1 ELSE NoJob
    BY DEF TimerInv, DueInv
  <2>4. age["conn"] <= NoJob
    BY DEF TimerInv, TimerTypes
  <2>5. age'["due"] <= Recovery - 1 + IF link'.up THEN age'["conn"] - 1 ELSE NoJob
    <3>1. CASE link.up
      BY <1>1, <1>3, <1>5, <1>8, <2>3, <2>4, <3>1, Constants
    <3>2. CASE ~link.up /\ hot
      BY <1>1, <1>3, <1>8, <2>3, <3>2
    <3>3. CASE ~link.up /\ ~hot
      <4>1. age["due"] < age["rec"] /\ age["rec"] < Recovery
        BY <1>8, <3>3 DEF TimerInv, DueInv
      <4>2. age'["due"] <= Recovery - 1
        BY <1>1, <1>3, <1>8, <4>1, Constants
      <4> QED
        BY <1>2, <1>5, <4>2, Constants DEF AgeNames
    <3> QED
      BY <3>1, <3>2, <3>3
  <2> QED
    BY <1>1, <1>4, <1>5, <1>6, <2>1, <2>2, <2>5 DEF TimerInv, DueInv
<1> QED
  BY <1>7, <1>8, Constants

LEMMA PassOfAges ==
  ASSUME TimerInv, NEW reset \in SUBSET {"conn", "prog", "rec", "watch", "silent"}
  PROVE  /\ Ages(reset) \in [AgeNames -> Nat] /\ Ages(reset)["conn"] <= NoJob
         /\ Ages(reset)["due"] = age["due"]
         /\ "rec" \notin reset => Ages(reset)["rec"] = age["rec"]
         /\ age \in [AgeNames -> Nat] /\ age["conn"] <= NoJob
         /\ dark \in Nat /\ dark <= RestartAfter + 1 /\ (dark > 0 => worked)
<1>1. age \in [AgeNames -> Nat] /\ age["conn"] <= NoJob
  BY DEF TimerInv, TimerTypes
<1>2. /\ Ages(reset) \in [AgeNames -> Nat]
      /\ \A t \in AgeNames : Ages(reset)[t] = IF t \in reset THEN 0 ELSE age[t]
  BY <1>1, AgesType DEF AgeNames
<1> QED
  BY <1>1, <1>2, Constants DEF TimerInv, TimerTypes, DueInv, AgeNames

LEMMA BegunBlackout ==
  ASSUME TimerInv
  PROVE  /\ Begun \in Nat /\ Begun <= RestartAfter + 1
         /\ Begun = dark \/ Begun <= 1
         /\ Begun > 0 => worked
BY Constants DEF Begun, TimerInv, TimerTypes, DueInv

(* An overdue restart is due, unless the last recovery is recent. *)
LEMMA OverdueIsDue ==
  ASSUME TimerInv, NEW limit \in {WifiDark, PoolDark}, Begun > RestartAfter
  PROVE  Recovers(limit) <=> age["rec"] >= Recovery
BY BegunBlackout, Constants DEF Recovers

LEMMA RestartIsRecovery ==
  ASSUME TimerInv, NEW limit \in {WifiDark, PoolDark}, Begun > RestartAfter
  PROVE  RestartDue(limit) <=> Recovers(limit)
BY BegunBlackout, Constants DEF RestartDue

LinkTyped == link \in [up : BOOLEAN, auth : BOOLEAN, job : BOOLEAN]

LEMMA LinkTypes ==
  /\ PoolInit => LinkTyped
  /\ LinkTyped /\ [PoolNext]_poolVars => LinkTyped'
<1>1. Down \in [up : BOOLEAN, auth : BOOLEAN, job : BOOLEAN]
  BY DEF Down
<1>2. PoolInit => LinkTyped
  BY <1>1 DEF PoolInit, Booted, LinkTyped
<1>3. ASSUME LinkTyped, [PoolNext]_poolVars
      PROVE  LinkTyped'
  <2>1. CASE link' \in {link, Down}
    BY <1>1, <1>3, <2>1 DEF LinkTyped
  <2>2. CASE \E v \in BOOLEAN : \/ link' = [link EXCEPT !.auth = v]
                               \/ link' = [link EXCEPT !.job = v]
                               \/ link' = [link EXCEPT !.up = v]
    BY <1>3, <2>2 DEF LinkTyped
  <2>3. CASE link' = [Down EXCEPT !.up = TRUE]
    BY <1>1, <2>3 DEF LinkTyped
  <2> QED
    BY <1>3, <2>1, <2>2, <2>3
       DEF PoolNext, PoolPass, PoolLine, ThermalPass, WifiPass, PoolRestart, PoolHeld,
           PoolConnects, PoolRefuses, HandshakeFails, NoAcceptReconnect, HashPass, WaitPass,
           WatchdogReconnect, Subscribed, Authorized, SetExtranonce1, JobNotified,
           ClientReconnect, WifiChanges, HeatChanges, PoolHangsUp, HangUp, Restart, Booted,
           poolVars
<1> QED
  BY <1>2, <1>3

LEMMA TimerStep == TimerInv /\ LinkTyped /\ [PoolNext]_poolVars => TimerInv'
<1> SUFFICES ASSUME TimerInv, LinkTyped, [PoolNext]_poolVars PROVE TimerInv'
  OBVIOUS
<1>1. CASE ThermalPass
  <2>1. Elapse(age, dark) /\ ~link'.up /\ hot /\ worked' = worked
    BY <1>1 DEF ThermalPass, Down
  <2> QED
    BY <2>1, PassOfAges, PassKeepsTimers
<1>2. CASE WifiPass
  <2>1. CASE Restart
    BY <2>1, TimersRestart
  <2>2. CASE ~Restart
    <3> DEFINE reset == IF Recovers(WifiDark) THEN {"rec"} ELSE {}
    <3>1. /\ Elapse(Ages(reset), Begun) /\ ~link'.up /\ ~hot
          /\ worked' = worked /\ ~RestartDue(WifiDark)
      BY <1>2, <2>2 DEF WifiPass, Down
    <3>2. Begun > RestartAfter => ~Recovers(WifiDark) /\ age["rec"] < Recovery
      BY <3>1, OverdueIsDue, RestartIsRecovery, Constants DEF TimerInv, TimerTypes, AgeNames
    <3>3. reset \in SUBSET {"conn", "prog", "rec", "watch", "silent"}
      OBVIOUS
    <3>4. Begun > RestartAfter => "rec" \notin reset
      BY <3>2
    <3> HIDE DEF reset
    <3> QED
      BY <3>1, <3>2, <3>3, <3>4, PassOfAges, BegunBlackout, PassKeepsTimers
  <2> QED
    BY <2>1, <2>2
<1>3. CASE PoolRestart
  BY <1>3, TimersRestart DEF PoolRestart
<1>4. CASE PoolHeld
  <2> DEFINE reset == {"prog"} \union IF Recovers(PoolDark) THEN {"rec"} ELSE {}
  <2>1. /\ Elapse(Ages(reset), Begun) /\ ~link'.up /\ ~hot
        /\ worked' = worked /\ ~RestartDue(PoolDark)
    BY <1>4 DEF PoolHeld, Unlinked, Down
  <2>2. Begun > RestartAfter => ~Recovers(PoolDark) /\ age["rec"] < Recovery
    BY <2>1, OverdueIsDue, RestartIsRecovery, Constants DEF TimerInv, TimerTypes, AgeNames
  <2>3. reset \in SUBSET {"conn", "prog", "rec", "watch", "silent"}
    OBVIOUS
  <2>4. Begun > RestartAfter => "rec" \notin reset
    BY <2>2
  <2> HIDE DEF reset
  <2> QED
    BY <2>1, <2>2, <2>3, <2>4, PassOfAges, BegunBlackout, PassKeepsTimers
<1>5. CASE PoolConnects
  <2> DEFINE a == Ages({"conn", "prog", "silent"})
  <2>1. /\ Elapse(a, Begun) /\ ~hot /\ ~link.up /\ worked' = worked /\ ~Recovers(PoolDark)
    BY <1>5 DEF PoolConnects, Unlinked, Holds
  <2>2. Begun > RestartAfter => age["rec"] < Recovery
    BY <2>1, OverdueIsDue, Constants DEF TimerInv, TimerTypes, AgeNames
  <2>3. /\ a \in [AgeNames -> Nat] /\ a["conn"] = 0 /\ a["silent"] = 0
        /\ a["due"] = age["due"] /\ a["rec"] = age["rec"] /\ a["watch"] >= a["conn"]
    BY AgesType DEF TimerInv, TimerTypes, AgeNames
  <2> HIDE DEF a
  <2> QED
    BY <2>1, <2>2, <2>3, BegunBlackout, PassKeepsTimers, Constants
<1>6. CASE PoolRefuses
  <2>1. CASE Storm /\ Restart
    BY <2>1, TimersRestart
  <2>2. CASE ~(Storm /\ Restart)
    <3>1. /\ Elapse(Ages({"prog"}), Begun) /\ ~hot /\ ~link'.up
          /\ worked' = worked /\ ~Recovers(PoolDark)
      <4>1. ~hot /\ ~Recovers(PoolDark)
        BY <1>6 DEF PoolRefuses, Unlinked, Holds
      <4>2. Elapse(Ages({"prog"}), Begun) /\ link' = Down /\ worked' = worked
        BY <1>6, <2>2 DEF PoolRefuses
      <4> QED
        BY <4>1, <4>2 DEF Down
    <3>2. Begun > RestartAfter => age["rec"] < Recovery
      BY <3>1, OverdueIsDue, Constants DEF TimerInv, TimerTypes, AgeNames
    <3> QED
      BY <3>1, <3>2, PassOfAges, BegunBlackout, PassKeepsTimers
  <2> QED
    BY <2>1, <2>2
<1>7. CASE HandshakeFails \/ NoAcceptReconnect
  <2>1. CASE Restart
    BY <2>1, TimersRestart
  <2>2. CASE ~Restart
    <3>1. Elapse(age, dark) /\ link.up /\ ~link'.up /\ worked' = worked
      BY <1>7, <2>2 DEF HandshakeFails, NoAcceptReconnect, HangUp, Shaken, Linked, Down
    <3> QED
      BY <3>1, PassOfAges, PassKeepsTimers
  <2> QED
    BY <2>1, <2>2
<1>8. CASE HashPass
  <2>1. /\ dark' = 0 /\ link' = link /\ worked' = worked /\ link.up
        /\ age' = [t \in AgeNames |-> IF t \in {"prog", "silent", "due"} THEN 0
                                      ELSE Sooner(age[t] + 1, Top[t])]
    BY <1>8, TopFields DEF HashPass, Shaken, Linked, TimerInv, TimerTypes
  <2>2. \A t \in AgeNames : age[t] \in Nat /\ Top[t] \in Nat
    BY TopFields, Constants DEF TimerInv, TimerTypes, AgeNames
  <2>3. \A t \in AgeNames : age'[t] \in Nat
    BY <2>1, <2>2 DEF Sooner
  <2>4. age' \in [AgeNames -> Nat]
    BY <2>1, <2>3
  <2>5. /\ age'["conn"] = Sooner(age["conn"] + 1, NoJob) /\ age'["silent"] = 0
        /\ age'["watch"] = Sooner(age["watch"] + 1, Cooldown)
        /\ age'["rec"] = Sooner(age["rec"] + 1, Recovery) /\ age'["due"] = 0
    BY <2>1, TopFields DEF AgeNames
  <2>6. {age["conn"], age["watch"], age["rec"]} \subseteq Nat
    BY <2>2 DEF AgeNames
  <2>7. /\ age'["conn"] <= NoJob /\ age'["conn"] >= 1 /\ age'["conn"] \in Nat
        /\ age'["rec"] >= 1
        /\ age'["watch"] >= age'["conn"] \/ age'["watch"] >= Cooldown
    <3>1. age["conn"] >= 1 /\ (age["watch"] >= age["conn"] \/ age["watch"] >= Cooldown)
      BY <2>1 DEF TimerInv, LinkInv
    <3>2. age["conn"] \in Nat /\ age["watch"] \in Nat /\ age["rec"] \in Nat
      BY <2>6
    <3> HIDE <1>8
    <3> QED
      BY <2>5, <3>1, <3>2, Constants DEF Sooner
  <2>8. TimerTypes' /\ LinkInv'
    BY <2>1, <2>4, <2>5, <2>7, Constants DEF TimerTypes, LinkInv
  <2>9. age'["due"] <= Recovery - 1 + IF link'.up THEN age'["conn"] - 1 ELSE NoJob
    BY <2>5, <2>7, Constants
  <2>10. age'["due"] < age'["rec"]
    <3>1. age'["rec"] \in Nat
      BY <2>3 DEF AgeNames
    <3> QED
      BY <2>5, <2>7, <3>1
  <2>11. DueInv'
    BY <2>1, <2>5, <2>7, <2>9, <2>10 DEF DueInv
  <2> QED
    BY <2>8, <2>11 DEF TimerInv
<1>9. CASE WaitPass
  <2>1. /\ Elapse(age, dark) /\ link.up /\ link' = link /\ worked' = worked /\ ~hot
        /\ ~Unanswered /\ ~(link.auth /\ link.job) /\ ~TooLong
    BY <1>9 DEF WaitPass, Shaken, Linked
  <2>2. /\ age["conn"] \in Nat /\ age["watch"] \in Nat /\ age["conn"] <= NoJob
        /\ age["silent"] <= age["conn"]
        /\ age["watch"] >= age["conn"] \/ age["watch"] >= Cooldown
    BY <2>1 DEF TimerInv, TimerTypes, LinkInv, AgeNames
  <2>3. age["conn"] < NoJob
    <3> SUFFICES ASSUME age["conn"] = NoJob PROVE FALSE
      BY <2>2, Constants
    <3>1. link.auth /\ ~link.job
      BY <2>1, Constants DEF Unanswered
    <3>2. age["conn"] >= MinUptime /\ age["watch"] >= Cooldown
      BY <2>2, Constants
    <3> QED
      BY <2>1, <3>1, <3>2, <2>2 DEF TooLong
  <2> QED
    BY <2>1, <2>2, <2>3, PassOfAges, PassKeepsTimers
<1>10. CASE WatchdogReconnect
  <2>1. /\ Elapse(Ages({"prog", "watch"}), dark) /\ link.up /\ ~link'.up /\ worked' = worked
    BY <1>10 DEF WatchdogReconnect, HangUp, Shaken, Linked, Down
  <2> QED
    BY <2>1, PassOfAges, PassKeepsTimers
<1>11. CASE Authorized
  <2>1. PICK ok \in BOOLEAN : /\ link' = [link EXCEPT !.auth = ok]
                              /\ age' = Ages(IF ok THEN {"prog"} ELSE {})
    BY <1>11 DEF Authorized
  <2> DEFINE reset == IF ok THEN {"prog"} ELSE {}
  <2>2. /\ age' \in [AgeNames -> Nat]
        /\ \A t \in AgeNames : age'[t] = IF t \in reset THEN 0 ELSE age[t]
    BY <2>1, AgesType DEF TimerInv, TimerTypes, AgeNames
  <2>3. \A t \in {"conn", "watch", "rec", "silent", "due"} : age'[t] = age[t]
    BY <2>2 DEF AgeNames
  <2>4. dark' = dark /\ worked' = worked
    BY <1>11 DEF Authorized
  <2>5. link'.up = link.up
    BY <2>1 DEF LinkTyped
  <2> QED
    BY <2>2, <2>3, <2>4, <2>5 DEF TimerInv, TimerTypes, LinkInv, DueInv
<1>12. CASE JobNotified
  <2>1. /\ age' = [Ages({"prog"}) EXCEPT !.due = 0] /\ dark' = 0 /\ worked' = TRUE
        /\ link.up /\ link' = [link EXCEPT !.job = TRUE]
    BY <1>12 DEF JobNotified, Linked
  <2>2. /\ Ages({"prog"}) \in [AgeNames -> Nat]
        /\ \A t \in AgeNames : Ages({"prog"})[t] = IF t \in {"prog"} THEN 0 ELSE age[t]
    BY AgesType DEF TimerInv, TimerTypes, AgeNames
  <2>3. /\ age' \in [AgeNames -> Nat] /\ age'["due"] = 0
        /\ \A t \in {"conn", "watch", "rec", "silent"} : age'[t] = age[t]
    BY <2>1, <2>2 DEF AgeNames
  <2>4. age'["conn"] = age["conn"] /\ age'["rec"] = age["rec"]
        /\ age["conn"] \in Nat /\ age["rec"] >= 1 /\ age["conn"] >= 1
    BY <2>1, <2>3 DEF TimerInv, TimerTypes, LinkInv, DueInv, AgeNames
  <2>5. TimerTypes' /\ LinkInv'
    BY <2>1, <2>3, Constants DEF TimerInv, TimerTypes, LinkInv
  <2>6. age'["due"] <= Recovery - 1 + IF link'.up THEN age'["conn"] - 1 ELSE NoJob
    BY <2>3, <2>4, Constants
  <2>7. age'["due"] < age'["rec"]
    <3>1. age'["rec"] \in Nat
      BY <2>3 DEF AgeNames
    <3> QED
      BY <2>3, <2>4, <3>1
  <2>8. DueInv'
    BY <2>1, <2>3, <2>4, <2>6, <2>7 DEF DueInv
  <2> QED
    BY <2>5, <2>8 DEF TimerInv
<1>13. CASE ClientReconnect \/ PoolHangsUp
  <2>1. CASE Restart
    BY <2>1, TimersRestart
  <2>2. CASE ~Restart
    <3>1. link.up /\ ~link'.up /\ UNCHANGED <<age, dark, worked>>
      <4>1. CASE PoolHangsUp
        BY <4>1 DEF PoolHangsUp, LinkTyped
      <4>2. CASE ClientReconnect
        <5>1. link.up
          BY <4>2 DEF ClientReconnect, Linked
        <5>2. link' = Down /\ UNCHANGED <<age, dark, worked>>
          BY <2>2, <4>2 DEF ClientReconnect, HangUp
        <5> QED
          BY <5>1, <5>2 DEF Down
      <4> QED
        BY <1>13, <4>1, <4>2
    <3>2. /\ age["due"] <= Recovery - 1 + (age["conn"] - 1)
          /\ age["conn"] \in Nat /\ age["due"] \in Nat /\ age["conn"] <= NoJob
      BY <3>1 DEF TimerInv, TimerTypes, DueInv, AgeNames
    <3>3. age["due"] <= Recovery - 1 + NoJob
      BY <3>2, Constants
    <3> QED
      BY <3>1, <3>3 DEF TimerInv, TimerTypes, LinkInv, DueInv
  <2> QED
    BY <2>1, <2>2
<1>14. CASE SetExtranonce1
  <2>1. link'.up = link.up /\ UNCHANGED <<age, dark, worked>>
    BY <1>14 DEF SetExtranonce1, LinkTyped
  <2> QED
    BY <2>1 DEF TimerInv, TimerTypes, LinkInv, DueInv
<1>15. CASE UNCHANGED <<link, age, dark, worked>>
  BY <1>15 DEF TimerInv, TimerTypes, LinkInv, DueInv
<1> QED
  BY <1>1, <1>2, <1>3, <1>4, <1>5, <1>6, <1>7, <1>8, <1>9, <1>10, <1>11, <1>12, <1>13,
     <1>14, <1>15
     DEF PoolNext, PoolPass, PoolLine, Subscribed, WifiChanges, HeatChanges, poolVars

(* SilentLinkIsDropped for all timers of the order that the code gives them. *)
THEOREM SilenceIsDropped == PoolSpec => []SilentLinkIsDropped
<1>1. TimerInv => SilentLinkIsDropped
  BY Constants DEF TimerInv, TimerTypes, LinkInv, SilentLinkIsDropped, AgeNames
<1> QED
  BY TimerInit, TimerStep, LinkTypes, <1>1, PTL DEF PoolSpec

(* BlackoutEndsInRestart for all such timers and any number of failed
   connections before the storm sleep. *)
THEOREM DarkFarmRestarts == PoolSpec => []BlackoutEndsInRestart
<1>1. TimerInv => BlackoutEndsInRestart
  BY Constants DEF TimerInv, TimerTypes, DueInv, BlackoutEndsInRestart, AgeNames
<1> QED
  BY TimerInit, TimerStep, LinkTypes, <1>1, PTL DEF PoolSpec
=============================================================================
