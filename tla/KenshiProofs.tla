----------------------------- MODULE KenshiProofs -----------------------------
(***************************************************************************)
(* Proofs about KenshiRuntime: as long as no call has raised, blackboard   *)
(* and spiral agree (ValidateHolds), and the bindings on the blackboard    *)
(* follow the lines of the genome whatever calls raised and whatever       *)
(* events agents emit (BindingsFollowTheLine).                             *)
(***************************************************************************)
EXTENDS KenshiRuntime, Basics, TLAPS

(* The value of a board, as far as the runtime depends on it. *)
IsBoard(b) ==
  /\ b = [agents |-> b.agents, events |-> b.events, active |-> b.active,
          archive |-> b.archive, leases |-> b.leases]
  /\ IsSeq(b.events)

(* The bindings of n among some events. *)
BindingsOf(events, n) ==
  {i \in 1 .. Len(events) : events[i].sender = n /\ IsBinding(events[i])}

After(bound, i) == Cardinality({j \in bound : j > i})

(* The bindings of n name the last nodes of a line, in order. *)
Follow(events, n, line) ==
  /\ Cardinality(BindingsOf(events, n)) <= Len(line)
  /\ \A i \in BindingsOf(events, n) :
       events[i].nodes = {line[Len(line) - After(BindingsOf(events, n), i)]}

(* Each binding comes right after its announcement. *)
AreAnnounced(events) ==
  \A i \in 1 .. Len(events) :
    IsBinding(events[i]) =>
      /\ i > 1
      /\ events[i - 1].kind \in {"STATE_DELTA", "CAUSAL_ACK"}
      /\ events[i - 1].nodes = events[i].nodes
      /\ events[i].parents = {i - 2}

----------------------------------------------------------------------------
(* Calls of the blackboard. *)

LEMMA AppendedFacts ==
  ASSUME NEW b, IsBoard(b), NEW event
  PROVE  /\ IsBoard(Board!Appended(b, event))
         /\ Board!Appended(b, event).events = Append(b.events, event)
         /\ Board!Registered(Board!Appended(b, event))
              = Board!Registered(b) \union {event.sender}
<1> DEFINE id == Len(b.events)
           c  == [b EXCEPT !.events = Append(@, event)]
           d  == Board!InWindow(c, id)
           agent == [d.agents[event.sender] EXCEPT !.last_event_id = id,
                                                   !.event_ids = Append(@, id)]
           agents == [m \in DOMAIN d.agents \union {event.sender} |->
                        IF m = event.sender THEN agent ELSE d.agents[m]]
<1>1. IsSeq(Append(b.events, event))
  BY AppendFacts DEF IsBoard
<1>2. c = [agents |-> b.agents, events |-> Append(b.events, event), active |-> b.active,
           archive |-> b.archive, leases |-> b.leases]
  BY SMTT(30) DEF IsBoard
<1> HIDE DEF id, c
<1>3. \E active, archived :
        d = [agents |-> b.agents, events |-> Append(b.events, event), active |-> active,
             archive |-> archived, leases |-> b.leases]
  BY <1>2 DEF Board!InWindow
<1> HIDE DEF d
<1>4. Board!Appended(b, event) = [d EXCEPT !.agents = agents]
  BY DEF Board!Appended, Board!Filed, Board!WithAgent, Board!Registered, id, c, d
<1> HIDE DEF agent
<1>5. DOMAIN agents = DOMAIN d.agents \union {event.sender}
  OBVIOUS
<1> HIDE DEF agents
<1>6. PICK active, archived :
        d = [agents |-> b.agents, events |-> Append(b.events, event), active |-> active,
             archive |-> archived, leases |-> b.leases]
  BY <1>3
<1>7. Board!Appended(b, event)
        = [agents |-> agents, events |-> Append(b.events, event), active |-> active,
           archive |-> archived, leases |-> b.leases]
  BY <1>4, <1>6
<1> QED
  BY <1>1, <1>5, <1>6, <1>7 DEF IsBoard, Board!Registered

LEMMA RegisteredFacts ==
  ASSUME NEW b, IsBoard(b), NEW n, NEW lineage
  PROVE  /\ IsBoard(Board!AgentRegistered(b, n, lineage, None))
         /\ Board!AgentRegistered(b, n, lineage, None).events = b.events
         /\ Board!Registered(Board!AgentRegistered(b, n, lineage, None))
              = Board!Registered(b) \union {Strip[n]}
<1> DEFINE agent  == Board!NewAgent(Strip[n], lineage, None)
           agents == [m \in DOMAIN b.agents \union {Strip[n]} |->
                        IF m = Strip[n] THEN agent ELSE b.agents[m]]
<1>1. CASE Strip[n] \in Board!Registered(b)
  BY <1>1 DEF Board!AgentRegistered
<1>2. CASE Strip[n] \notin Board!Registered(b)
  <2>1. Board!AgentRegistered(b, n, lineage, None) = [b EXCEPT !.agents = agents]
    BY <1>2 DEF Board!AgentRegistered, Board!WithAgent, Board!Registered
  <2> HIDE DEF agent
  <2>2. DOMAIN agents = DOMAIN b.agents \union {Strip[n]}
    OBVIOUS
  <2> HIDE DEF agents
  <2>3. [b EXCEPT !.agents = agents]
          = [agents |-> agents, events |-> b.events, active |-> b.active,
             archive |-> b.archive, leases |-> b.leases]
    BY DEF IsBoard
  <2> QED
    BY <2>1, <2>2, <2>3 DEF IsBoard, Board!Registered
<1> QED
  BY <1>1, <1>2

(* The fields of an announcement and of a binding. *)
LEMMA AnnouncementFields ==
  ASSUME NEW n, NEW kind, NEW after
  PROVE  LET e == Announcement(n, kind, after)
         IN /\ e.sender = n /\ e.kind = kind /\ e.recipients = {} /\ e.parents = after
            /\ e.nodes = {Last(by_entity'[n])}
            /\ kind # "GENOME_BIND" => ~IsBinding(e)
BY DEF Board!NewEvent, Announcement, IsBinding

LEMMA BindingFields ==
  ASSUME NEW n, NEW after
  PROVE  LET e == Binding(n, after)
         IN /\ e.sender = n /\ e.kind = "GENOME_BIND"
            /\ e.parents = after /\ e.nodes = {Last(by_entity'[n])}
BY DEF Board!NewEvent, Binding

(* What callers emit or hand off binds nothing, whatever its kind. *)
LEMMA MessageFields ==
  ASSUME NEW kind, NEW n, NEW to, NEW after
  PROVE  ~IsBinding(Board!Message(kind, n, to, after))
BY DEF Board!NewEvent, Board!Message, IsBinding

----------------------------------------------------------------------------
(* Bindings. *)

LEMMA OneMoreEvent ==
  ASSUME NEW events, IsSeq(events), NEW event, NEW n
  PROVE  LET all == Append(events, event)
         IN /\ IsSeq(all) /\ Len(events) \in Nat /\ Len(all) = Len(events) + 1
            /\ \A i \in 1 .. Len(events) : all[i] = events[i]
            /\ all[Len(events) + 1] = event
            /\ BindingsOf(all, n)
                 = BindingsOf(events, n) \union
                     (IF event.sender = n /\ IsBinding(event)
                      THEN {Len(events) + 1} ELSE {})
<1> DEFINE all == Append(events, event)
<1>1. /\ IsSeq(all) /\ Len(events) \in Nat /\ Len(all) = Len(events) + 1
      /\ \A i \in 1 .. Len(events) : all[i] = events[i]
      /\ all[Len(events) + 1] = event
  BY SeqFacts, AppendFacts
<1> HIDE DEF all
<1>2. 1 .. Len(all) = (1 .. Len(events)) \union {Len(events) + 1}
  BY <1>1
<1> QED
  BY <1>1, <1>2 DEF BindingsOf, all

LEMMA BindingsAreFinite ==
  ASSUME NEW events, IsSeq(events), NEW n
  PROVE  /\ BindingsOf(events, n) \subseteq 1 .. Len(events) /\ Len(events) \in Nat
         /\ \A B \in SUBSET BindingsOf(events, n) : IsFiniteSet(B) /\ Cardinality(B) \in Nat
<1>1. BindingsOf(events, n) \subseteq 1 .. Len(events) /\ Len(events) \in Nat
  BY SeqFacts DEF BindingsOf
<1>2. IsFiniteSet(1 .. Len(events))
  BY <1>1, FS_Interval
<1> QED
  BY <1>1, <1>2, FS_Subset, FS_CardinalityType

(* An event that binds nothing leaves the bindings as they are. *)
LEMMA OtherEventsFollow ==
  ASSUME NEW events, IsSeq(events), NEW event, NEW n, NEW line, Follow(events, n, line),
         event.sender # n \/ ~IsBinding(event)
  PROVE  /\ Follow(Append(events, event), n, line)
         /\ BindingsOf(Append(events, event), n) = BindingsOf(events, n)
<1> DEFINE all == Append(events, event)
<1>1. BindingsOf(all, n) = BindingsOf(events, n) /\ \A i \in 1 .. Len(events) : all[i] = events[i]
  <2>1. /\ BindingsOf(all, n)
             = BindingsOf(events, n) \union
                 (IF event.sender = n /\ IsBinding(event)
                  THEN {Len(events) + 1} ELSE {})
        /\ \A i \in 1 .. Len(events) : all[i] = events[i]
    BY OneMoreEvent
  <2> HIDE DEF all
  <2> QED
    BY <2>1
<1>2. \A i \in BindingsOf(events, n) : all[i] = events[i]
  BY <1>1 DEF BindingsOf
<1> HIDE DEF all
<1>3. Follow(all, n, line)
  BY <1>1, <1>2 DEF Follow
<1> QED
  BY <1>1, <1>3 DEF all

Binds(event, n, id) ==
  event.sender = n /\ event.kind = "GENOME_BIND" /\ event.nodes = {id}

(* A turn of n and its binding. *)
LEMMA BindingFollows ==
  ASSUME NEW events, IsSeq(events), NEW event, NEW n, NEW line, IsSeq(line), NEW id,
         Follow(events, n, line), Binds(event, n, id)
  PROVE  /\ Follow(Append(events, event), n, Append(line, id))
         /\ Cardinality(BindingsOf(Append(events, event), n))
              = Cardinality(BindingsOf(events, n)) + 1
<1> DEFINE all   == Append(events, event)
           old   == BindingsOf(events, n)
           bound == BindingsOf(all, n)
           last  == Len(events) + 1
           grown == Append(line, id)
<1>1. /\ bound = old \union {last} /\ Len(events) \in Nat /\ all[last] = event
      /\ \A i \in 1 .. Len(events) : all[i] = events[i]
      /\ event.nodes = {id}
  <2>1. event.sender = n /\ IsBinding(event) /\ event.nodes = {id}
    BY DEF Binds, IsBinding
  <2>2. /\ BindingsOf(all, n)
             = BindingsOf(events, n) \union
                 (IF event.sender = n /\ IsBinding(event) THEN {last} ELSE {})
        /\ Len(events) \in Nat /\ all[last] = event
        /\ \A i \in 1 .. Len(events) : all[i] = events[i]
    BY OneMoreEvent
  <2> HIDE DEF all, last
  <2> QED
    BY <2>1, <2>2
<1>2. old \subseteq 1 .. Len(events) /\ \A B \in SUBSET old : IsFiniteSet(B) /\ Cardinality(B) \in Nat
  BY BindingsAreFinite
<1>3. /\ Len(line) \in Nat /\ Len(grown) = Len(line) + 1 /\ grown[Len(line) + 1] = id
      /\ \A k \in 1 .. Len(line) : grown[k] = line[k]
  BY SeqFacts, AppendFacts
<1>4. Cardinality(old) <= Len(line)
      /\ \A i \in old : events[i].nodes = {line[Len(line) - After(old, i)]}
  BY DEF Follow
<1> HIDE DEF all, old, bound, grown
<1>5. last \notin old /\ last \in Nat
  BY <1>1, <1>2
<1>6. Cardinality(bound) = Cardinality(old) + 1 /\ Cardinality(old) \in Nat
  BY <1>1, <1>2, <1>5, FS_AddElement
<1>7. ASSUME NEW i \in old
      PROVE  all[i].nodes = {grown[Len(grown) - After(bound, i)]}
  <2> DEFINE later == {j \in old : j > i}
  <2>1. {j \in bound : j > i} = later \union {last}
    BY <1>1, <1>2
  <2>2. IsFiniteSet(later) /\ last \notin later /\ Cardinality(later) \in Nat
    BY <1>2, <1>5
  <2>3. After(bound, i) = After(old, i) + 1
    BY <2>1, <2>2, FS_AddElement DEF After
  <2>4. Cardinality(later) < Cardinality(old)
    <3>1. later \subseteq old /\ later # old
      BY <1>2
    <3> QED
      BY <3>1, <1>2, FS_Subset
  <2>5. Len(line) - After(old, i) \in 1 .. Len(line)
    BY <1>3, <1>4, <1>6, <2>2, <2>4 DEF After
  <2>6. Len(grown) - After(bound, i) = Len(line) - After(old, i)
    BY <1>3, <2>2, <2>3 DEF After
  <2>7. all[i] = events[i]
    BY <1>1, <1>2
  <2> QED
    BY <1>3, <1>4, <2>5, <2>6, <2>7
<1>8. all[last].nodes = {grown[Len(grown) - After(bound, last)]}
  <2>1. {j \in bound : j > last} = {}
    <3>1. \A j \in bound : j = last \/ j \in 1 .. Len(events)
      BY <1>1, <1>2
    <3>2. \A j \in bound : ~(j > last)
      BY <1>1, <3>1
    <3> QED
      BY <3>2
  <2>2. After(bound, last) = 0
    BY <2>1, FS_EmptySet DEF After
  <2> QED
    BY <1>1, <1>3, <2>2
<1>9. Follow(all, n, grown)
  <2>1. \A i \in bound : all[i].nodes = {grown[Len(grown) - After(bound, i)]}
    BY <1>1, <1>7, <1>8
  <2>2. Cardinality(bound) <= Len(grown)
    BY <1>3, <1>4, <1>6
  <2> QED
    BY <2>1, <2>2 DEF Follow, bound
<1> QED
  BY <1>6, <1>9 DEF all, old, bound, grown

(* Nothing binds n: any line will do. *)
LEMMA UnboundFollows ==
  ASSUME NEW events, NEW n, NEW line, IsSeq(line), BindingsOf(events, n) = {}
  PROVE  Follow(events, n, line)
BY SeqFacts, FS_EmptySet DEF Follow

LEMMA OtherEventIsAnnounced ==
  ASSUME NEW events, IsSeq(events), AreAnnounced(events), NEW event, ~IsBinding(event)
  PROVE  AreAnnounced(Append(events, event))
<1> DEFINE all == Append(events, event)
<1>1. /\ Len(events) \in Nat /\ Len(all) = Len(events) + 1
      /\ \A i \in 1 .. Len(events) : all[i] = events[i]
      /\ all[Len(events) + 1] = event
  BY OneMoreEvent
<1> HIDE DEF all
<1>2. ASSUME NEW i \in 1 .. Len(all), IsBinding(all[i])
      PROVE  /\ i > 1 /\ all[i - 1].kind \in {"STATE_DELTA", "CAUSAL_ACK"}
             /\ all[i - 1].nodes = all[i].nodes /\ all[i].parents = {i - 2}
  <2>1. i \in 1 .. Len(events)
    BY <1>1, <1>2
  <2>2. i > 1 => i - 1 \in 1 .. Len(events)
    BY <1>1, <2>1
  <2> QED
    BY <1>1, <1>2, <2>1, <2>2 DEF AreAnnounced
<1>3. AreAnnounced(all)
  BY <1>2 DEF AreAnnounced
<1> QED
  BY <1>3 DEF all

LEMMA BindingIsAnnounced ==
  ASSUME NEW events, IsSeq(events), AreAnnounced(events), NEW event,
         Len(events) > 0, events[Len(events)].kind \in {"STATE_DELTA", "CAUSAL_ACK"},
         events[Len(events)].nodes = event.nodes, event.parents = {Len(events) - 1}
  PROVE  AreAnnounced(Append(events, event))
<1> DEFINE all == Append(events, event)
<1>1. /\ Len(events) \in Nat /\ Len(all) = Len(events) + 1
      /\ \A i \in 1 .. Len(events) : all[i] = events[i]
      /\ all[Len(events) + 1] = event
  BY OneMoreEvent
<1> HIDE DEF all
<1>2. ASSUME NEW i \in 1 .. Len(all), IsBinding(all[i])
      PROVE  /\ i > 1 /\ all[i - 1].kind \in {"STATE_DELTA", "CAUSAL_ACK"}
             /\ all[i - 1].nodes = all[i].nodes /\ all[i].parents = {i - 2}
  <2>1. CASE i \in 1 .. Len(events)
    <3>1. i > 1 => i - 1 \in 1 .. Len(events)
      BY <1>1, <2>1
    <3> QED
      BY <1>1, <1>2, <2>1, <3>1 DEF AreAnnounced
  <2>2. CASE i = Len(events) + 1
    <3>1. /\ i - 1 = Len(events) /\ i - 2 = Len(events) - 1 /\ i > 1
          /\ Len(events) \in 1 .. Len(events)
      BY <1>1, <2>2
    <3> QED
      BY <1>1, <2>2, <3>1
  <2> QED
    BY <1>1, <2>1, <2>2
<1>3. AreAnnounced(all)
  BY <1>2 DEF AreAnnounced
<1> QED
  BY <1>3 DEF all

----------------------------------------------------------------------------
(* The turns that the runtime takes. *)

Grown(n) == Append(by_entity[n], [entity |-> n, turn |-> Len(by_entity[n])])

(* The line of an agent numbers the turns of its ledger from the first. *)
LinesInv ==
  /\ ledgers = [n \in Name |-> ledgers[n]] /\ by_entity = [n \in Name |-> by_entity[n]]
  /\ \A n \in Name :
       /\ IsSeq(ledgers[n]) /\ IsSeq(by_entity[n]) /\ Len(by_entity[n]) <= Len(ledgers[n])
       /\ \A i \in 1 .. Len(ledgers[n]) : ledgers[n][i].turn = i - 1
       /\ \A i \in 1 .. Len(by_entity[n]) :
            /\ by_entity[n][i] = [entity |-> n, turn |-> i - 1]
            /\ by_entity[n][i] \in DOMAIN nodes
            /\ nodes[by_entity[n][i]].primary = IF i = 1 THEN None ELSE by_entity[n][i - 1]

(* Each node is of one line, and was chronicled once. *)
NodesInv ==
  /\ \A m \in DOMAIN nodes : \E n \in Name : \E i \in 1 .. Len(by_entity[n]) : m = by_entity[n][i]
  /\ IsSeq(chronicle) /\ IsFiniteSet(DOMAIN nodes)
  /\ Cardinality(DOMAIN nodes) = Len(chronicle)

TurnsInv == LinesInv /\ NodesInv

(* The genome refuses the turn, or takes it as the next of its line. *)
LEMMA TurnIsTaken ==
  ASSUME TurnsInv, NEW n \in Name, NEW candidate, NEW promoted,
         Spiral!Integrate(n, candidate, promoted, <<>>)
  PROVE  /\ \A m \in Name : m # n => ledgers'[m] = ledgers[m] /\ by_entity'[m] = by_entity[m]
         /\ Len(ledgers[n]) \in Nat /\ Len(ledgers'[n]) = Len(ledgers[n]) + 1
         /\ ~Integrated(n) => by_entity'[n] = by_entity[n]
         /\ Integrated(n) => Len(by_entity[n]) = Len(ledgers[n]) /\ by_entity'[n] = Grown(n)
         /\ TurnsInv'
<1> DEFINE turn == Spiral!NewTurn(n, candidate, promoted)
           id   == Spiral!IdOf(n, turn)
           k    == Len(ledgers[n])
<1>1. turn.turn = k
  BY DEF Spiral!NewTurn
<1>2. id = [entity |-> n, turn |-> k]
  BY <1>1 DEF Spiral!IdOf
<1>3. /\ ledgers' = [ledgers EXCEPT ![n] = Append(@, turn)]
      /\ IF Spiral!Registrable(n, turn, <<>>)
         THEN /\ Spiral!RegisterTurn(n, turn, <<>>)
              /\ chronicle' = Append(chronicle, id)
         ELSE UNCHANGED <<nodes, by_entity, chronicle>>
  BY DEF Spiral!Integrate, Spiral!genome
<1>4. /\ by_entity = [m \in Name |-> by_entity[m]] /\ ledgers = [m \in Name |-> ledgers[m]]
      /\ \A m \in Name : /\ IsSeq(ledgers[m]) /\ IsSeq(by_entity[m])
                         /\ Len(ledgers[m]) \in Nat /\ Len(by_entity[m]) \in Nat
                         /\ Len(by_entity[m]) <= Len(ledgers[m])
  BY SeqFacts DEF TurnsInv, LinesInv
<1> HIDE DEF turn, id
<1>5. /\ ledgers' = [m \in Name |-> ledgers'[m]]
      /\ \A m \in Name : m # n => ledgers'[m] = ledgers[m]
      /\ ledgers'[n] = Append(ledgers[n], turn)
  BY <1>3, <1>4
<1>6. /\ IsSeq(ledgers'[n]) /\ Len(ledgers'[n]) = k + 1
      /\ \A i \in 1 .. k : ledgers'[n][i] = ledgers[n][i]
      /\ ledgers'[n][k + 1] = turn
  BY <1>4, <1>5, AppendFacts
<1>7. ASSUME NEW m \in Name
      PROVE  IsSeq(ledgers'[m]) /\ \A i \in 1 .. Len(ledgers'[m]) : ledgers'[m][i].turn = i - 1
  <2>1. CASE m # n
    BY <1>5, <2>1 DEF TurnsInv, LinesInv
  <2>2. CASE m = n
    <3>1. \A i \in 1 .. k + 1 : i \in 1 .. k \/ i = k + 1
      BY <1>4
    <3>2. \A i \in 1 .. k : ledgers[n][i].turn = i - 1
      BY DEF TurnsInv, LinesInv
    <3>3. ledgers'[n][k + 1].turn = (k + 1) - 1
      BY <1>1, <1>4, <1>6
    <3> QED
      BY <1>6, <2>2, <3>1, <3>2, <3>3
  <2> QED
    BY <2>1, <2>2
<1>8. CASE ~Spiral!Registrable(n, turn, <<>>)
  <2>1. UNCHANGED <<nodes, by_entity, chronicle>>
    BY <1>3, <1>8
  <2>2. \A m \in Name : Len(by_entity[m]) <= Len(ledgers'[m])
    BY <1>4, <1>5, <1>6
  <2>3. LinesInv'
    BY <1>5, <1>7, <2>1, <2>2 DEF TurnsInv, LinesInv
  <2>4. NodesInv'
    BY <2>1 DEF TurnsInv, NodesInv
  <2> QED
    BY <1>4, <1>5, <1>6, <2>1, <2>3, <2>4 DEF TurnsInv, Integrated
<1>9. CASE Spiral!Registrable(n, turn, <<>>)
  <2>1. Len(by_entity[n]) = k
    BY <1>1, <1>4, <1>9 DEF Spiral!Registrable
  <2>2. Spiral!Primary(n, turn) = IF k = 0 THEN None ELSE by_entity[n][k]
    BY <1>1, <2>1 DEF Spiral!Primary, Spiral!Last
  <2>3. /\ by_entity' = [by_entity EXCEPT ![n] = Append(@, id)]
        /\ DOMAIN nodes' = DOMAIN nodes \union {id}
        /\ nodes'[id].primary = Spiral!Primary(n, turn)
        /\ \A m \in DOMAIN nodes : m # id => nodes'[m] = nodes[m]
    BY <1>3, <1>9 DEF Spiral!RegisterTurn, id
  <2>4. /\ by_entity' = [m \in Name |-> by_entity'[m]]
        /\ \A m \in Name : m # n => by_entity'[m] = by_entity[m]
        /\ by_entity'[n] = Append(by_entity[n], id)
    BY <1>4, <2>3
  <2>5. /\ IsSeq(by_entity'[n]) /\ Len(by_entity'[n]) = k + 1
        /\ \A i \in 1 .. k : by_entity'[n][i] = by_entity[n][i]
        /\ by_entity'[n][k + 1] = id
    BY <1>4, <2>1, <2>4, AppendFacts
  <2>6. id \notin DOMAIN nodes
    <3> SUFFICES ASSUME NEW m \in Name, NEW i \in 1 .. Len(by_entity[m]), id = by_entity[m][i]
                 PROVE  FALSE
      BY DEF TurnsInv, NodesInv
    <3>1. id = [entity |-> m, turn |-> i - 1]
      BY DEF TurnsInv, LinesInv
    <3>2. m = n /\ i - 1 = k
      BY <1>2, <3>1
    <3> QED
      BY <1>4, <2>1, <3>2
  <2>7. ASSUME NEW m \in Name, NEW i \in 1 .. Len(by_entity'[m])
        PROVE  /\ by_entity'[m][i] = [entity |-> m, turn |-> i - 1]
               /\ by_entity'[m][i] \in DOMAIN nodes'
               /\ nodes'[by_entity'[m][i]].primary
                    = IF i = 1 THEN None ELSE by_entity'[m][i - 1]
    <3>1. CASE m # n
      <4>1. by_entity'[m] = by_entity[m]
        BY <2>4, <3>1
      <4> QED
        BY <4>1, <2>3, <2>6 DEF TurnsInv, LinesInv
    <3>2. CASE m = n /\ i \in 1 .. k
      <4>1. by_entity'[n][i] = by_entity[n][i] /\ (i # 1 => by_entity'[n][i - 1] = by_entity[n][i - 1])
        BY <1>4, <2>5, <3>2
      <4>2. /\ by_entity[n][i] = [entity |-> n, turn |-> i - 1]
            /\ by_entity[n][i] \in DOMAIN nodes
            /\ nodes[by_entity[n][i]].primary = IF i = 1 THEN None ELSE by_entity[n][i - 1]
        BY <2>1, <3>2 DEF TurnsInv, LinesInv
      <4> QED
        BY <2>3, <2>6, <3>2, <4>1, <4>2
    <3>3. CASE m = n /\ i = k + 1
      <4>1. i - 1 = k /\ (i = 1 <=> k = 0) /\ (k # 0 => k \in 1 .. k)
        BY <1>4, <3>3
      <4>2. k # 0 => by_entity'[n][k] = by_entity[n][k]
        BY <2>5, <4>1
      <4> QED
        BY <1>2, <2>2, <2>3, <2>5, <3>3, <4>1, <4>2
    <3>4. m = n => i \in 1 .. k \/ i = k + 1
      BY <1>4, <2>5
    <3> QED
      BY <3>1, <3>2, <3>3, <3>4
  <2>8. ASSUME NEW m \in Name
        PROVE  IsSeq(by_entity'[m]) /\ Len(by_entity'[m]) <= Len(ledgers'[m])
    <3>1. CASE m # n
      BY <1>4, <1>5, <2>4, <3>1
    <3>2. CASE m = n
      BY <1>4, <1>6, <2>5, <3>2
    <3> QED
      BY <3>1, <3>2
  <2>9. LinesInv'
    BY <1>5, <1>7, <2>4, <2>7, <2>8 DEF LinesInv
  <2>10. NodesInv'
    <3>1. chronicle' = Append(chronicle, id)
      BY <1>3, <1>9
    <3>2. IsSeq(chronicle') /\ Len(chronicle') = Len(chronicle) + 1 /\ Len(chronicle) \in Nat
      BY <3>1, AppendFacts, SeqFacts DEF TurnsInv, NodesInv
    <3>3. /\ IsFiniteSet(DOMAIN nodes')
          /\ Cardinality(DOMAIN nodes') = Cardinality(DOMAIN nodes) + 1
      BY <2>3, <2>6, FS_AddElement DEF TurnsInv, NodesInv
    <3>4. ASSUME NEW m \in DOMAIN nodes'
          PROVE  \E l \in Name : \E i \in 1 .. Len(by_entity'[l]) : m = by_entity'[l][i]
      <4>1. CASE m = id
        <5>1. k + 1 \in 1 .. Len(by_entity'[n])
          BY <1>4, <2>5
        <5> QED
          BY <2>5, <4>1, <5>1
      <4>2. CASE m \in DOMAIN nodes
        <5>1. PICK l \in Name : \E i \in 1 .. Len(by_entity[l]) : m = by_entity[l][i]
          BY <4>2 DEF TurnsInv, NodesInv
        <5>2. PICK i \in 1 .. Len(by_entity[l]) : m = by_entity[l][i]
          BY <5>1
        <5>3. CASE l # n
          BY <2>4, <5>2, <5>3
        <5>4. CASE l = n
          <6>1. i \in 1 .. k /\ i \in 1 .. k + 1
            BY <1>4, <2>1, <5>2, <5>4
          <6> QED
            BY <2>5, <5>2, <5>4, <6>1
        <5> QED
          BY <5>3, <5>4
      <4> QED
        BY <2>3, <4>1, <4>2
    <3> QED
      BY <3>2, <3>3, <3>4 DEF TurnsInv, NodesInv
  <2>11. by_entity'[n] = Grown(n) /\ by_entity'[n] # by_entity[n]
    <3>1. Len(by_entity'[n]) # Len(by_entity[n])
      BY <1>4, <2>1, <2>5
    <3> QED
      BY <1>2, <2>1, <2>4, <3>1 DEF Grown
  <2> QED
    BY <1>4, <1>5, <1>6, <2>1, <2>4, <2>9, <2>10, <2>11 DEF TurnsInv, Integrated
<1> QED
  BY <1>8, <1>9

----------------------------------------------------------------------------
(* The invariant. *)

(* A name that strips to n has turns. *)
IsInSpiral(n) == \E m \in Name : Strip[m] = n /\ Len(ledgers[m]) > 0

(* Agents are registered under stripped names, once the spiral knows them, and
   only they send events. *)
AgentsInv ==
  /\ \A n \in Board!Registered(board) : n \in Name /\ Strip[n] = n /\ IsInSpiral(n)
  /\ \A i \in 1 .. Len(board.events) : board.events[i].sender \in Board!Registered(board)

(* What no call that raised has disturbed. *)
CleanInv ==
  clean => \A n \in Name :
             /\ n \in Board!Registered(board) <=> Len(ledgers[n]) > 0
             /\ Len(by_entity[n]) = Len(ledgers[n])
             /\ Cardinality(BindingsOf(board.events, n)) = Len(by_entity[n])

BoundInv ==
  /\ \A n \in Name : Follow(board.events, n, by_entity[n])
  /\ AreAnnounced(board.events)

KenshiInv == IsBoard(board) /\ TurnsInv /\ AgentsInv /\ CleanInv /\ BoundInv

LEMMA KenshiStart == Init => KenshiInv
<1> SUFFICES ASSUME Init PROVE KenshiInv
  OBVIOUS
<1>1. IsSeq(<<>>) /\ Len(<<>>) = 0
  BY EmptySeq DEF IsSeq
<1>2. /\ board = [agents |-> <<>>, events |-> <<>>, active |-> <<>>, archive |-> <<>>,
                  leases |-> [o \in {} |-> None]]
      /\ ledgers = [n \in Name |-> <<>>] /\ by_entity = [n \in Name |-> <<>>]
      /\ nodes = <<>> /\ chronicle = <<>>
  BY DEF Init, Board!Init, Board!EmptyBoard, Spiral!SpiralInit
<1>3. DOMAIN nodes = {} /\ Board!Registered(board) = {} /\ board.events = <<>>
  BY <1>2 DEF Board!Registered
<1>4. IsBoard(board)
  BY <1>1, <1>2 DEF IsBoard
<1>5. TurnsInv
  BY <1>1, <1>2, <1>3, FS_EmptySet DEF TurnsInv, LinesInv, NodesInv
<1>6. \A n : BindingsOf(board.events, n) = {}
  BY <1>1, <1>3 DEF BindingsOf
<1>7. AgentsInv /\ AreAnnounced(board.events)
  BY <1>1, <1>3 DEF AgentsInv, AreAnnounced
<1>8. CleanInv
  <2>1. Cardinality({}) = 0
    BY FS_EmptySet
  <2>2. \A n \in Name : ledgers[n] = <<>> /\ by_entity[n] = <<>>
    BY <1>2
  <2>3. \A n \in Name : Len(ledgers[n]) = 0 /\ Len(by_entity[n]) = 0
    BY <1>1, <2>2
  <2>4. \A n \in Name : Cardinality(BindingsOf(board.events, n)) = 0
    BY <1>6, <2>1
  <2> QED
    BY <1>3, <2>3, <2>4 DEF CleanInv
<1>9. \A n \in Name : Follow(board.events, n, by_entity[n])
  BY <1>1, <1>2, <1>6, UnboundFollows
<1> QED
  BY <1>4, <1>5, <1>7, <1>8, <1>9 DEF KenshiInv, BoundInv

(* A turn has been taken or refused; the event that announces it and the
   binding follow when the genome took it and the agent is known. *)
LEMMA TurnEndsKeeps ==
  ASSUME KenshiInv, NEW n \in Name, NEW candidate, NEW promoted,
         Spiral!Integrate(n, candidate, promoted, <<>>),
         NEW b, IsBoard(b), b.events = board.events,
         Board!Registered(board) \subseteq Board!Registered(b),
         \A m \in Board!Registered(b) :
           m \in Name /\ Strip[m] = m /\ (m \in Board!Registered(board) \/ m = Strip[n]),
         clean /\ n \in Board!Registered(b) =>
           Board!Registered(b) = Board!Registered(board) \union {n},
         NEW kind \in {"STATE_DELTA", "CAUSAL_ACK"},
         NEW triggers, triggers \subseteq Board!EventIds(b),
         TurnEnds(b, n, kind, triggers)
  PROVE  KenshiInv'
<1> DEFINE announcement == Announcement(n, kind, triggers)
           binding == Binding(n, {Len(b.events)})
           all == Append(Append(b.events, announcement), binding)
<1>1. /\ \A m \in Name : m # n => ledgers'[m] = ledgers[m] /\ by_entity'[m] = by_entity[m]
      /\ Len(ledgers[n]) \in Nat /\ Len(ledgers'[n]) = Len(ledgers[n]) + 1
      /\ ~Integrated(n) => by_entity'[n] = by_entity[n]
      /\ Integrated(n) => Len(by_entity[n]) = Len(ledgers[n]) /\ by_entity'[n] = Grown(n)
      /\ TurnsInv'
  BY TurnIsTaken DEF KenshiInv
<1>2. /\ \A m \in Board!Registered(b) : m \in Name /\ Strip[m] = m /\ IsInSpiral(m)'
      /\ \A i \in 1 .. Len(b.events) : b.events[i].sender \in Board!Registered(b)
  <2>1. \A i \in 1 .. Len(b.events) : b.events[i].sender \in Board!Registered(b)
    BY DEF KenshiInv, AgentsInv
  <2>2. ASSUME NEW m \in Board!Registered(b) PROVE IsInSpiral(m)'
    <3>1. CASE m = Strip[n]
      <4>1. Len(ledgers'[n]) > 0
        BY <1>1
      <4> QED
        BY <3>1, <4>1 DEF IsInSpiral
    <3>2. CASE m \in Board!Registered(board)
      <4>1. PICK l \in Name : Strip[l] = m /\ Len(ledgers[l]) > 0
        BY <3>2 DEF KenshiInv, AgentsInv, IsInSpiral
      <4>2. Len(ledgers'[l]) > 0
        BY <1>1, <4>1
      <4> QED
        BY <4>1, <4>2 DEF IsInSpiral
    <3> QED
      BY <3>1, <3>2
  <2> QED
    BY <2>1, <2>2
<1>3. /\ announcement.sender = n /\ announcement.kind = kind /\ ~IsBinding(announcement)
      /\ announcement.recipients = {}
      /\ announcement.parents = triggers /\ announcement.nodes = {Last(by_entity'[n])}
      /\ binding.sender = n /\ binding.kind = "GENOME_BIND"
      /\ binding.parents = {Len(b.events)} /\ binding.nodes = {Last(by_entity'[n])}
  <2>1. /\ announcement.sender = n /\ announcement.kind = kind /\ ~IsBinding(announcement)
        /\ announcement.recipients = {} /\ announcement.parents = triggers
        /\ announcement.nodes = {Last(by_entity'[n])}
    BY AnnouncementFields
  <2>2. /\ binding.sender = n /\ binding.kind = "GENOME_BIND"
        /\ binding.parents = {Len(b.events)} /\ binding.nodes = {Last(by_entity'[n])}
    BY BindingFields
  <2> QED
    BY <2>1, <2>2
<1>4. \A m \in Name : IsSeq(by_entity'[m])
  BY <1>1 DEF TurnsInv, LinesInv
<1> HIDE DEF announcement, binding, all
<1>5. CASE ~Integrated(n) \/ n \notin Board!Registered(b)
  <2>1. board' = b /\ clean' = FALSE
    BY <1>3, <1>5 DEF TurnEnds, Announced, Board!Ends, Board!Accepts, announcement
  <2>2. AgentsInv' /\ CleanInv' /\ IsBoard(board')
    BY <1>2, <2>1 DEF AgentsInv, CleanInv, Board!Registered
  <2>3. ASSUME NEW m \in Name
        PROVE  Follow(board'.events, m, by_entity'[m])
    <3>1. CASE by_entity'[m] = by_entity[m]
      BY <2>1, <3>1 DEF KenshiInv, BoundInv
    <3>2. CASE m = n /\ n \notin Board!Registered(b)
      <4>1. BindingsOf(board'.events, m) = {}
        BY <1>2, <2>1, <3>2 DEF BindingsOf
      <4> QED
        BY <1>4, <4>1, UnboundFollows
    <3> QED
      BY <1>1, <1>5, <3>1, <3>2
  <2>4. AreAnnounced(board'.events)
    BY <2>1 DEF KenshiInv, BoundInv
  <2> QED
    BY <1>1, <2>2, <2>3, <2>4 DEF KenshiInv, BoundInv
<1>6. CASE Integrated(n) /\ n \in Board!Registered(b)
  <2>1. /\ board' = Board!Appended(Board!Appended(b, announcement), binding)
        /\ clean' = clean
    <3>1. Board!Accepts(b, announcement)
      BY <1>3, <1>6 DEF Board!Accepts, Board!EventType
    <3> QED
      BY <1>6, <3>1 DEF TurnEnds, Announced, Board!Ends, announcement, binding
  <2>2. /\ IsBoard(board') /\ board'.events = all
        /\ Board!Registered(board') = Board!Registered(b)
    <3>1. /\ IsBoard(Board!Appended(b, announcement))
          /\ Board!Appended(b, announcement).events = Append(b.events, announcement)
          /\ Board!Registered(Board!Appended(b, announcement))
               = Board!Registered(b) \union {announcement.sender}
      BY AppendedFacts
    <3>2. /\ IsBoard(board')
          /\ board'.events = Append(Board!Appended(b, announcement).events, binding)
          /\ Board!Registered(board')
               = Board!Registered(Board!Appended(b, announcement)) \union {binding.sender}
      BY <2>1, <3>1, AppendedFacts
    <3> QED
      BY <1>3, <1>6, <3>1, <3>2 DEF all
  <2> DEFINE more == Append(b.events, announcement)
             id   == [entity |-> n, turn |-> Len(by_entity[n])]
  <2>3. /\ IsSeq(b.events) /\ IsSeq(more) /\ Len(b.events) \in Nat /\ Len(more) = Len(b.events) + 1
        /\ \A i \in 1 .. Len(b.events) : more[i] = b.events[i]
        /\ more[Len(b.events) + 1] = announcement
    BY AppendFacts, SeqFacts DEF IsBoard
  <2>4. /\ Len(all) = Len(more) + 1 /\ all = Append(more, binding)
        /\ \A i \in 1 .. Len(more) : all[i] = more[i]
        /\ all[Len(more) + 1] = binding
    BY <2>3, AppendFacts DEF all
  <2>5. by_entity'[n] = Append(by_entity[n], id) /\ Last(by_entity'[n]) = id
    <3>1. IsSeq(by_entity[n]) /\ by_entity'[n] = Append(by_entity[n], id)
      BY <1>1, <1>6 DEF Grown, KenshiInv, TurnsInv, LinesInv
    <3> QED
      BY <3>1, AppendFacts, SeqFacts DEF Last
  <2> HIDE DEF more, id
  <2>6. \A m \in Name : Follow(more, m, by_entity[m]) /\ BindingsOf(more, m) = BindingsOf(b.events, m)
    BY <1>3, <2>3, OtherEventsFollow DEF KenshiInv, BoundInv, more
  <2>7. /\ Follow(all, n, by_entity'[n])
        /\ Cardinality(BindingsOf(all, n)) = Cardinality(BindingsOf(b.events, n)) + 1
    <3>1. IsSeq(by_entity[n])
      BY DEF KenshiInv, TurnsInv, LinesInv
    <3>2. /\ IsSeq(more) /\ Follow(more, n, by_entity[n])
          /\ Binds(binding, n, id)
      BY <1>3, <2>3, <2>5, <2>6 DEF Binds
    <3>3. /\ Follow(Append(more, binding), n, Append(by_entity[n], id))
          /\ Cardinality(BindingsOf(Append(more, binding), n))
               = Cardinality(BindingsOf(more, n)) + 1
      BY <3>1, <3>2, BindingFollows, SMTT(30)
    <3> QED
      BY <2>4, <2>5, <2>6, <3>3
  <2>8. \A m \in Name : m # n => /\ Follow(all, m, by_entity'[m])
                                 /\ BindingsOf(all, m) = BindingsOf(b.events, m)
    <3> SUFFICES ASSUME NEW m \in Name, m # n
                 PROVE  /\ Follow(all, m, by_entity'[m])
                        /\ BindingsOf(all, m) = BindingsOf(b.events, m)
      OBVIOUS
    <3>1. /\ Follow(Append(more, binding), m, by_entity[m])
          /\ BindingsOf(Append(more, binding), m) = BindingsOf(more, m)
      BY <1>3, <2>3, <2>6, OtherEventsFollow
    <3> QED
      BY <1>1, <2>4, <2>6, <3>1
  <2>9. AreAnnounced(all)
    <3>1. AreAnnounced(more)
      BY <1>3, <2>3, OtherEventIsAnnounced DEF KenshiInv, BoundInv, more
    <3>2. /\ Len(more) > 0 /\ more[Len(more)].kind \in {"STATE_DELTA", "CAUSAL_ACK"}
          /\ more[Len(more)].nodes = binding.nodes /\ binding.parents = {Len(more) - 1}
      BY <1>3, <2>3
    <3> QED
      BY <2>3, <2>4, <3>1, <3>2, BindingIsAnnounced
  <2>10. BoundInv'
    BY <2>2, <2>7, <2>8, <2>9 DEF BoundInv
  <2>11. AgentsInv'
    <3>1. ASSUME NEW i \in 1 .. Len(all) PROVE all[i].sender \in Board!Registered(b)
      <4>1. i \in 1 .. Len(b.events) \/ i = Len(more) \/ i = Len(more) + 1
        BY <2>3, <2>4
      <4>2. Len(more) \in 1 .. Len(more) /\ \A j \in 1 .. Len(b.events) : j \in 1 .. Len(more)
        BY <2>3
      <4>3. CASE i \in 1 .. Len(b.events)
        BY <1>2, <2>3, <2>4, <4>2, <4>3
      <4>4. CASE i = Len(more) \/ i = Len(more) + 1
        BY <1>3, <1>6, <2>3, <2>4, <4>2, <4>4
      <4> QED
        BY <4>1, <4>3, <4>4
    <3> QED
      BY <1>2, <2>2, <3>1 DEF AgentsInv, Board!Registered
  <2>12. CleanInv'
    <3> SUFFICES ASSUME clean, NEW m \in Name
                 PROVE  /\ m \in Board!Registered(b) <=> Len(ledgers'[m]) > 0
                        /\ Len(by_entity'[m]) = Len(ledgers'[m])
                        /\ Cardinality(BindingsOf(all, m)) = Len(by_entity'[m])
      BY <2>1, <2>2 DEF CleanInv, Board!Registered
    <3>1. /\ m \in Board!Registered(board) <=> Len(ledgers[m]) > 0
          /\ Len(by_entity[m]) = Len(ledgers[m])
          /\ Cardinality(BindingsOf(b.events, m)) = Len(by_entity[m])
      BY DEF KenshiInv, CleanInv
    <3>2. Board!Registered(b) = Board!Registered(board) \union {n}
      BY <1>6
    <3>3. CASE m # n
      BY <1>1, <2>8, <3>1, <3>2, <3>3
    <3>4. CASE m = n
      <4>1. Len(by_entity'[n]) = Len(by_entity[n]) + 1
        BY <2>5, AppendFacts DEF KenshiInv, TurnsInv, LinesInv
      <4> QED
        BY <1>1, <2>7, <3>1, <3>2, <3>4, <4>1
    <3> QED
      BY <3>3, <3>4
  <2> QED
    BY <1>1, <2>2, <2>10, <2>11, <2>12 DEF KenshiInv
<1> QED
  BY <1>5, <1>6

(* A call that changes agents at most, or raises. *)
LEMMA AgentsChange ==
  ASSUME KenshiInv, UNCHANGED spiral, IsBoard(board'), board'.events = board.events,
         \A m \in Board!Registered(board)' : m \in Name /\ Strip[m] = m /\ IsInSpiral(m),
         Board!Registered(board) \subseteq Board!Registered(board)',
         clean' => clean /\ Board!Registered(board)' = Board!Registered(board)
  PROVE  KenshiInv'
<1>1. UNCHANGED <<ledgers, nodes, by_entity, chronicle>>
  BY DEF spiral
<1>2. TurnsInv'
  BY <1>1 DEF KenshiInv, TurnsInv, LinesInv, NodesInv
<1>3. AgentsInv' /\ CleanInv' /\ BoundInv'
  BY <1>1 DEF KenshiInv, AgentsInv, IsInSpiral, CleanInv, BoundInv
<1> QED
  BY <1>2, <1>3 DEF KenshiInv

LEMMA RaisedKeeps ==
  ASSUME KenshiInv, UNCHANGED spiral, Board!Ends(FALSE, board, board)
  PROVE  KenshiInv'
<1>1. board' = board /\ clean' = FALSE
  BY DEF Board!Ends
<1> QED
  BY <1>1, AgentsChange DEF KenshiInv, AgentsInv, Board!Registered

LEMMA PublishKeeps ==
  ASSUME KenshiInv, UNCHANGED spiral, NEW event, ~IsBinding(event),
         Board!Publishes(board, event)
  PROVE  KenshiInv'
<1>1. CASE ~Board!Accepts(board, event)
  BY <1>1, RaisedKeeps DEF Board!Publishes, Board!Ends
<1>2. CASE Board!Accepts(board, event)
  <2>1. board' = Board!Appended(board, event) /\ clean' = clean
    BY <1>2 DEF Board!Publishes, Board!Ends
  <2>2. event.sender \in Board!Registered(board)
    BY <1>2 DEF Board!Accepts
  <2>3. /\ IsBoard(board') /\ board'.events = Append(board.events, event)
        /\ Board!Registered(board') = Board!Registered(board) \union {event.sender}
    BY <2>1, AppendedFacts DEF KenshiInv
  <2>4. Board!Registered(board') = Board!Registered(board)
    BY <2>2, <2>3
  <2>5. UNCHANGED <<ledgers, nodes, by_entity, chronicle>>
    BY DEF spiral
  <2>6. TurnsInv'
    BY <2>5 DEF KenshiInv, TurnsInv, LinesInv, NodesInv
  <2>7. IsSeq(board.events)
    BY DEF KenshiInv, IsBoard
  <2>8. \A n \in Name : /\ Follow(board'.events, n, by_entity[n])
                        /\ BindingsOf(board'.events, n) = BindingsOf(board.events, n)
    BY <2>3, <2>7, OtherEventsFollow DEF KenshiInv, BoundInv
  <2>9. AreAnnounced(board'.events)
    BY <2>3, <2>7, OtherEventIsAnnounced DEF KenshiInv, BoundInv
  <2>10. BoundInv'
    BY <2>5, <2>8, <2>9 DEF BoundInv
  <2>11. CleanInv'
    BY <2>1, <2>4, <2>5, <2>8 DEF KenshiInv, CleanInv, Board!Registered
  <2>12. AgentsInv'
    <3>1. ASSUME NEW i \in 1 .. Len(board'.events)
          PROVE  board'.events[i].sender \in Board!Registered(board)
      <4>1. /\ Len(board.events) \in Nat /\ Len(board'.events) = Len(board.events) + 1
            /\ \A j \in 1 .. Len(board.events) : board'.events[j] = board.events[j]
            /\ board'.events[Len(board.events) + 1] = event
        BY <2>3, <2>7, AppendFacts, SeqFacts
      <4>2. CASE i \in 1 .. Len(board.events)
        BY <4>1, <4>2 DEF KenshiInv, AgentsInv
      <4>3. CASE i = Len(board.events) + 1
        BY <2>2, <4>1, <4>3
      <4> QED
        BY <4>1, <4>2, <4>3
    <3> QED
      BY <2>4, <2>5, <3>1 DEF KenshiInv, AgentsInv, IsInSpiral, Board!Registered
  <2> QED
    BY <2>3, <2>6, <2>10, <2>11, <2>12 DEF KenshiInv
<1> QED
  BY <1>1, <1>2

(* The name is stripped for the blackboard and not for the spiral: it raises
   where they differ. *)
LEMMA RegisterKeeps ==
  ASSUME KenshiInv, NEW n \in Name, RegisterAgent(n)
  PROVE  KenshiInv'
<1>1. PICK lineage \in Lineage \union {None} :
        LET b == Board!AgentRegistered(board, n, lineage, None)
        IN \/ /\ ~Board!MayRegister(board, n, lineage)
              /\ Board!Ends(FALSE, board, board)
              /\ UNCHANGED spiral
           \/ /\ Board!MayRegister(board, n, lineage)
              /\ ledgers[n] # <<>>
              /\ Board!Ends(by_entity[n] # <<>>, b, b)
              /\ UNCHANGED spiral
           \/ /\ Board!MayRegister(board, n, lineage)
              /\ ledgers[n] = <<>>
              /\ Room
              /\ \E body \in Body :
                   Spiral!Integrate(n, Spiral!Fresh(body), TRUE, <<>>)
              /\ TurnEnds(b, n, "STATE_DELTA", {})
  BY DEF RegisterAgent
<1> DEFINE b == Board!AgentRegistered(board, n, lineage, None)
<1>2. /\ IsBoard(b) /\ b.events = board.events
      /\ Board!Registered(b) = Board!Registered(board) \union {Strip[n]}
  BY RegisteredFacts DEF KenshiInv
<1>3. Strip[n] \in Name /\ Strip[Strip[n]] = Strip[n]
  BY StripAssumption
<1>4. IsSeq(ledgers[n]) /\ (ledgers[n] = <<>> <=> Len(ledgers[n]) = 0) /\ Len(ledgers[n]) \in Nat
  <2>1. PICK S : ledgers[n] \in Seq(S)
    BY DEF KenshiInv, TurnsInv, LinesInv, IsSeq
  <2> QED
    BY <2>1, EmptySeq, LenProperties DEF IsSeq
<1>5. clean => (n \in Board!Registered(board) <=> Len(ledgers[n]) > 0)
  BY DEF KenshiInv, CleanInv
<1>6. \A m \in Board!Registered(board) : m \in Name /\ Strip[m] = m /\ IsInSpiral(m)
  BY DEF KenshiInv, AgentsInv
<1> HIDE DEF b
<1>7. CASE Board!Ends(FALSE, board, board) /\ UNCHANGED spiral
  BY <1>7, RaisedKeeps
<1>8. CASE ledgers[n] # <<>> /\ Board!Ends(by_entity[n] # <<>>, b, b) /\ UNCHANGED spiral
  <2>1. board' = b /\ (clean' => clean)
    BY <1>8 DEF Board!Ends
  <2>2. clean => Board!Registered(b) = Board!Registered(board)
    BY <1>2, <1>4, <1>5, <1>6, <1>8
  <2>3. Board!Registered(board)' = Board!Registered(b)
    BY <2>1 DEF Board!Registered
  <2>4. IsInSpiral(Strip[n])
    BY <1>4, <1>8 DEF IsInSpiral
  <2> QED
    BY <1>2, <1>3, <1>6, <1>8, <2>1, <2>2, <2>3, <2>4, AgentsChange
<1>9. CASE /\ ledgers[n] = <<>>
           /\ \E body \in Body : Spiral!Integrate(n, Spiral!Fresh(body), TRUE, <<>>)
           /\ TurnEnds(b, n, "STATE_DELTA", {})
  <2>1. PICK body \in Body : Spiral!Integrate(n, Spiral!Fresh(body), TRUE, <<>>)
    BY <1>9
  <2>2. clean /\ n \in Board!Registered(b) =>
          Board!Registered(b) = Board!Registered(board) \union {n}
    BY <1>2, <1>4, <1>5, <1>9
  <2>3. /\ Board!Registered(board) \subseteq Board!Registered(b)
        /\ \A m \in Board!Registered(b) :
             m \in Name /\ Strip[m] = m /\ (m \in Board!Registered(board) \/ m = Strip[n])
    BY <1>2, <1>3, <1>6
  <2>4. PICK triggers : triggers = {}
    OBVIOUS
  <2>5. /\ IsBoard(b) /\ b.events = board.events /\ TurnEnds(b, n, "STATE_DELTA", triggers)
        /\ triggers \subseteq Board!EventIds(b)
    BY <1>2, <1>9, <2>4
  <2> QED
    BY <2>1, <2>2, <2>3, <2>5, TurnEndsKeeps
<1> QED
  BY <1>1, <1>7, <1>8, <1>9 DEF b

LEMMA CommitKeeps ==
  ASSUME KenshiInv, NEW n \in Name, NEW candidate, NEW promoted, NEW triggers,
         Commit(n, candidate, promoted, triggers)
  PROVE  KenshiInv'
<1>1. CASE triggers \subseteq Board!EventIds(board)
  <2>1. /\ Spiral!Integrate(n, candidate, promoted, <<>>)
        /\ TurnEnds(board, n, "CAUSAL_ACK", triggers)
    BY <1>1 DEF Commit
  <2>2. n \in Board!Registered(board) =>
          Board!Registered(board) = Board!Registered(board) \union {n}
    OBVIOUS
  <2>3. \A m \in Board!Registered(board) :
          m \in Name /\ Strip[m] = m /\ (m \in Board!Registered(board) \/ m = Strip[n])
    BY DEF KenshiInv, AgentsInv
  <2>4. IsBoard(board)
    BY DEF KenshiInv
  <2> QED
    BY <1>1, <2>1, <2>2, <2>3, <2>4, TurnEndsKeeps
<1>2. CASE ~(triggers \subseteq Board!EventIds(board))
  BY <1>2, RaisedKeeps DEF Commit
<1> QED
  BY <1>1, <1>2

LEMMA KenshiStep == KenshiInv /\ [Next]_vars => KenshiInv'
<1> SUFFICES ASSUME KenshiInv, [Next]_vars PROVE KenshiInv'
  OBVIOUS
<1>1. ASSUME NEW n \in Name, RegisterAgent(n) PROVE KenshiInv'
  BY <1>1, RegisterKeeps
<1>2. ASSUME NEW n \in Name, Emit(n) PROVE KenshiInv'
  <2>1. PICK kind \in Emitted, to \in Board!NamedRecipients, after \in Board!NamedParents :
          Board!Publishes(board, Board!Message(kind, n, to, after))
    BY <1>2 DEF Emit, Board!AppendEvent
  <2> QED
    BY <1>2, <2>1, MessageFields, PublishKeeps DEF Emit
<1>3. ASSUME NEW n \in Name, Handoff(n) PROVE KenshiInv'
  <2>1. PICK to \in Board!NamedRecipients, after \in Board!NamedParents :
          Board!Publishes(board, Board!Message("HANDOFF", n, to, after))
    BY <1>3 DEF Handoff, Board!Handoff
  <2> QED
    BY <1>3, <2>1, MessageFields, PublishKeeps DEF Handoff
<1>4. ASSUME NEW n \in Name, CommitTurn(n) PROVE KenshiInv'
  BY <1>4, CommitKeeps DEF CommitTurn
<1>5. ASSUME NEW n \in Name, RecordFailure(n) PROVE KenshiInv'
  BY <1>5, CommitKeeps DEF RecordFailure
<1>6. CASE UNCHANGED vars
  <2>1. UNCHANGED spiral /\ board' = board /\ clean' = clean
    BY <1>6 DEF vars, spiral
  <2> QED
    BY <2>1, AgentsChange DEF KenshiInv, AgentsInv, Board!Registered
<1> QED
  BY <1>1, <1>2, <1>3, <1>4, <1>5, <1>6 DEF Next

(* ValidateHolds for any names, whatever strip() makes of them, any number of
   turns and any events. *)
THEOREM RuntimeValidates == Spec => []ValidateHolds
<1>1. KenshiInv => ValidateHolds
  <2> SUFFICES ASSUME KenshiInv PROVE ValidateHolds
    OBVIOUS
  <2>1. clean => Spiral!EverySpiralTurnHasGenealogy
    BY DEF KenshiInv, CleanInv, Spiral!EverySpiralTurnHasGenealogy
  <2>2. Cardinality(DOMAIN nodes) = Len(chronicle)
    BY DEF KenshiInv, TurnsInv, NodesInv
  <2>3. Spiral!GenomeLineIsLedgerPrefix
    <3> SUFFICES ASSUME NEW n \in Name
                 PROVE  /\ Len(by_entity[n]) <= Len(ledgers[n])
                        /\ \A i \in DOMAIN by_entity[n] :
                             /\ by_entity[n][i] = Spiral!IdOf(n, ledgers[n][i])
                             /\ nodes[by_entity[n][i]].primary
                                  = IF i = 1 THEN None ELSE by_entity[n][i - 1]
      BY DEF Spiral!GenomeLineIsLedgerPrefix
    <3>1. /\ DOMAIN by_entity[n] = 1 .. Len(by_entity[n]) /\ Len(by_entity[n]) \in Nat
          /\ Len(ledgers[n]) \in Nat /\ Len(by_entity[n]) <= Len(ledgers[n])
      BY SeqFacts DEF KenshiInv, TurnsInv, LinesInv
    <3>2. ASSUME NEW i \in 1 .. Len(by_entity[n])
          PROVE  by_entity[n][i] = Spiral!IdOf(n, ledgers[n][i])
      <4>1. i \in 1 .. Len(ledgers[n])
        BY <3>1
      <4> QED
        BY <4>1 DEF KenshiInv, TurnsInv, LinesInv, Spiral!IdOf
    <3> QED
      BY <3>1, <3>2, ZenonT(60) DEF KenshiInv, TurnsInv, LinesInv
  <2>4. \A n \in Name : ledgers[n] # <<>> <=> Len(ledgers[n]) > 0
    <3> SUFFICES ASSUME NEW n \in Name PROVE ledgers[n] # <<>> <=> Len(ledgers[n]) > 0
      OBVIOUS
    <3>1. PICK S : ledgers[n] \in Seq(S)
      BY DEF KenshiInv, TurnsInv, LinesInv, IsSeq
    <3> QED
      BY <3>1, EmptySeq, LenProperties
  <2>5. Board!Registered(board) \subseteq {Strip[n] : n \in {m \in Name : ledgers[m] # <<>>}}
    BY <2>4 DEF KenshiInv, AgentsInv, IsInSpiral
  <2>6. clean => Board!Registered(board) = {n \in Name : ledgers[n] # <<>>}
    BY <2>4 DEF KenshiInv, AgentsInv, CleanInv
  <2> QED
    BY <2>1, <2>2, <2>3, <2>5, <2>6 DEF ValidateHolds
<1> QED
  BY KenshiStart, KenshiStep, <1>1, PTL DEF Spec

(* BindingsFollowTheLine for any names, any kinds of events that agents emit
   among the bindings, and any mixture of calls that return and calls that
   raise. *)
THEOREM BindingsFollow == Spec => []BindingsFollowTheLine
<1>1. KenshiInv => BindingsFollowTheLine
  <2> SUFFICES ASSUME KenshiInv PROVE BindingsFollowTheLine
    OBVIOUS
  <2>1. DOMAIN board.events = 1 .. Len(board.events)
    BY SeqFacts DEF KenshiInv, IsBoard
  <2>2. \A n : Bindings(n) = BindingsOf(board.events, n)
    BY <2>1 DEF Bindings, BindingsOf
  <2>3. \A n \in Board!Registered(board) : n \in Name
    BY DEF KenshiInv, AgentsInv
  <2>4. \A n \in Name :
          /\ Follow(board.events, n, by_entity[n])
          /\ clean => Cardinality(BindingsOf(board.events, n)) = Len(by_entity[n])
    BY DEF KenshiInv, BoundInv, CleanInv
  <2>5. AreAnnounced(board.events)
    BY DEF KenshiInv, BoundInv
  <2> QED
    BY <2>1, <2>2, <2>3, <2>4, <2>5 DEF BindingsFollowTheLine, Follow, After, AreAnnounced
<1> QED
  BY KenshiStart, KenshiStep, <1>1, PTL DEF Spec
=============================================================================
