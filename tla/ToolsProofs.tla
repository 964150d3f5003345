----------------------------- MODULE ToolsProofs -----------------------------
(***************************************************************************)
(* Proofs about the tools that keep what they are told: the leases, the    *)
(* window and the agents of Blackboard, the line, the window and the       *)
(* genealogy of SpiralGenome, and what witness of FaceBus states.          *)
(***************************************************************************)
EXTENDS SpiralGenome, Blackboard, FaceBus, Basics, TLAPS

(* A window of at most w elements takes e, and what is pushed out of it goes
   to the archive. *)
LEMMA WindowKeepsAll ==
  ASSUME NEW archived, IsSeq(archived), NEW window, IsSeq(window), NEW e
  PROVE  /\ archived \o Append(window, e) = Append(archived \o window, e)
         /\ window # <<>> =>
              /\ IsSeq(Tail(window)) /\ Len(Tail(window)) = Len(window) - 1
              /\ Append(archived, Head(window)) \o Tail(window) = archived \o window
<1>1. PICK S : archived \in Seq(S)
  BY DEF IsSeq
<1>2. PICK T : window \in Seq(T)
  BY DEF IsSeq
<1> DEFINE U == S \union T \union {e}
<1>3. archived \in Seq(U) /\ window \in Seq(U) /\ e \in U
  BY <1>1, <1>2, SeqMonotonic
<1> HIDE DEF U
<1>4. archived \o Append(window, e) = Append(archived \o window, e)
  <2>1. /\ archived \o window \in Seq(U) /\ <<e>> \in Seq(U)
        /\ Append(window, e) = window \o <<e>>
    BY <1>3, AppendIsConcat, ConcatProperties
  <2>2. Append(archived \o window, e) = (archived \o window) \o <<e>>
    BY <1>3, <2>1, AppendIsConcat
  <2> QED
    BY <1>3, <2>1, <2>2, ConcatAssociative
<1>5. ASSUME window # <<>>
      PROVE  /\ IsSeq(Tail(window)) /\ Len(Tail(window)) = Len(window) - 1
             /\ Append(archived, Head(window)) \o Tail(window) = archived \o window
  <2>1. /\ Head(window) \in U /\ Tail(window) \in Seq(U)
        /\ Len(Tail(window)) = Len(window) - 1
        /\ window = <<Head(window)>> \o Tail(window)
    BY <1>3, <1>5, HeadTailProperties, ConcatSimplifications
  <2>2. Append(archived, Head(window)) = archived \o <<Head(window)>>
    BY <1>3, <2>1, AppendIsConcat
  <2>3. (archived \o <<Head(window)>>) \o Tail(window)
          = archived \o (<<Head(window)>> \o Tail(window))
    BY <1>3, <2>1, ConcatAssociative
  <2> QED
    BY <2>1, <2>2, <2>3 DEF IsSeq
<1> QED
  BY <1>4, <1>5

----------------------------------------------------------------------------
(* The value of a board. *)

IsBoard(b) ==
  /\ b = [agents |-> b.agents, events |-> b.events, active |-> b.active,
          archive |-> b.archive, leases |-> b.leases]
  /\ b.agents = [n \in Registered(b) |-> b.agents[n]] /\ Registered(b) \subseteq Name
  /\ b.leases = [o \in Objective |-> b.leases[o]]
  /\ IsSeq(b.events) /\ IsSeq(b.active) /\ IsSeq(b.archive)

(* What b and c differ in, if at all, is what they say of their agents. *)
SameButAgents(b, c) ==
  /\ c.events = b.events /\ c.leases = b.leases
  /\ c.active = b.active /\ c.archive = b.archive

LEMMA FieldChanges ==
  ASSUME NEW b, IsBoard(b), NEW x
  PROVE  /\ [b EXCEPT !.agents = x] = [agents |-> x, events |-> b.events, active |-> b.active,
                                       archive |-> b.archive, leases |-> b.leases]
         /\ [b EXCEPT !.events = x] = [agents |-> b.agents, events |-> x, active |-> b.active,
                                       archive |-> b.archive, leases |-> b.leases]
         /\ [b EXCEPT !.active = x] = [agents |-> b.agents, events |-> b.events, active |-> x,
                                       archive |-> b.archive, leases |-> b.leases]
         /\ [b EXCEPT !.leases = x] = [agents |-> b.agents, events |-> b.events, active |-> b.active,
                                       archive |-> b.archive, leases |-> x]
BY DEF IsBoard

LEMMA BoardOf ==
  ASSUME NEW b, NEW agents, NEW events, NEW active, NEW archived, NEW leases,
         b = [agents |-> agents, events |-> events, active |-> active,
              archive |-> archived, leases |-> leases],
         agents = [n \in DOMAIN agents |-> agents[n]], DOMAIN agents \subseteq Name,
         leases = [o \in Objective |-> leases[o]],
         IsSeq(events), IsSeq(active), IsSeq(archived)
  PROVE  IsBoard(b) /\ b.events = events /\ b.leases = leases
BY DEF IsBoard, Registered

(* The agents once n is the agent given. *)
Agents(agents, n, agent) ==
  [m \in DOMAIN agents \union {n} |-> IF m = n THEN agent ELSE agents[m]]

(* An agent that has sent the event id, and one whose state changes. *)
Logged(a, id) == [a EXCEPT !.last_event_id = id, !.event_ids = Append(@, id)]

Changed(a, status, local) == [a EXCEPT !.status = status, !.local_state = local]

IsAgent(a) ==
  a = [lineage |-> a.lineage, status |-> a.status, local_state |-> a.local_state,
       last_event_id |-> a.last_event_id, event_ids |-> a.event_ids]

LEMMA AgentFields ==
  ASSUME NEW a, IsAgent(a)
  PROVE  /\ \A id : /\ IsAgent(Logged(a, id)) /\ Logged(a, id).last_event_id = id
                    /\ Logged(a, id).event_ids = Append(a.event_ids, id)
                    /\ Logged(a, id).local_state = a.local_state
         /\ \A status, local : /\ IsAgent(Changed(a, status, local))
                               /\ Changed(a, status, local).event_ids = a.event_ids
                               /\ Changed(a, status, local).last_event_id = a.last_event_id
                               /\ Changed(a, status, local).local_state = local
<1>0. DOMAIN a = {"lineage", "status", "local_state", "last_event_id", "event_ids"}
  BY DEF IsAgent
<1>1. ASSUME NEW id, NEW c, c = Logged(a, id)
      PROVE  /\ IsAgent(c) /\ c.last_event_id = id
             /\ c.event_ids = Append(a.event_ids, id) /\ c.local_state = a.local_state
  <2>1. c = [a EXCEPT !.last_event_id = id, !.event_ids = Append(@, id)]
    BY <1>1 DEF Logged
  <2>2. /\ DOMAIN c = DOMAIN a /\ c.last_event_id = id
        /\ c.event_ids = Append(a.event_ids, id) /\ c.local_state = a.local_state
    BY <1>0, <2>1
  <2>3. IsAgent(c)
    BY <1>0, <2>1, <2>2 DEF IsAgent
  <2> QED  BY <2>2, <2>3
<1>2. ASSUME NEW status, NEW local, NEW c, c = Changed(a, status, local)
      PROVE  /\ IsAgent(c) /\ c.event_ids = a.event_ids
             /\ c.last_event_id = a.last_event_id /\ c.local_state = local
  <2>1. c = [a EXCEPT !.status = status, !.local_state = local]
    BY <1>2 DEF Changed
  <2>2. /\ DOMAIN c = DOMAIN a /\ c.event_ids = a.event_ids
        /\ c.last_event_id = a.last_event_id /\ c.local_state = local
    BY <1>0, <2>1
  <2>3. IsAgent(c)
    BY <1>0, <2>1, <2>2 DEF IsAgent
  <2> QED  BY <2>2, <2>3
<1> QED  BY <1>1, <1>2

LEMMA AgentChanges ==
  ASSUME NEW b, IsBoard(b), NEW n \in Name, NEW agent
  PROVE  /\ IsBoard(WithAgent(b, n, agent))
         /\ SameButAgents(b, WithAgent(b, n, agent))
         /\ WithAgent(b, n, agent).agents = Agents(b.agents, n, agent)
<1> DEFINE x == Agents(b.agents, n, agent)
<1>1. x = [m \in DOMAIN x |-> x[m]] /\ DOMAIN x = Registered(b) \union {n}
  BY DEF IsBoard, Agents, Registered
<1>2. WithAgent(b, n, agent) = [b EXCEPT !.agents = x]
  BY DEF WithAgent, Agents, Registered
<1> HIDE DEF x
<1>3. WithAgent(b, n, agent) = [agents |-> x, events |-> b.events, active |-> b.active,
                                archive |-> b.archive, leases |-> b.leases]
  BY <1>2, FieldChanges
<1>4. WithAgent(b, n, agent).agents = x /\ SameButAgents(b, WithAgent(b, n, agent))
  BY <1>3 DEF SameButAgents
<1>5. Registered(WithAgent(b, n, agent)) \subseteq Name
  BY <1>1, <1>4 DEF IsBoard, Registered
<1>6. IsBoard(WithAgent(b, n, agent))
  BY <1>1, <1>3, <1>4, <1>5 DEF IsBoard, Registered
<1> QED
  BY <1>4, <1>6 DEF x

(* Archive and window are all events, in order. *)
Numbered(n) == [i \in 1 .. n |-> i - 1]

IsLossless(b) ==
  /\ b.archive \o b.active = Numbered(Len(b.events))
  /\ Len(b.active) <= ActiveWindow

LEMMA NumberedGrows ==
  ASSUME NEW n \in Nat
  PROVE  Append(Numbered(n), n) = Numbered(n + 1)
<1>1. Numbered(n) \in Seq(Nat) /\ Len(Numbered(n)) = n /\ Numbered(n + 1) \in Seq(Nat)
        /\ Len(Numbered(n + 1)) = n + 1
  BY DEF Numbered
<1>2. Append(Numbered(n), n) \in Seq(Nat) /\ Len(Append(Numbered(n), n)) = n + 1
  BY <1>1, AppendProperties
<1>3. \A i \in 1 .. n + 1 : Append(Numbered(n), n)[i] = Numbered(n + 1)[i]
  <2> SUFFICES ASSUME NEW i \in 1 .. n + 1
               PROVE  Append(Numbered(n), n)[i] = Numbered(n + 1)[i]
    OBVIOUS
  <2>1. Numbered(n + 1)[i] = i - 1
    BY DEF Numbered
  <2>2. CASE i = n + 1
    BY <1>1, <2>1, <2>2, AppendProperties
  <2>3. CASE i \in 1 .. n
    <3>1. Append(Numbered(n), n)[i] = Numbered(n)[i]
      BY <1>1, <2>3, AppendProperties
    <3> QED
      BY <2>1, <2>3, <3>1 DEF Numbered
  <2>4. i = n + 1 \/ i \in 1 .. n
    OBVIOUS
  <2> QED
    BY <2>2, <2>3, <2>4, Zenon
<1> QED
  BY <1>1, <1>2, <1>3, SeqEqual

(* append_event, once the event is accepted. *)
LEMMA AppendedFacts ==
  ASSUME NEW b, IsBoard(b), NEW event, event.sender \in Name
  PROVE  /\ IsBoard(Appended(b, event))
         /\ Appended(b, event).events = Append(b.events, event)
         /\ Appended(b, event).leases = b.leases
         /\ Appended(b, event).agents
              = Agents(b.agents, event.sender, Logged(b.agents[event.sender], Len(b.events)))
         /\ IsLossless(b) => IsLossless(Appended(b, event))
<1> DEFINE id == Len(b.events)
           c  == [b EXCEPT !.events = Append(@, event)]
           d  == InWindow(c, id)
           agent == Logged(d.agents[event.sender], id)
<1>1. Appended(b, event) = WithAgent(d, event.sender, agent)
  BY DEF Appended, Filed, Logged
<1>2. id \in Nat /\ IsSeq(Append(b.events, event)) /\ Len(Append(b.events, event)) = id + 1
  BY SeqFacts, AppendFacts DEF IsBoard
<1>3. c = [agents |-> b.agents, events |-> Append(b.events, event), active |-> b.active,
           archive |-> b.archive, leases |-> b.leases]
  BY FieldChanges
<1>4. IsBoard(c)
  BY <1>2, <1>3 DEF IsBoard, Registered
<1> DEFINE pushed == Append(b.active, id)
<1>5. /\ IsSeq(pushed) /\ Len(pushed) = Len(b.active) + 1 /\ Len(b.active) \in Nat
      /\ pushed # <<>>
  <2>1. IsSeq(pushed) /\ Len(pushed) = Len(b.active) + 1 /\ Len(b.active) \in Nat
    BY SeqFacts, AppendFacts DEF IsBoard
  <2> QED
    BY <2>1
<1>6. b.archive \o pushed = Append(b.archive \o b.active, id)
  BY WindowKeepsAll DEF IsBoard
<1> HIDE DEF id, c
<1>7. IsLossless(b) => Append(b.archive \o b.active, id) = Numbered(id + 1)
  BY <1>2, NumberedGrows DEF IsLossless, id
<1>8. Len(pushed) > ActiveWindow =>
        d = [agents |-> b.agents, events |-> c.events, active |-> Tail(pushed),
             archive |-> Append(b.archive, Head(pushed)), leases |-> b.leases]
  <2>1. Len(pushed) > ActiveWindow =>
          d = [c EXCEPT !.active = Tail(pushed), !.archive = Append(@, Head(pushed))]
    BY <1>3 DEF InWindow
  <2> QED
    BY <1>3, <2>1
<1>9. ~(Len(pushed) > ActiveWindow) =>
        d = [agents |-> b.agents, events |-> c.events, active |-> pushed,
             archive |-> b.archive, leases |-> b.leases]
  <2>1. ~(Len(pushed) > ActiveWindow) => d = [c EXCEPT !.active = pushed]
    BY <1>3 DEF InWindow
  <2> QED
    BY <1>3, <2>1
<1> HIDE DEF d, agent, pushed
<1>10. c.events = Append(b.events, event) /\ c.leases = b.leases /\ IsSeq(c.events)
  BY <1>2, <1>3
<1>20. /\ b.agents = [n \in DOMAIN b.agents |-> b.agents[n]] /\ DOMAIN b.agents \subseteq Name
       /\ b.leases = [o \in Objective |-> b.leases[o]]
       /\ IsSeq(b.archive)
  BY DEF IsBoard, Registered
<1>21. IsLossless(b) =>
         Append(b.archive \o b.active, id) = Numbered(id + 1) /\ Len(b.active) <= ActiveWindow
  BY <1>7 DEF IsLossless
<1>11. /\ IsBoard(d) /\ d.events = c.events /\ d.leases = c.leases /\ d.agents = b.agents
       /\ IsLossless(b) => IsLossless(d)
  <2>1. CASE Len(pushed) > ActiveWindow
    <3>1. /\ IsSeq(Tail(pushed)) /\ Len(Tail(pushed)) = Len(pushed) - 1
          /\ Append(b.archive, Head(pushed)) \o Tail(pushed) = b.archive \o pushed
      BY <1>5, WindowKeepsAll DEF IsBoard
    <3>2. IsSeq(Append(b.archive, Head(pushed)))
      BY AppendFacts DEF IsBoard
    <3>3. IsBoard(d) /\ d.events = c.events /\ d.leases = c.leases /\ d.agents = b.agents
      <4>1. /\ d.agents = b.agents /\ d.events = c.events /\ d.leases = b.leases
            /\ d.active = Tail(pushed) /\ d.archive = Append(b.archive, Head(pushed))
        BY <1>8, <2>1
      <4>2. d = [agents |-> d.agents, events |-> d.events, active |-> d.active,
                 archive |-> d.archive, leases |-> d.leases]
        BY <1>8, <2>1, <4>1
      <4>3. IsSeq(d.events) /\ IsSeq(d.active) /\ IsSeq(d.archive)
        BY <1>10, <1>20, <3>1, <3>2, <4>1
      <4> QED
        BY <1>10, <1>20, <4>1, <4>2, <4>3 DEF IsBoard, Registered
    <3>4. IsLossless(b) => IsLossless(d)
      <4>1. d.active = Tail(pushed) /\ d.archive = Append(b.archive, Head(pushed))
        BY <1>8, <2>1
      <4>2. Len(d.events) = id + 1
        BY <1>2, <1>10, <3>3
      <4>3. IsLossless(b) => d.archive \o d.active = Numbered(Len(d.events))
        BY <1>6, <1>21, <3>1, <4>1, <4>2
      <4>4. IsLossless(b) => Len(d.active) <= ActiveWindow
        BY <1>5, <1>21, <3>1, <4>1
      <4> QED
        BY <4>3, <4>4 DEF IsLossless
    <3> QED
      BY <3>3, <3>4
  <2>2. CASE ~(Len(pushed) > ActiveWindow)
    <3>1. IsBoard(d) /\ d.events = c.events /\ d.leases = c.leases /\ d.agents = b.agents
      <4>1. /\ d.agents = b.agents /\ d.events = c.events /\ d.leases = b.leases
            /\ d.active = pushed /\ d.archive = b.archive
        BY <1>9, <2>2
      <4>2. d = [agents |-> d.agents, events |-> d.events, active |-> d.active,
                 archive |-> d.archive, leases |-> d.leases]
        BY <1>9, <2>2, <4>1
      <4>3. IsSeq(d.events) /\ IsSeq(d.active) /\ IsSeq(d.archive)
        BY <1>5, <1>10, <1>20, <4>1
      <4> QED
        BY <1>10, <1>20, <4>1, <4>2, <4>3 DEF IsBoard, Registered
    <3>2. IsLossless(b) => IsLossless(d)
      <4>1. d.active = pushed /\ d.archive = b.archive
        BY <1>9, <2>2
      <4>2. Len(d.events) = id + 1
        BY <1>2, <1>10, <3>1
      <4>3. IsLossless(b) => d.archive \o d.active = Numbered(Len(d.events))
        BY <1>6, <1>21, <4>1, <4>2
      <4>4. Len(d.active) <= ActiveWindow
        BY <1>5, <2>2, <4>1, ActiveWindowAssumption
      <4> QED
        BY <4>3, <4>4 DEF IsLossless
    <3> QED
      BY <3>1, <3>2
  <2> QED
    BY <2>1, <2>2
<1>12. /\ IsBoard(Appended(b, event))
       /\ SameButAgents(d, Appended(b, event))
       /\ Appended(b, event).agents = Agents(b.agents, event.sender, agent)
  BY <1>1, <1>11, AgentChanges
<1>13. agent = Logged(b.agents[event.sender], Len(b.events))
  BY <1>11 DEF agent, id
<1> QED
  BY <1>10, <1>11, <1>12, <1>13 DEF SameButAgents, IsLossless

----------------------------------------------------------------------------
(* The leases of a board and the claims among its events. *)

ClaimAt(events, i, o) ==
  events[i].claim # None /\ events[i].claim.objective = o

ClaimsAreTyped(events) ==
  \A i \in 1 .. Len(events) : events[i].claim # None =>
    /\ events[i].claim.acquired \in Nat /\ events[i].claim.expires \in Nat
    /\ events[i].claim.acquired <= events[i].claim.expires

(* An agent claims at turns that do not run backwards. *)
TurnsAdvance(events) ==
  \A i, j \in 1 .. Len(events) :
    /\ i < j
    /\ events[i].claim # None /\ events[j].claim # None
    /\ events[i].sender = events[j].sender
    => events[i].claim.acquired <= events[j].claim.acquired

(* A lease is what the last claim of its objective says. *)
IsLastClaim(events, lease, o, m) ==
  /\ ClaimAt(events, m, o)
  /\ events[m].sender = lease.owner
  /\ events[m].claim.expires = lease.expires
  /\ \A k \in m + 1 .. Len(events) : ~ClaimAt(events, k, o)

LeasesAreLastClaims(events, leases) ==
  \A o \in Objective :
    IF leases[o] = None
    THEN \A i \in 1 .. Len(events) : ~ClaimAt(events, i, o)
    ELSE \E m \in 1 .. Len(events) : IsLastClaim(events, leases[o], o, m)

(* The last claim of a tenure of one agent, and a later claim of another. *)
EndsBefore(events, i, j) ==
  events[i].claim.expires < events[j].claim.acquired

IsTenureBefore(events, i, j, o) ==
  /\ i < j
  /\ ClaimAt(events, i, o) /\ ClaimAt(events, j, o)
  /\ events[i].sender # events[j].sender
  /\ \A k \in i + 1 .. j : ~(ClaimAt(events, k, o) /\ events[k].sender = events[i].sender)

Disjoint(events) ==
  \A i, j \in 1 .. Len(events) : \A o :
    IsTenureBefore(events, i, j, o) => EndsBefore(events, i, j)

LeaseHistory(events, leases) ==
  /\ ClaimsAreTyped(events) /\ TurnsAdvance(events)
  /\ LeasesAreLastClaims(events, leases) /\ Disjoint(events)

(* An event that claims nothing. *)
LEMMA OtherEventKeepsHistory ==
  ASSUME NEW events, IsSeq(events), NEW leases, LeaseHistory(events, leases),
         NEW e, e.claim = None
  PROVE  LeaseHistory(Append(events, e), leases)
<1> DEFINE more == Append(events, e)
           n    == Len(events)
<1>1. /\ n \in Nat /\ Len(more) = n + 1
      /\ \A i \in 1 .. n : more[i] = events[i]
      /\ more[n + 1] = e
  BY SeqFacts, AppendFacts
<1> HIDE DEF more
<1>2. \A i \in 1 .. n + 1 : more[i].claim # None => i \in 1 .. n
  BY <1>1
<1>3. ClaimsAreTyped(more)
  BY <1>1, <1>2 DEF ClaimsAreTyped, LeaseHistory
<1>4. TurnsAdvance(more)
  BY <1>1, <1>2 DEF TurnsAdvance, LeaseHistory
<1>5. \A i \in 1 .. n + 1 : \A o : ClaimAt(more, i, o) => i \in 1 .. n /\ ClaimAt(events, i, o)
  BY <1>1, <1>2 DEF ClaimAt
<1>6. \A i \in 1 .. n : \A o : ClaimAt(events, i, o) => ClaimAt(more, i, o)
  BY <1>1 DEF ClaimAt
<1>7. LeasesAreLastClaims(more, leases)
  <2> SUFFICES ASSUME NEW o \in Objective
               PROVE  IF leases[o] = None
                      THEN \A i \in 1 .. n + 1 : ~ClaimAt(more, i, o)
                      ELSE \E m \in 1 .. n + 1 : IsLastClaim(more, leases[o], o, m)
    BY <1>1 DEF LeasesAreLastClaims
  <2>1. CASE leases[o] = None
    BY <1>5, <2>1 DEF LeaseHistory, LeasesAreLastClaims
  <2>2. CASE leases[o] # None
    <3>1. PICK m \in 1 .. n : IsLastClaim(events, leases[o], o, m)
      BY <2>2 DEF LeaseHistory, LeasesAreLastClaims
    <3>2. \A k \in m + 1 .. n + 1 : ~ClaimAt(more, k, o)
      <4> SUFFICES ASSUME NEW k \in m + 1 .. n + 1, ClaimAt(more, k, o) PROVE FALSE
        OBVIOUS
      <4>1. k \in 1 .. n + 1
        BY <1>1
      <4>2. k \in m + 1 .. n /\ ClaimAt(events, k, o)
        BY <1>1, <1>5, <4>1
      <4> QED
        BY <3>1, <4>2 DEF IsLastClaim
    <3>3. IsLastClaim(more, leases[o], o, m)
      BY <1>1, <1>6, <3>1, <3>2 DEF IsLastClaim
    <3>4. m \in 1 .. n + 1
      BY <1>1
    <3> QED
      BY <2>2, <3>3, <3>4
  <2> QED
    BY <2>1, <2>2
<1>8. Disjoint(more)
  <2> SUFFICES ASSUME NEW i \in 1 .. n + 1, NEW j \in 1 .. n + 1, NEW o,
                      IsTenureBefore(more, i, j, o)
               PROVE  EndsBefore(more, i, j)
    BY <1>1 DEF Disjoint
  <2>1. /\ i \in 1 .. n /\ j \in 1 .. n
        /\ ClaimAt(events, i, o) /\ ClaimAt(events, j, o)
    BY <1>5 DEF IsTenureBefore
  <2>2. \A k \in i + 1 .. j : k \in 1 .. n
    BY <1>1, <2>1
  <2>3. IsTenureBefore(events, i, j, o)
    BY <1>1, <1>6, <2>1, <2>2 DEF IsTenureBefore
  <2>4. EndsBefore(events, i, j)
    BY <2>1, <2>3 DEF LeaseHistory, Disjoint
  <2> QED
    BY <1>1, <2>1, <2>4 DEF EndsBefore
<1> QED
  BY <1>3, <1>4, <1>7, <1>8 DEF LeaseHistory, more

(* A claim of o by an agent that nobody else holds it from. *)
LEMMA ClaimKeepsHistory ==
  ASSUME NEW events, IsSeq(events), NEW leases, leases = [p \in Objective |-> leases[p]],
         LeaseHistory(events, leases),
         NEW e, NEW o \in Objective, NEW lease,
         e.claim # None, e.claim.objective = o,
         e.claim.acquired \in Nat, e.claim.expires \in Nat,
         e.claim.acquired <= e.claim.expires,
         lease # None, lease.owner = e.sender, lease.expires = e.claim.expires,
         \A i \in 1 .. Len(events) :
           events[i].claim # None /\ events[i].sender = e.sender
             => events[i].claim.acquired <= e.claim.acquired,
         leases[o] # None /\ leases[o].owner # e.sender
           => leases[o].expires < e.claim.acquired
  PROVE  LeaseHistory(Append(events, e), [leases EXCEPT ![o] = lease])
<1> DEFINE more == Append(events, e)
           n    == Len(events)
           held == [leases EXCEPT ![o] = lease]
<1>1. /\ n \in Nat /\ Len(more) = n + 1
      /\ \A i \in 1 .. n : more[i] = events[i]
      /\ more[n + 1] = e
  BY SeqFacts, AppendFacts
<1>2. held[o] = lease /\ \A p \in Objective \ {o} : held[p] = leases[p]
  OBVIOUS
<1> HIDE DEF more, n, held
<1>3. \A i \in 1 .. n + 1 : i \in 1 .. n \/ i = n + 1
  BY <1>1
<1>4. ClaimsAreTyped(more)
  BY <1>1, <1>3 DEF ClaimsAreTyped, LeaseHistory, n
<1>5. TurnsAdvance(more)
  <2> SUFFICES ASSUME NEW i \in 1 .. n + 1, NEW j \in 1 .. n + 1, i < j,
                      more[i].claim # None, more[j].claim # None,
                      more[i].sender = more[j].sender
               PROVE  more[i].claim.acquired <= more[j].claim.acquired
    BY <1>1 DEF TurnsAdvance
  <2>1. i \in 1 .. n /\ more[i] = events[i]
    BY <1>1
  <2>2. CASE j = n + 1
    BY <1>1, <2>1, <2>2 DEF n
  <2>3. CASE j \in 1 .. n
    BY <1>1, <2>1, <2>3 DEF LeaseHistory, TurnsAdvance, n
  <2> QED
    BY <1>3, <2>2, <2>3
<1>6. \A i \in 1 .. n : \A p : ClaimAt(more, i, p) <=> ClaimAt(events, i, p)
  BY <1>1 DEF ClaimAt
<1>7. \A p : ClaimAt(more, n + 1, p) <=> p = o
  BY <1>1 DEF ClaimAt
<1>8. LeasesAreLastClaims(more, held)
  <2> SUFFICES ASSUME NEW p \in Objective
               PROVE  IF held[p] = None
                      THEN \A i \in 1 .. n + 1 : ~ClaimAt(more, i, p)
                      ELSE \E m \in 1 .. n + 1 : IsLastClaim(more, held[p], p, m)
    BY <1>1 DEF LeasesAreLastClaims
  <2>1. CASE p = o
    <3>1. \A k \in (n + 1) + 1 .. n + 1 : FALSE
      BY <1>1
    <3>2. IsLastClaim(more, held[p], p, n + 1)
      BY <1>1, <1>2, <1>7, <2>1, <3>1 DEF IsLastClaim
    <3>3. n + 1 \in 1 .. n + 1
      BY <1>1
    <3> QED
      BY <1>2, <2>1, <3>2, <3>3
  <2>2. CASE p # o /\ leases[p] = None
    <3>1. \A i \in 1 .. n : ~ClaimAt(events, i, p)
      BY <2>2 DEF LeaseHistory, LeasesAreLastClaims, n
    <3> QED
      BY <1>2, <1>3, <1>6, <1>7, <2>2, <3>1
  <2>3. CASE p # o /\ leases[p] # None
    <3>1. PICK m \in 1 .. n : IsLastClaim(events, leases[p], p, m)
      BY <2>3 DEF LeaseHistory, LeasesAreLastClaims, n
    <3>2. \A k \in m + 1 .. n + 1 : ~ClaimAt(more, k, p)
      <4> SUFFICES ASSUME NEW k \in m + 1 .. n + 1, ClaimAt(more, k, p) PROVE FALSE
        OBVIOUS
      <4>1. k \in 1 .. n + 1 /\ k # n + 1
        BY <1>1, <1>7, <2>3
      <4>2. k \in m + 1 .. n /\ ClaimAt(events, k, p)
        BY <1>1, <1>3, <1>6, <4>1
      <4> QED
        BY <3>1, <4>2 DEF IsLastClaim, n
    <3>3. IsLastClaim(more, held[p], p, m)
      BY <1>1, <1>2, <1>6, <2>3, <3>1, <3>2 DEF IsLastClaim
    <3>4. m \in 1 .. n + 1
      BY <1>1
    <3> QED
      BY <1>2, <2>3, <3>3, <3>4
  <2> QED
    BY <2>1, <2>2, <2>3
<1>9. Disjoint(more)
  <2> SUFFICES ASSUME NEW i \in 1 .. n + 1, NEW j \in 1 .. n + 1, NEW p,
                      IsTenureBefore(more, i, j, p)
               PROVE  EndsBefore(more, i, j)
    BY <1>1 DEF Disjoint
  <2>1. i < j /\ i \in 1 .. n /\ more[i] = events[i] /\ ClaimAt(events, i, p)
    BY <1>1, <1>6 DEF IsTenureBefore
  <2>2. CASE j \in 1 .. n
    <3>1. \A k \in i + 1 .. j : k \in 1 .. n
      BY <1>1, <2>1, <2>2
    <3>2. IsTenureBefore(events, i, j, p)
      BY <1>1, <1>6, <2>1, <2>2, <3>1 DEF IsTenureBefore
    <3>3. EndsBefore(events, i, j)
      BY <2>1, <2>2, <3>2 DEF LeaseHistory, Disjoint, n
    <3> QED
      BY <1>1, <2>1, <2>2, <3>3 DEF EndsBefore
  <2>3. CASE j = n + 1
    <3>1. /\ p = o /\ events[i].sender # e.sender
          /\ \A k \in i + 1 .. n : ~(ClaimAt(events, k, o) /\ events[k].sender = events[i].sender)
      <4>1. p = o /\ events[i].sender # e.sender
        BY <1>1, <1>7, <2>1, <2>3 DEF IsTenureBefore
      <4>2. \A k \in i + 1 .. n : k \in i + 1 .. j /\ k \in 1 .. n
        BY <1>1, <2>1, <2>3
      <4>3. \A k \in i + 1 .. j : ~(ClaimAt(more, k, p) /\ more[k].sender = more[i].sender)
        BY DEF IsTenureBefore
      <4> QED
        BY <1>1, <1>6, <2>1, <4>1, <4>2, <4>3
    <3>2. leases[o] # None
      BY <2>1, <3>1 DEF LeaseHistory, LeasesAreLastClaims, n
    <3>3. PICK m \in 1 .. n : IsLastClaim(events, leases[o], o, m)
      BY <3>2 DEF LeaseHistory, LeasesAreLastClaims, n
    <3>4. i = m \/ i < m
      BY <1>1, <2>1, <3>1, <3>3 DEF IsLastClaim, n
    <3>5. /\ ClaimAt(events, m, o) /\ events[m].sender = leases[o].owner
          /\ events[m].claim.expires = leases[o].expires
      BY <3>3 DEF IsLastClaim
    <3>6. /\ events[i].claim.expires \in Nat /\ events[m].claim.acquired \in Nat
          /\ events[m].claim.expires \in Nat
          /\ events[m].claim.acquired <= events[m].claim.expires
      BY <2>1, <3>5 DEF LeaseHistory, ClaimsAreTyped, ClaimAt, n
    <3>7. events[i].claim.expires < e.claim.acquired
      <4>1. CASE i = m
        BY <3>1, <3>2, <3>5, <4>1
      <4>2. CASE i < m
        <5>1. events[m].sender # events[i].sender
          BY <3>1, <3>5, <4>2, <1>1
        <5>2. IsTenureBefore(events, i, m, o)
          BY <1>1, <2>1, <3>1, <3>5, <4>2, <5>1 DEF IsTenureBefore
        <5>3. events[i].claim.expires < events[m].claim.acquired
          BY <2>1, <5>2 DEF LeaseHistory, Disjoint, EndsBefore, n
        <5>4. CASE events[m].sender = e.sender
          <6>1. events[m].claim.acquired <= e.claim.acquired
            BY <3>5, <5>4 DEF ClaimAt, n
          <6> QED
            BY <3>6, <5>3, <6>1
        <5>5. CASE events[m].sender # e.sender
          <6>1. events[m].claim.expires < e.claim.acquired
            BY <3>2, <3>5, <5>5
          <6> QED
            BY <3>6, <5>3, <6>1
        <5> QED
          BY <5>4, <5>5
      <4> QED
        BY <3>4, <4>1, <4>2
    <3> QED
      BY <1>1, <2>1, <2>3, <3>7 DEF EndsBefore
  <2> QED
    BY <1>3, <2>2, <2>3
<1> QED
  BY <1>4, <1>5, <1>8, <1>9 DEF LeaseHistory, more, held

----------------------------------------------------------------------------
(* The agents of a board and the events they sent. *)

(* AgentsKeepTheirOwnLog, for one agent. *)
IsLogOf(a, events, n) ==
  /\ IsSeq(a.event_ids)
  /\ \A i \in 1 .. Len(a.event_ids) :
       a.event_ids[i] \in 0 .. Len(events) - 1 /\ events[a.event_ids[i] + 1].sender = n
  /\ \A j \in 1 .. Len(events) :
       events[j].sender = n => \E i \in 1 .. Len(a.event_ids) : a.event_ids[i] = j - 1
  /\ \A i, j \in 1 .. Len(a.event_ids) : i < j => a.event_ids[i] < a.event_ids[j]
  /\ a.last_event_id = IF Len(a.event_ids) = 0 THEN None ELSE a.event_ids[Len(a.event_ids)]

(* Only an agent that is registered has sent events. *)
AgentLogs(agents, events) ==
  /\ \A j \in 1 .. Len(events) : events[j].sender \in DOMAIN agents
  /\ \A n \in DOMAIN agents : IsAgent(agents[n]) /\ IsLogOf(agents[n], events, n)

LEMMA EventIsLogged ==
  ASSUME NEW events, IsSeq(events), NEW event, NEW a, NEW n,
         IsAgent(a), IsLogOf(a, events, n), event.sender = n
  PROVE  IsLogOf(Logged(a, Len(events)), Append(events, event), n)
<1> DEFINE id == Len(events)
           c == Logged(a, id)
           ids == a.event_ids
           more == Append(ids, id)
           after == Append(events, event)
<1>1. c.event_ids = more /\ c.last_event_id = id
  BY AgentFields
<1>2. IsSeq(ids)
  BY DEF IsLogOf
<1>3. /\ Len(ids) \in Nat /\ IsSeq(more) /\ Len(more) = Len(ids) + 1
      /\ \A i \in 1 .. Len(ids) : more[i] = ids[i]
      /\ more[Len(ids) + 1] = id
  BY <1>2, SeqFacts, AppendFacts
<1>4. /\ id \in Nat /\ Len(after) = id + 1
      /\ \A i \in 1 .. id : after[i] = events[i]
      /\ after[id + 1] = event
  BY SeqFacts, AppendFacts
<1>5. /\ \A i \in 1 .. Len(ids) : ids[i] \in 0 .. id - 1 /\ events[ids[i] + 1].sender = n
      /\ \A j \in 1 .. id : events[j].sender = n => \E i \in 1 .. Len(ids) : ids[i] = j - 1
      /\ \A i, j \in 1 .. Len(ids) : i < j => ids[i] < ids[j]
  BY DEF IsLogOf
<1> HIDE DEF id, ids, more, after, c
<1>6. \A i \in 1 .. Len(more) : more[i] \in 0 .. Len(after) - 1 /\ after[more[i] + 1].sender = n
  <2> SUFFICES ASSUME NEW i \in 1 .. Len(more)
               PROVE  more[i] \in 0 .. Len(after) - 1 /\ after[more[i] + 1].sender = n
    OBVIOUS
  <2>1. CASE i = Len(ids) + 1
    BY <1>3, <1>4, <2>1
  <2>2. CASE i \in 1 .. Len(ids)
    <3>1. more[i] = ids[i] /\ ids[i] \in 0 .. id - 1 /\ events[ids[i] + 1].sender = n
      BY <1>3, <1>5, <2>2
    <3>2. ids[i] + 1 \in 1 .. id
      BY <1>4, <3>1
    <3> QED  BY <1>4, <3>1, <3>2
  <2> QED  BY <1>3, <2>1, <2>2
<1>7. \A j \in 1 .. Len(after) :
        after[j].sender = n => \E i \in 1 .. Len(more) : more[i] = j - 1
  <2> SUFFICES ASSUME NEW j \in 1 .. Len(after), after[j].sender = n
               PROVE  \E i \in 1 .. Len(more) : more[i] = j - 1
    OBVIOUS
  <2>1. CASE j = id + 1
    BY <1>3, <1>4, <2>1
  <2>2. CASE j \in 1 .. id
    <3>1. PICK i \in 1 .. Len(ids) : ids[i] = j - 1
      BY <1>4, <1>5, <2>2
    <3> QED  BY <1>3, <3>1
  <2> QED  BY <1>4, <2>1, <2>2
<1>8. \A i, j \in 1 .. Len(more) : i < j => more[i] < more[j]
  <2> SUFFICES ASSUME NEW i \in 1 .. Len(more), NEW j \in 1 .. Len(more), i < j
               PROVE  more[i] < more[j]
    OBVIOUS
  <2>1. i \in 1 .. Len(ids) /\ more[i] = ids[i] /\ ids[i] \in 0 .. id - 1
    BY <1>3, <1>5
  <2>2. CASE j = Len(ids) + 1
    BY <1>3, <1>4, <2>1, <2>2
  <2>3. CASE j \in 1 .. Len(ids)
    BY <1>3, <1>5, <2>1, <2>3
  <2> QED  BY <1>3, <2>2, <2>3
<1>9. id = IF Len(more) = 0 THEN None ELSE more[Len(more)]
  BY <1>3
<1> QED
  BY <1>1, <1>3, <1>6, <1>7, <1>8, <1>9 DEF IsLogOf, after, c, id

(* Nothing changes for the agents that did not send the event. *)
LEMMA EventOfAnother ==
  ASSUME NEW events, IsSeq(events), NEW event, NEW a, NEW n,
         IsLogOf(a, events, n), event.sender # n
  PROVE  IsLogOf(a, Append(events, event), n)
<1> DEFINE id == Len(events)
           ids == a.event_ids
           after == Append(events, event)
<1>1. /\ id \in Nat /\ Len(after) = id + 1
      /\ \A i \in 1 .. id : after[i] = events[i]
      /\ after[id + 1] = event
  BY SeqFacts, AppendFacts
<1>2. /\ \A i \in 1 .. Len(ids) : ids[i] \in 0 .. id - 1 /\ events[ids[i] + 1].sender = n
      /\ \A j \in 1 .. id : events[j].sender = n => \E i \in 1 .. Len(ids) : ids[i] = j - 1
  BY DEF IsLogOf
<1> HIDE DEF id, ids, after
<1>3. ASSUME NEW i \in 1 .. Len(ids)
      PROVE  ids[i] \in 0 .. Len(after) - 1 /\ after[ids[i] + 1].sender = n
  <2>1. ids[i] \in 0 .. id - 1 /\ ids[i] + 1 \in 1 .. id
    BY <1>1, <1>2
  <2> QED  BY <1>1, <1>2, <2>1
<1>4. ASSUME NEW j \in 1 .. Len(after), after[j].sender = n
      PROVE  \E i \in 1 .. Len(ids) : ids[i] = j - 1
  <2>1. j \in 1 .. id
    BY <1>1, <1>4
  <2> QED  BY <1>1, <1>2, <1>4, <2>1
<1> QED
  BY <1>3, <1>4 DEF IsLogOf, ids, after

LEMMA AppendedLogs ==
  ASSUME NEW b, IsBoard(b), NEW event, event.sender \in Registered(b),
         AgentLogs(b.agents, b.events)
  PROVE  /\ AgentLogs(Appended(b, event).agents, Appended(b, event).events)
         /\ Registered(Appended(b, event)) = Registered(b)
         /\ \A n \in Registered(b) :
              Appended(b, event).agents[n].local_state = b.agents[n].local_state
<1> DEFINE n == event.sender
           a == b.agents[n]
           c == Logged(a, Len(b.events))
           agents == Agents(b.agents, n, c)
           after == Append(b.events, event)
<1>1. /\ Appended(b, event).agents = agents /\ Appended(b, event).events = after
      /\ IsSeq(b.events) /\ n \in DOMAIN b.agents
  BY AppendedFacts DEF IsBoard, Registered
<1>2. /\ DOMAIN agents = DOMAIN b.agents /\ agents[n] = c
      /\ \A m \in DOMAIN b.agents : m # n => agents[m] = b.agents[m]
  BY <1>1 DEF Agents
<1>3. IsAgent(c) /\ IsLogOf(c, after, n) /\ c.local_state = a.local_state
  <2>1. IsAgent(a) /\ IsLogOf(a, b.events, n)
    BY <1>1 DEF AgentLogs
  <2> QED  BY <1>1, <2>1, EventIsLogged, AgentFields
<1> HIDE DEF c, agents
<1>4. ASSUME NEW m \in DOMAIN b.agents
      PROVE  /\ IsAgent(agents[m]) /\ IsLogOf(agents[m], after, m)
             /\ agents[m].local_state = b.agents[m].local_state
  <2>1. CASE m = n
    BY <1>2, <1>3, <2>1
  <2>2. CASE m # n
    BY <1>1, <1>2, <2>2, EventOfAnother DEF AgentLogs
  <2> QED  BY <2>1, <2>2
<1>5. ASSUME NEW j \in 1 .. Len(after) PROVE after[j].sender \in DOMAIN b.agents
  BY <1>1, SeqFacts, AppendFacts DEF AgentLogs
<1> QED
  BY <1>1, <1>2, <1>4, <1>5 DEF AgentLogs, Registered

LEMMA ChangedAgentLogs ==
  ASSUME NEW agents, NEW events, AgentLogs(agents, events),
         NEW n \in DOMAIN agents, NEW status, NEW local
  PROVE  AgentLogs(Agents(agents, n, Changed(agents[n], status, local)), events)
<1> DEFINE a == agents[n]
           c == Changed(a, status, local)
           after == Agents(agents, n, c)
<1>1. IsAgent(a) /\ IsLogOf(a, events, n)
  BY DEF AgentLogs
<1>2. IsAgent(c) /\ c.event_ids = a.event_ids /\ c.last_event_id = a.last_event_id
  BY <1>1, AgentFields
<1>3. IsLogOf(c, events, n)
  BY <1>1, <1>2 DEF IsLogOf
<1>4. /\ DOMAIN after = DOMAIN agents /\ after[n] = c
      /\ \A m \in DOMAIN agents : m # n => after[m] = agents[m]
  BY DEF Agents
<1> HIDE DEF c, after
<1>5. AgentLogs(after, events)
  BY <1>2, <1>3, <1>4 DEF AgentLogs
<1> QED  BY <1>5 DEF after, c

LEMMA NewAgentLogs ==
  ASSUME NEW agents, NEW events, IsSeq(events), AgentLogs(agents, events),
         NEW n, n \notin DOMAIN agents, NEW lineage, NEW local
  PROVE  AgentLogs(Agents(agents, n, NewAgent(n, lineage, local)), events)
<1> DEFINE a == NewAgent(n, lineage, local)
           after == Agents(agents, n, a)
<1>1. IsAgent(a) /\ a.event_ids = <<>> /\ a.last_event_id = None
  BY DEF NewAgent, IsAgent
<1>2. \A j \in 1 .. Len(events) : events[j].sender # n
  BY DEF AgentLogs
<1>3. IsSeq(<<>>) /\ Len(<<>>) = 0
  BY EmptySeq DEF IsSeq
<1> HIDE DEF a
<1>4. IsLogOf(a, events, n)
  BY <1>1, <1>2, <1>3 DEF IsLogOf
<1>5. /\ DOMAIN after = DOMAIN agents \union {n} /\ after[n] = a
      /\ \A m \in DOMAIN agents : after[m] = agents[m]
  BY DEF Agents
<1> HIDE DEF after
<1>6. AgentLogs(after, events)
  BY <1>1, <1>4, <1>5 DEF AgentLogs
<1> QED  BY <1>6 DEF after, a

(* What an agent last said of its state is its state. *)
SaysState(event, n) == event.sender = n /\ event.state # {}

StatesAreSaid(agents, events) ==
  \A n \in DOMAIN agents : \A i \in 1 .. Len(events) :
    /\ SaysState(events[i], n)
    /\ \A j \in i + 1 .. Len(events) : ~SaysState(events[j], n)
    => events[i].state = {agents[n].local_state}

(* The event says of every agent what has changed, if anything has. *)
SaysWhatChanged(event, before, after) ==
  /\ DOMAIN after = DOMAIN before
  /\ \A n \in DOMAIN before :
       IF SaysState(event, n) THEN event.state = {after[n].local_state}
       ELSE after[n].local_state = before[n].local_state

LEMMA EventKeepsStates ==
  ASSUME NEW events, IsSeq(events), NEW event, NEW before, NEW after,
         StatesAreSaid(before, events), SaysWhatChanged(event, before, after)
  PROVE  StatesAreSaid(after, Append(events, event))
<1> DEFINE more == Append(events, event)
           id == Len(events)
<1>1. /\ id \in Nat /\ Len(more) = id + 1 /\ more[id + 1] = event
      /\ \A i \in 1 .. id : more[i] = events[i]
  BY SeqFacts, AppendFacts
<1> HIDE DEF more, id
<1> SUFFICES ASSUME NEW n \in DOMAIN after, NEW i \in 1 .. Len(more), SaysState(more[i], n),
                    \A j \in i + 1 .. Len(more) : ~SaysState(more[j], n)
             PROVE  more[i].state = {after[n].local_state}
  BY DEF StatesAreSaid, more
<1>2. CASE i = id + 1
  BY <1>1, <1>2 DEF SaysWhatChanged
<1>3. CASE i \in 1 .. id
  <2>1. ~SaysState(event, n)
    BY <1>1, <1>3
  <2>2. /\ n \in DOMAIN before /\ after[n].local_state = before[n].local_state
        /\ more[i] = events[i]
    BY <1>1, <1>3, <2>1 DEF SaysWhatChanged
  <2>3. \A j \in i + 1 .. id : ~SaysState(events[j], n)
    BY <1>1, <1>3
  <2> QED
    BY <1>3, <2>2, <2>3 DEF StatesAreSaid, id
<1> QED
  BY <1>1, <1>2, <1>3

----------------------------------------------------------------------------
(* The calls of the blackboard. *)

BoardInv ==
  /\ IsBoard(board) /\ IsLossless(board)
  /\ LeaseHistory(board.events, board.leases)
  /\ AgentLogs(board.agents, board.events)
  /\ clean => StatesAreSaid(board.agents, board.events)

LEMMA BoardInit == Init => BoardInv
<1> SUFFICES ASSUME Init PROVE BoardInv
  OBVIOUS
<1>1. /\ board.agents = <<>> /\ board.leases = [o \in Objective |-> None]
      /\ board.events = <<>> /\ board.active = <<>> /\ board.archive = <<>>
      /\ board = [agents |-> board.agents, events |-> board.events, active |-> board.active,
                  archive |-> board.archive, leases |-> board.leases]
  BY DEF Init, EmptyBoard
<1>2. IsSeq(<<>>) /\ Len(<<>>) = 0
  BY EmptySeq DEF IsSeq
<1>3. IsBoard(board)
  BY <1>1, <1>2 DEF IsBoard, Registered
<1>4. IsLossless(board)
  <2>1. <<>> \o <<>> = <<>> /\ Numbered(0) = <<>>
    BY ConcatEmptySeq, EmptySeq DEF Numbered
  <2> QED
    BY <1>1, <1>2, <2>1, ActiveWindowAssumption DEF IsLossless
<1>5. LeaseHistory(board.events, board.leases)
  <2>1. 1 .. Len(board.events) = {}
    BY <1>1, <1>2
  <2> QED
    BY <1>1, <2>1
       DEF LeaseHistory, ClaimsAreTyped, TurnsAdvance, LeasesAreLastClaims, Disjoint
<1>6. AgentLogs(board.agents, board.events) /\ StatesAreSaid(board.agents, board.events)
  <2>1. 1 .. Len(board.events) = {} /\ DOMAIN board.agents = {}
    BY <1>1, <1>2
  <2> QED
    BY <2>1 DEF AgentLogs, StatesAreSaid
<1> QED
  BY <1>3, <1>4, <1>5, <1>6 DEF BoardInv

(* A change of agents, with or without an event that claims nothing. *)
LEMMA AgentsOnly ==
  ASSUME BoardInv, IsBoard(board'), SameButAgents(board, board'),
         AgentLogs(board.agents, board.events)',
         clean' => StatesAreSaid(board.agents, board.events)'
  PROVE  BoardInv'
BY DEF BoardInv, SameButAgents, IsLossless

LEMMA PublishKeepsBoard ==
  ASSUME BoardInv, NEW b, IsBoard(b), SameButAgents(board, b),
         AgentLogs(b.agents, b.events),
         NEW event, event.claim = None, Publishes(b, event),
         SaysWhatChanged(event, board.agents, b.agents)
  PROVE  BoardInv'
<1>1. CASE Accepts(b, event)
  <2>1. /\ board' = Appended(b, event) /\ clean' = clean
        /\ event.sender \in Name /\ event.sender \in Registered(b)
    BY <1>1 DEF Publishes, Ends, Accepts, IsBoard
  <2>2. /\ IsLossless(b) /\ LeaseHistory(b.events, b.leases) /\ IsSeq(b.events)
        /\ b.events = board.events
    BY DEF BoardInv, SameButAgents, IsLossless, IsBoard
  <2>3. LeaseHistory(Append(b.events, event), b.leases)
    BY <2>2, OtherEventKeepsHistory
  <2>4. /\ AgentLogs(board.agents, board.events)'
        /\ Registered(Appended(b, event)) = Registered(b)
        /\ \A n \in Registered(b) :
             Appended(b, event).agents[n].local_state = b.agents[n].local_state
    BY <2>1, AppendedLogs
  <2>5. SaysWhatChanged(event, board.agents, Appended(b, event).agents)
    BY <2>4 DEF SaysWhatChanged, Registered
  <2>6. clean' => StatesAreSaid(board.agents, board.events)'
    BY <2>1, <2>2, <2>5, AppendedFacts, EventKeepsStates DEF BoardInv
  <2> QED
    BY <2>1, <2>2, <2>3, <2>4, <2>6, AppendedFacts DEF BoardInv
<1>2. CASE ~Accepts(b, event)
  BY <1>2, AgentsOnly DEF Publishes, Ends
<1> QED
  BY <1>1, <1>2

LEMMA BoardIsItself ==
  ASSUME BoardInv
  PROVE  /\ IsBoard(board) /\ SameButAgents(board, board)
         /\ AgentLogs(board.agents, board.events)
         /\ \A event : event.state = {} => SaysWhatChanged(event, board.agents, board.agents)
BY DEF BoardInv, SameButAgents, SaysWhatChanged, SaysState

LEMMA WithStateFacts ==
  ASSUME BoardInv, NEW n \in Registered(board), NEW status, NEW local,
         NEW b, b = WithState(board, n, status, local)
  PROVE  /\ IsBoard(b) /\ SameButAgents(board, b) /\ AgentLogs(b.agents, b.events)
         /\ \A event : /\ event.sender = n
                       /\ \/ event.state = {local}
                          \/ event.state = {} /\ local = board.agents[n].local_state
                       => SaysWhatChanged(event, board.agents, b.agents)
<1> DEFINE a == Changed(board.agents[n], status, local)
<1>1. b = WithAgent(board, n, a) /\ n \in Name /\ n \in DOMAIN board.agents
  BY DEF WithState, Changed, BoardInv, IsBoard, Registered
<1>2. /\ IsBoard(b) /\ SameButAgents(board, b)
      /\ b.agents = Agents(board.agents, n, a)
  BY <1>1, AgentChanges DEF BoardInv
<1>3. AgentLogs(b.agents, b.events)
  BY <1>1, <1>2, ChangedAgentLogs DEF BoardInv, SameButAgents
<1>4. a.local_state = local
  BY <1>1, AgentFields DEF BoardInv, AgentLogs
<1> HIDE DEF a
<1>5. /\ DOMAIN b.agents = DOMAIN board.agents /\ b.agents[n] = a
      /\ \A m \in DOMAIN board.agents : m # n => b.agents[m] = board.agents[m]
  BY <1>1, <1>2 DEF Agents
<1>6. ASSUME NEW event, event.sender = n,
             \/ event.state = {local}
             \/ event.state = {} /\ local = board.agents[n].local_state
      PROVE  SaysWhatChanged(event, board.agents, b.agents)
  BY <1>4, <1>5, <1>6 DEF SaysWhatChanged, SaysState
<1> QED
  BY <1>2, <1>3, <1>6

LEMMA RegisterKeepsBoard ==
  ASSUME BoardInv, NEW n \in Name, n \notin Registered(board), NEW lineage,
         board' = WithAgent(board, n, NewAgent(n, lineage, None)), clean' => clean
  PROVE  BoardInv'
<1> DEFINE a == NewAgent(n, lineage, None)
<1>1. /\ IsBoard(board') /\ SameButAgents(board, board')
      /\ board'.agents = Agents(board.agents, n, a)
  BY AgentChanges DEF BoardInv
<1>2. n \notin DOMAIN board.agents /\ board'.events = board.events /\ IsSeq(board.events)
  BY <1>1 DEF Registered, SameButAgents, BoardInv, IsBoard
<1>3. AgentLogs(board.agents, board.events)'
  BY <1>1, <1>2, NewAgentLogs DEF BoardInv
<1>4. /\ DOMAIN board'.agents = DOMAIN board.agents \union {n}
      /\ \A m \in DOMAIN board.agents : board'.agents[m] = board.agents[m]
  BY <1>1, <1>2 DEF Agents
<1>5. \A i \in 1 .. Len(board.events) : board.events[i].sender # n
  BY <1>2 DEF BoardInv, AgentLogs
<1>6. clean' => StatesAreSaid(board.agents, board.events)'
  BY <1>2, <1>4, <1>5 DEF BoardInv, StatesAreSaid, SaysState
<1> QED
  BY <1>1, <1>3, <1>6, AgentsOnly

LEMMA RaisedKeepsBoard ==
  ASSUME BoardInv, NEW n, UnknownAgent(n)
  PROVE  BoardInv'
<1>1. board' = board /\ clean' = FALSE
  BY DEF UnknownAgent, Ends
<1> QED
  BY <1>1 DEF BoardInv

LEMMA ClaimKeepsBoard ==
  ASSUME BoardInv, NEW n \in Name, ClaimLease(n)
  PROVE  BoardInv'
<1>1. CASE UnknownAgent(n)
  BY <1>1, RaisedKeepsBoard
<1>2. CASE ~UnknownAgent(n)
  <2>1. PICK o \in Objective, ttl \in Ttl, now \in OwnTurns(n) :
          LET claim == [objective |-> o, acquired |-> now, expires |-> now + ttl]
              event == [NewEvent("LEASE_STATE", n) EXCEPT
                          !.claim   = claim,
                          !.parents = IF board.leases[o] = None THEN {}
                                      ELSE {board.leases[o].event}]
              lease == [owner |-> n, expires |-> claim.expires,
                        event |-> Len(board.events)]
          IN Ends(/\ ttl > 0
                  /\ ~LeasedToAnother(board, n, o, now)
                  /\ Accepts(board, event),
                  [Appended(board, event) EXCEPT !.leases = [@ EXCEPT ![o] = lease]],
                  board)
    BY <1>2 DEF ClaimLease
  <2> DEFINE claim == [objective |-> o, acquired |-> now, expires |-> now + ttl]
             event == [NewEvent("LEASE_STATE", n) EXCEPT
                         !.claim   = claim,
                         !.parents = IF board.leases[o] = None THEN {}
                                     ELSE {board.leases[o].event}]
             lease == [owner |-> n, expires |-> claim.expires, event |-> Len(board.events)]
             after == [Appended(board, event) EXCEPT !.leases = [@ EXCEPT ![o] = lease]]
  <2>2. /\ ttl \in Nat /\ now \in Nat /\ now + ttl \in Nat /\ now <= now + ttl
        /\ \A i \in Claims(board, n) : board.events[i].claim.acquired <= now
    BY TtlAssumption DEF OwnTurns
  <2>3. /\ event.sender = n /\ event.claim = claim /\ claim # None
        /\ event.state = {}
    <3>1. claim \in Claim
      BY <2>2 DEF Claim
    <3> QED
      BY <3>1, NoneAssumption DEF NewEvent
  <2>4. /\ claim.objective = o /\ claim.acquired = now /\ claim.expires = now + ttl
        /\ lease.owner = n /\ lease.expires = now + ttl
    OBVIOUS
  <2>5. lease # None
    <3>1. Len(board.events) \in Nat
      BY SeqFacts DEF BoardInv, IsBoard
    <3> QED
      BY <2>2, <2>4, <3>1, NoneAssumption DEF Lease, EventId
  <2>6. \/ board' = board /\ clean' = FALSE
        \/ /\ board' = after /\ clean' = clean
           /\ ~LeasedToAnother(board, n, o, now) /\ event.sender \in Registered(board)
    BY <2>1 DEF Ends, Accepts
  <2> HIDE DEF claim, event, lease, after
  <2>7. CASE board' = board /\ clean' = FALSE
    BY <2>7 DEF BoardInv
  <2>8. CASE /\ board' = after /\ clean' = clean
             /\ ~LeasedToAnother(board, n, o, now) /\ event.sender \in Registered(board)
    <3>1. /\ IsBoard(Appended(board, event))
          /\ Appended(board, event).events = Append(board.events, event)
          /\ Appended(board, event).leases = board.leases
          /\ IsLossless(Appended(board, event))
      BY <2>3, AppendedFacts DEF BoardInv
    <3> DEFINE held == [board.leases EXCEPT ![o] = lease]
               filed == Appended(board, event)
    <3>2. after = [filed EXCEPT !.leases = held]
      BY <3>1 DEF after
    <3> HIDE DEF held, filed
    <3>3. after = [agents |-> filed.agents, events |-> filed.events, active |-> filed.active,
                   archive |-> filed.archive, leases |-> held]
      BY <3>1, <3>2, FieldChanges DEF filed
    <3>4. held = [p \in Objective |-> held[p]]
      BY DEF BoardInv, IsBoard, held
    <3>5. IsBoard(after) /\ IsLossless(after)
      BY <3>1, <3>3, <3>4 DEF IsBoard, Registered, IsLossless, filed
    <3>6. \A i \in 1 .. Len(board.events) :
            board.events[i].claim # None /\ board.events[i].sender = n
              => board.events[i].claim.acquired <= now
      <4>1. DOMAIN board.events = 1 .. Len(board.events)
        BY SeqFacts DEF BoardInv, IsBoard
      <4> QED
        BY <2>2, <4>1 DEF Claims
    <3>7. board.leases[o] # None /\ board.leases[o].owner # n => board.leases[o].expires < now
      <4> SUFFICES ASSUME board.leases[o] # None, board.leases[o].owner # n
                   PROVE  board.leases[o].expires < now
        OBVIOUS
      <4>1. ~(board.leases[o].expires >= now)
        BY <2>8 DEF LeasedToAnother
      <4>2. board.leases[o].expires \in Nat
        BY DEF BoardInv, LeaseHistory, LeasesAreLastClaims, IsLastClaim, ClaimsAreTyped, ClaimAt
      <4> QED
        BY <2>2, <4>1, <4>2
    <3>8. LeaseHistory(Append(board.events, event), held)
      <4>1. /\ IsSeq(board.events) /\ board.leases = [p \in Objective |-> board.leases[p]]
            /\ LeaseHistory(board.events, board.leases)
        BY DEF BoardInv, IsBoard
      <4> QED
        BY <2>2, <2>3, <2>4, <2>5, <3>6, <3>7, <4>1, ClaimKeepsHistory DEF held
    <3>9. after.events = Append(board.events, event) /\ after.leases = held
      BY <3>1, <3>3 DEF filed
    <3>10. /\ after.agents = filed.agents /\ AgentLogs(after.agents, after.events)
           /\ Registered(filed) = Registered(board)
           /\ \A m \in Registered(board) :
                filed.agents[m].local_state = board.agents[m].local_state
      BY <2>8, <3>1, <3>3, <3>9, AppendedLogs DEF filed, BoardInv
    <3>11. SaysWhatChanged(event, board.agents, after.agents)
      BY <2>3, <3>10 DEF SaysWhatChanged, SaysState, Registered
    <3>12. clean => StatesAreSaid(after.agents, after.events)
      BY <3>9, <3>11, EventKeepsStates DEF BoardInv, IsBoard
    <3> QED
      BY <2>8, <3>5, <3>8, <3>9, <3>10, <3>12 DEF BoardInv
  <2> QED
    BY <2>6, <2>7, <2>8
<1> QED
  BY <1>1, <1>2

(* A message of a caller claims no lease and says nothing of a state. *)
LEMMA MessageFields ==
  ASSUME NEW kind, NEW n, NEW to, NEW after
  PROVE  /\ Message(kind, n, to, after).claim = None
         /\ Message(kind, n, to, after).state = {}
BY DEF Message, NewEvent

LEMMA BoardStep == BoardInv /\ [Next]_vars => BoardInv'
<1> SUFFICES ASSUME BoardInv, [Next]_vars PROVE BoardInv'
  OBVIOUS
<1>1. CASE UNCHANGED vars
  BY <1>1 DEF vars, BoardInv
<1>2. ASSUME NEW n \in Name, Register(n) PROVE BoardInv'
  <2>1. PICK lineage : Ends(MayRegister(board, n, lineage),
                            AgentRegistered(board, n, lineage, None), board)
    BY <1>2 DEF Register
  <2>2. Strip[n] \in Name
    BY StripAssumption
  <2>3. \/ board' = board /\ (clean' => clean)
        \/ /\ board' = WithAgent(board, Strip[n], NewAgent(Strip[n], lineage, None))
           /\ Strip[n] \notin Registered(board) /\ (clean' => clean)
    BY <2>1, Zenon DEF Ends, AgentRegistered
  <2>4. CASE board' = board /\ (clean' => clean)
    BY <2>4 DEF BoardInv
  <2> QED
    BY <2>2, <2>3, <2>4, RegisterKeepsBoard
<1>3. ASSUME NEW n \in Name, AppendEvent(n) PROVE BoardInv'
  <2>1. PICK kind \in Emitted, to \in NamedRecipients, after \in NamedParents :
          Publishes(board, Message(kind, n, to, after))
    BY <1>3 DEF AppendEvent
  <2> QED
    BY <2>1, MessageFields, BoardIsItself, PublishKeepsBoard
<1>4. ASSUME NEW n \in Name, BindGenome(n) PROVE BoardInv'
  <2>1. PICK id : Publishes(board, [NewEvent("GENOME_BIND", n) EXCEPT !.nodes = {id}])
    BY <1>4 DEF BindGenome
  <2> DEFINE event ==  [NewEvent("GENOME_BIND", n) EXCEPT !.nodes = {id}]
  <2>2. event.claim = None /\ event.state = {}
    BY DEF NewEvent
  <2> QED
    BY <2>1, <2>2, BoardIsItself, PublishKeepsBoard
<1>5. ASSUME NEW n \in Name, Handoff(n) PROVE BoardInv'
  <2>1. PICK to \in NamedRecipients, after \in NamedParents :
          Publishes(board, Message("HANDOFF", n, to, after))
    BY <1>5 DEF Handoff
  <2> QED
    BY <2>1, MessageFields, BoardIsItself, PublishKeepsBoard
<1>6. ASSUME NEW n \in Name, SyncLocalState(n) PROVE BoardInv'
  <2>1. CASE UnknownAgent(n)
    BY <2>1, RaisedKeepsBoard
  <2>2. CASE ~UnknownAgent(n)
    <3>1. PICK status, current, after :
            /\ n \in Registered(board)
            /\ Publishes(WithState(board, n, status, current),
                         [NewEvent("STATE_DELTA", n) EXCEPT !.state = {current},
                                                           !.parents = after])
      BY <1>6, <2>2 DEF SyncLocalState
    <3> DEFINE event == [NewEvent("STATE_DELTA", n) EXCEPT !.state = {current},
                                                          !.parents = after]
    <3>2. event.claim = None /\ event.sender = n /\ event.state = {current}
      BY DEF NewEvent
    <3> HIDE DEF event
    <3> QED
      BY <3>1, <3>2, WithStateFacts, PublishKeepsBoard DEF event
  <2> QED
    BY <2>1, <2>2
<1>7. ASSUME NEW n \in Name, MarkStale(n) PROVE BoardInv'
  <2>1. CASE UnknownAgent(n)
    BY <2>1, RaisedKeepsBoard
  <2>2. CASE ~UnknownAgent(n)
    <3>1. /\ n \in Registered(board)
          /\ Publishes(WithState(board, n, "STALE_KNOWN_ANCESTOR", board.agents[n].local_state),
                       NewEvent("HEALTH", n))
      BY <1>7, <2>2 DEF MarkStale
    <3>2. /\ NewEvent("HEALTH", n).claim = None /\ NewEvent("HEALTH", n).sender = n
          /\ NewEvent("HEALTH", n).state = {}
      BY DEF NewEvent
    <3> QED
      BY <3>1, <3>2, WithStateFacts, PublishKeepsBoard
  <2> QED
    BY <2>1, <2>2
<1>8. ASSUME NEW n \in Name, Recover(n) PROVE BoardInv'
  <2>1. CASE UnknownAgent(n)
    BY <2>1, RaisedKeepsBoard
  <2>2. CASE ~UnknownAgent(n)
    <3>1. PICK state : /\ n \in Registered(board)
                       /\ Publishes(WithState(board, n, "RECOVERED", state),
                                    [NewEvent("HEALTH", n) EXCEPT !.state = {state}])
      BY <1>8, <2>2 DEF Recover
    <3> DEFINE event == [NewEvent("HEALTH", n) EXCEPT !.state = {state}]
    <3>2. event.claim = None /\ event.sender = n /\ event.state = {state}
      BY DEF NewEvent
    <3> HIDE DEF event
    <3> QED
      BY <3>1, <3>2, WithStateFacts, PublishKeepsBoard DEF event
  <2> QED
    BY <2>1, <2>2
<1> QED
  BY <1>1, <1>2, <1>3, <1>4, <1>5, <1>6, <1>7, <1>8, ClaimKeepsBoard DEF Next

(* TenuresAreDisjoint for any agents, objectives, ttls and histories of calls,
   raised ones included: claim_lease compares a lease with turns of agents
   that know nothing of each other's. *)
THEOREM TenuresDoNotOverlap == Spec => []TenuresAreDisjoint
<1>1. BoardInv => TenuresAreDisjoint
  <2> SUFFICES ASSUME BoardInv,
                      NEW i \in DOMAIN board.events, NEW j \in DOMAIN board.events,
                      i < j, None \notin {board.events[i].claim, board.events[j].claim},
                      board.events[i].claim.objective = board.events[j].claim.objective,
                      board.events[i].sender # board.events[j].sender,
                      \A k \in i + 1 .. j : ~ /\ board.events[k].claim # None
                                              /\ board.events[k].sender = board.events[i].sender
                                              /\ board.events[k].claim.objective
                                                   = board.events[i].claim.objective
               PROVE  board.events[i].claim.expires < board.events[j].claim.acquired
    BY DEF TenuresAreDisjoint
  <2>1. DOMAIN board.events = 1 .. Len(board.events)
    BY SeqFacts DEF BoardInv, IsBoard
  <2>2. board.events[i].claim # None /\ board.events[j].claim # None
    BY Zenon
  <2> DEFINE o == board.events[i].claim.objective
  <2>3. IsTenureBefore(board.events, i, j, o)
    BY <2>2 DEF IsTenureBefore, ClaimAt
  <2> QED
    BY <2>1, <2>3 DEF BoardInv, LeaseHistory, Disjoint, EndsBefore
<1> QED
  BY BoardInit, BoardStep, <1>1, PTL DEF Spec

(* WindowIsLossless for any window and any number of events. *)
THEOREM WindowLosesNothing == Spec => []WindowIsLossless
<1>1. BoardInv => WindowIsLossless
  BY DEF BoardInv, IsLossless, WindowIsLossless, Numbered
<1> QED
  BY BoardInit, BoardStep, <1>1, PTL DEF Spec

(* AgentsKeepTheirOwnLog for any agents and any interleaving of their calls,
   the calls that raise included. *)
THEOREM LogsAreTheirOwn == Spec => []AgentsKeepTheirOwnLog
<1>1. BoardInv => AgentsKeepTheirOwnLog
  <2> SUFFICES ASSUME BoardInv, NEW n \in Registered(board)
               PROVE  LET agent == board.agents[n]
                          sent  == {i - 1 : i \in {j \in DOMAIN board.events :
                                                     board.events[j].sender = n}}
                      IN /\ ToSet(agent.event_ids) = sent
                         /\ \A i, j \in DOMAIN agent.event_ids :
                              i < j => agent.event_ids[i] < agent.event_ids[j]
                         /\ agent.last_event_id = IF sent = {} THEN None
                                                  ELSE Last(agent.event_ids)
    BY DEF AgentsKeepTheirOwnLog
  <2> DEFINE agent == board.agents[n]
             ids == agent.event_ids
             sent == {i - 1 : i \in {j \in DOMAIN board.events : board.events[j].sender = n}}
  <2>1. IsLogOf(agent, board.events, n) /\ IsSeq(ids) /\ IsSeq(board.events)
    BY DEF BoardInv, AgentLogs, IsLogOf, Registered, IsBoard
  <2>2. /\ DOMAIN ids = 1 .. Len(ids) /\ Len(ids) \in Nat
        /\ DOMAIN board.events = 1 .. Len(board.events) /\ Len(board.events) \in Nat
    BY <2>1, SeqFacts
  <2>3. ToSet(ids) = {ids[i] : i \in 1 .. Len(ids)}
    BY <2>2 DEF ToSet
  <2>4. ASSUME NEW i \in 1 .. Len(ids) PROVE ids[i] \in sent
    <3>1. PICK m \in 0 .. Len(board.events) - 1 :
            ids[i] = m /\ board.events[m + 1].sender = n
      BY <2>1 DEF IsLogOf
    <3>2. m + 1 \in 1 .. Len(board.events) /\ m = (m + 1) - 1
      BY <2>2
    <3>3. (m + 1) - 1 \in sent
      BY <2>2, <3>1, <3>2
    <3> QED  BY <3>1, <3>2, <3>3
  <2>5. ASSUME NEW x \in sent PROVE \E i \in 1 .. Len(ids) : ids[i] = x
    <3>1. PICK j \in 1 .. Len(board.events) : board.events[j].sender = n /\ x = j - 1
      BY <2>2
    <3> QED  BY <2>1, <3>1 DEF IsLogOf
  <2> HIDE DEF sent
  <2>6. ToSet(ids) = sent
    BY <2>3, <2>4, <2>5
  <2>7. sent = {} <=> Len(ids) = 0
    BY <2>2, <2>4, <2>5
  <2>8. agent.last_event_id = IF sent = {} THEN None ELSE Last(ids)
    BY <2>1, <2>7 DEF IsLogOf, Last
  <2> QED
    BY <2>1, <2>2, <2>6, <2>8 DEF IsLogOf, sent
<1> QED
  BY BoardInit, BoardStep, <1>1, PTL DEF Spec

(* LocalStateIsPublished for any states and deltas. *)
THEOREM StateIsPublished == Spec => []LocalStateIsPublished
<1>1. BoardInv => LocalStateIsPublished
  <2> SUFFICES ASSUME BoardInv, clean, NEW n \in Registered(board),
                      {i \in DOMAIN board.events : SaysState(board.events[i], n)} # {}
               PROVE  \E i \in {k \in DOMAIN board.events : SaysState(board.events[k], n)} :
                        /\ \A j \in {k \in DOMAIN board.events : SaysState(board.events[k], n)} :
                             j <= i
                        /\ board.events[i].state = {board.agents[n].local_state}
    BY DEF LocalStateIsPublished, SaysState
  <2> DEFINE published == {k \in DOMAIN board.events : SaysState(board.events[k], n)}
  <2>1. DOMAIN board.events = 1 .. Len(board.events) /\ Len(board.events) \in Nat
    BY SeqFacts DEF BoardInv, IsBoard
  <2>2. published \subseteq 1 .. Len(board.events) /\ published # {}
    BY <2>1
  <2> HIDE DEF published
  <2>3. PICK i \in published : \A j \in published : j <= i
    BY <2>1, <2>2, GreatestNumber
  <2>4. /\ i \in 1 .. Len(board.events) /\ SaysState(board.events[i], n)
        /\ \A j \in i + 1 .. Len(board.events) : ~SaysState(board.events[j], n)
    BY <2>1, <2>2, <2>3, SMTT(30) DEF published
  <2>5. board.events[i].state = {board.agents[n].local_state}
    BY <2>4 DEF BoardInv, StatesAreSaid, Registered
  <2> QED
    BY <2>3, <2>5 DEF published
<1> QED
  BY BoardInit, BoardStep, <1>1, PTL DEF Spec

----------------------------------------------------------------------------
(* The spiral controller. *)

SpiralShape ==
  /\ ledgers = [e \in Entity |-> ledgers[e]]
  /\ by_entity = [e \in Entity |-> by_entity[e]]
  /\ \A e \in Entity : IsSeq(ledgers[e]) /\ IsSeq(by_entity[e])
  /\ IsSeq(frontier) /\ IsSeq(archive) /\ IsSeq(chronicle)

(* The turns of an entity are numbered, and none is without a candidate. *)
TurnInv ==
  \A e \in Entity : \A i \in 1 .. Len(ledgers[e]) :
    /\ ledgers[e][i].turn = i - 1
    /\ ledgers[e][i].candidate \in State
    /\ ledgers[e][i].active \in State

LineInv ==
  \A e \in Entity :
    /\ Len(by_entity[e]) <= Len(ledgers[e])
    /\ \A i \in 1 .. Len(by_entity[e]) :
         /\ by_entity[e][i] = IdOf(e, ledgers[e][i])
         /\ by_entity[e][i] \in DOMAIN nodes
         /\ nodes[by_entity[e][i]].primary = IF i = 1 THEN Nil ELSE by_entity[e][i - 1]

(* The last turn that was promoted, or the first: its candidate is active. *)
IsLastPromoted(e, i) ==
  /\ i = 1 \/ ledgers[e][i].promoted
  /\ \A j \in i + 1 .. Len(ledgers[e]) : j # 1 /\ ~ledgers[e][j].promoted
  /\ ledgers[e][Len(ledgers[e])].active = ledgers[e][i].candidate

ActiveInv ==
  \A e \in Entity : Len(ledgers[e]) > 0 =>
    \E i \in 1 .. Len(ledgers[e]) : IsLastPromoted(e, i)

ChronicleInv ==
  /\ archive \o frontier = chronicle
  /\ Len(frontier) <= WorkingWindow
  /\ \A i \in 1 .. Len(chronicle) :
       \E e \in Entity : \E k \in 1 .. Len(by_entity[e]) : chronicle[i] = by_entity[e][k]
  /\ \A e \in Entity : \A k \in 1 .. Len(by_entity[e]) :
       \E i \in 1 .. Len(chronicle) : chronicle[i] = by_entity[e][k]
  /\ \A i, j \in 1 .. Len(chronicle) :
       i < j /\ chronicle[i].entity = chronicle[j].entity
         => chronicle[i].turn < chronicle[j].turn

SpiralInv == SpiralShape /\ TurnInv /\ LineInv /\ ActiveInv /\ ChronicleInv

LEMMA SpiralStart == SpiralInit => SpiralInv
<1> SUFFICES ASSUME SpiralInit PROVE SpiralInv
  OBVIOUS
<1>1. IsSeq(<<>>) /\ Len(<<>>) = 0 /\ <<>> \o <<>> = <<>> /\ 1 .. 0 = {}
  BY EmptySeq, ConcatEmptySeq DEF IsSeq
<1>2. \A e \in Entity : ledgers[e] = <<>> /\ by_entity[e] = <<>>
  BY DEF SpiralInit
<1>3. SpiralShape
  BY <1>1 DEF SpiralInit, SpiralShape
<1>4. TurnInv /\ LineInv /\ ActiveInv
  BY <1>1, <1>2 DEF TurnInv, LineInv, ActiveInv
<1>5. ChronicleInv
  BY <1>1, <1>2, WorkingWindowAssumption DEF SpiralInit, ChronicleInv
<1> QED
  BY <1>3, <1>4, <1>5 DEF SpiralInv

(* The turn that integrate() builds. *)
LEMMA NewTurnFacts ==
  ASSUME SpiralInv, NEW e \in Entity, NEW candidate \in State, NEW promoted
  PROVE  /\ NewTurn(e, candidate, promoted).turn = Len(ledgers[e])
         /\ NewTurn(e, candidate, promoted).candidate = candidate
         /\ NewTurn(e, candidate, promoted).promoted = promoted
         /\ NewTurn(e, candidate, promoted).active \in State
         /\ promoted \/ Len(ledgers[e]) = 0 => NewTurn(e, candidate, promoted).active = candidate
         /\ ~promoted /\ Len(ledgers[e]) > 0 =>
              NewTurn(e, candidate, promoted).active = ledgers[e][Len(ledgers[e])].active
<1>1. Len(ledgers[e]) \in Nat /\ (ledgers[e] = <<>> <=> Len(ledgers[e]) = 0)
  <2>1. PICK S : ledgers[e] \in Seq(S)
    BY DEF SpiralInv, SpiralShape, IsSeq
  <2> QED
    BY <2>1, EmptySeq, LenProperties
<1>2. CASE Len(ledgers[e]) = 0
  <2>1. ActiveState(e) = Nil
    BY <1>1, <1>2 DEF ActiveState
  <2> QED
    BY <1>2, <2>1 DEF NewTurn, ActiveAfter
<1>3. CASE Len(ledgers[e]) > 0
  <2>1. ActiveState(e) = ledgers[e][Len(ledgers[e])].active
    BY <1>1, <1>3 DEF ActiveState, Last
  <2>2. ActiveState(e) \in State /\ ActiveState(e) # Nil
    <3>1. Len(ledgers[e]) \in 1 .. Len(ledgers[e])
      BY <1>1, <1>3
    <3> QED
      BY <2>1, <3>1, NilAssumption DEF SpiralInv, TurnInv
  <2> QED
    BY <1>3, <2>1, <2>2 DEF NewTurn, ActiveAfter
<1> QED
  BY <1>1, <1>2, <1>3

(* What becomes of the ledgers, whether or not the genome takes the turn. *)
LEMMA LedgerGrows ==
  ASSUME SpiralInv, NEW e \in Entity, NEW candidate \in State, NEW promoted \in BOOLEAN,
         ledgers' = [ledgers EXCEPT ![e] = Append(@, NewTurn(e, candidate, promoted))]
  PROVE  /\ Len(ledgers[e]) \in Nat /\ Len(ledgers'[e]) = Len(ledgers[e]) + 1
         /\ ledgers' = [f \in Entity |-> ledgers'[f]]
         /\ \A f \in Entity : IsSeq(ledgers'[f]) /\ (f # e => ledgers'[f] = ledgers[f])
         /\ \A i \in 1 .. Len(ledgers[e]) : ledgers'[e][i] = ledgers[e][i]
         /\ ledgers'[e][Len(ledgers[e]) + 1] = NewTurn(e, candidate, promoted)
         /\ TurnInv' /\ ActiveInv'
<1> DEFINE turn == NewTurn(e, candidate, promoted)
           n    == Len(ledgers[e])
<1>1. ledgers'[e] = Append(ledgers[e], turn) /\ IsSeq(ledgers[e])
  BY DEF SpiralInv, SpiralShape
<1>2. /\ n \in Nat /\ IsSeq(ledgers'[e]) /\ Len(ledgers'[e]) = n + 1
      /\ \A i \in 1 .. n : ledgers'[e][i] = ledgers[e][i]
      /\ ledgers'[e][n + 1] = turn
  BY <1>1, SeqFacts, AppendFacts
<1>3. /\ ledgers' = [f \in Entity |-> ledgers'[f]]
      /\ \A f \in Entity : f # e => ledgers'[f] = ledgers[f] /\ IsSeq(ledgers'[f])
  BY DEF SpiralInv, SpiralShape
<1>4. /\ turn.turn = n /\ turn.candidate = candidate /\ turn.promoted = promoted
      /\ turn.active \in State
      /\ promoted \/ n = 0 => turn.active = candidate
      /\ ~promoted /\ n > 0 => turn.active = ledgers[e][n].active
  BY NewTurnFacts
<1> HIDE DEF turn, n
<1>5. TurnInv'
  <2> SUFFICES ASSUME NEW f \in Entity, NEW i \in 1 .. Len(ledgers'[f])
               PROVE  /\ ledgers'[f][i].turn = i - 1
                      /\ ledgers'[f][i].candidate \in State
                      /\ ledgers'[f][i].active \in State
    BY DEF TurnInv
  <2>1. CASE f # e
    BY <1>3, <2>1 DEF SpiralInv, TurnInv
  <2>2. CASE f = e /\ i \in 1 .. n
    BY <1>2, <2>2 DEF SpiralInv, TurnInv, n
  <2>3. CASE f = e /\ i = n + 1
    BY <1>2, <1>4, <2>3
  <2>4. f = e => i \in 1 .. n \/ i = n + 1
    BY <1>2
  <2> QED
    BY <2>1, <2>2, <2>3, <2>4
<1>6. ActiveInv'
  <2> SUFFICES ASSUME NEW f \in Entity, Len(ledgers'[f]) > 0
               PROVE  \E i \in 1 .. Len(ledgers'[f]) : IsLastPromoted(f, i)'
    BY DEF ActiveInv
  <2>1. CASE f # e
    <3>1. PICK i \in 1 .. Len(ledgers[f]) : IsLastPromoted(f, i)
      BY <1>3, <2>1 DEF SpiralInv, ActiveInv
    <3>2. IsLastPromoted(f, i)'
      BY <1>3, <2>1, <3>1 DEF IsLastPromoted
    <3> QED
      BY <1>3, <2>1, <3>1, <3>2
  <2>2. CASE f = e /\ (promoted \/ n = 0)
    <3>1. PICK m \in Nat : m = n + 1
      BY <1>2
    <3>2. /\ m + 1 .. m = {} /\ m \in 1 .. m /\ Len(ledgers'[e]) = m
          /\ n = 0 => m = 1
      BY <1>2, <3>1
    <3>3. m = 1 \/ ledgers'[e][m].promoted
      BY <1>2, <1>4, <2>2, <3>1, <3>2
    <3>4. ledgers'[e][m].active = ledgers'[e][m].candidate
      BY <1>2, <1>4, <2>2, <3>1
    <3>5. IsLastPromoted(e, m)'
      BY <3>2, <3>3, <3>4 DEF IsLastPromoted
    <3> QED
      BY <2>2, <3>2, <3>5
  <2>3. CASE f = e /\ ~promoted /\ n > 0
    <3>1. PICK i \in 1 .. n : IsLastPromoted(e, i)
      BY <2>3 DEF SpiralInv, ActiveInv, n
    <3>2. \A j \in i + 1 .. n + 1 : j # 1 /\ ~ledgers'[e][j].promoted
      <4> SUFFICES ASSUME NEW j \in i + 1 .. n + 1
                   PROVE  j # 1 /\ ~ledgers'[e][j].promoted
        OBVIOUS
      <4>1. j # 1 /\ (j \in i + 1 .. n \/ j = n + 1) /\ (j \in i + 1 .. n => j \in 1 .. n)
        BY <1>2
      <4>2. CASE j = n + 1
        BY <1>2, <1>4, <2>3, <4>1, <4>2
      <4>3. CASE j \in i + 1 .. n
        BY <1>2, <3>1, <4>1, <4>3 DEF IsLastPromoted, n
      <4> QED
        BY <4>1, <4>2, <4>3
    <3>3. ledgers'[e][n + 1].active = ledgers'[e][i].candidate
      BY <1>2, <1>4, <2>3, <3>1 DEF IsLastPromoted, n
    <3>4. i = 1 \/ ledgers'[e][i].promoted
      BY <1>2, <3>1 DEF IsLastPromoted
    <3>5. IsLastPromoted(e, i)'
      BY <1>2, <3>2, <3>3, <3>4 DEF IsLastPromoted
    <3>6. i \in 1 .. n + 1
      BY <1>2
    <3> QED
      BY <1>2, <2>3, <3>5, <3>6
  <2> QED
    BY <1>2, <2>1, <2>2, <2>3
<1> QED
  BY <1>2, <1>3, <1>5, <1>6 DEF turn, n

(* A turn that the genome refused. *)
LEMMA RefusedTurn ==
  ASSUME SpiralInv, NEW e \in Entity, NEW candidate \in State, NEW promoted \in BOOLEAN,
         ledgers' = [ledgers EXCEPT ![e] = Append(@, NewTurn(e, candidate, promoted))],
         UNCHANGED <<genome, frontier, archive, chronicle>>
  PROVE  SpiralInv'
<1>1. UNCHANGED <<nodes, by_entity, frontier, archive, chronicle>>
  BY DEF genome
<1>2. SpiralShape' /\ TurnInv' /\ ActiveInv'
  BY <1>1, LedgerGrows DEF SpiralInv, SpiralShape
<1>3. ChronicleInv'
  <2>1. ChronicleInv
    BY DEF SpiralInv
  <2> QED
    BY <1>1, <2>1 DEF ChronicleInv
<1>4. LineInv'
  <2> SUFFICES ASSUME NEW f \in Entity
               PROVE  /\ Len(by_entity[f]) <= Len(ledgers'[f])
                      /\ \A i \in 1 .. Len(by_entity[f]) :
                           /\ by_entity[f][i] = IdOf(f, ledgers'[f][i])
                           /\ by_entity[f][i] \in DOMAIN nodes
                           /\ nodes[by_entity[f][i]].primary
                                = IF i = 1 THEN Nil ELSE by_entity[f][i - 1]
    BY <1>1 DEF LineInv
  <2>1. Len(by_entity[f]) \in Nat
    BY SeqFacts DEF SpiralInv, SpiralShape
  <2>2. CASE f # e
    BY <2>2, LedgerGrows DEF SpiralInv, LineInv
  <2>3. CASE f = e
    <3>1. /\ Len(ledgers[e]) \in Nat /\ Len(ledgers'[e]) = Len(ledgers[e]) + 1
          /\ \A i \in 1 .. Len(ledgers[e]) : ledgers'[e][i] = ledgers[e][i]
          /\ Len(by_entity[e]) <= Len(ledgers[e])
      BY LedgerGrows DEF SpiralInv, LineInv
    <3>2. \A i \in 1 .. Len(by_entity[e]) : i \in 1 .. Len(ledgers[e])
      BY <2>1, <2>3, <3>1
    <3>3. \A i \in 1 .. Len(by_entity[e]) : ledgers'[e][i] = ledgers[e][i]
      BY <3>1, <3>2
    <3>4. Len(by_entity[e]) <= Len(ledgers'[e])
      BY <2>1, <2>3, <3>1
    <3> QED
      BY <2>3, <3>3, <3>4 DEF SpiralInv, LineInv
  <2> QED
    BY <2>2, <2>3
<1> QED
  BY <1>2, <1>3, <1>4 DEF SpiralInv

(* A turn that the genome takes. Every earlier one of its entity has been
   taken too, so it is the next of the line. *)
LEMMA TakenTurn ==
  ASSUME SpiralInv, NEW e \in Entity, NEW candidate \in State, NEW promoted \in BOOLEAN,
         NEW extra,
         ledgers' = [ledgers EXCEPT ![e] = Append(@, NewTurn(e, candidate, promoted))],
         Registrable(e, NewTurn(e, candidate, promoted), extra),
         RegisterTurn(e, NewTurn(e, candidate, promoted), extra),
         WindowAppend(IdOf(e, NewTurn(e, candidate, promoted))),
         chronicle' = Append(chronicle, IdOf(e, NewTurn(e, candidate, promoted)))
  PROVE  SpiralInv'
<1> DEFINE turn == NewTurn(e, candidate, promoted)
           id   == IdOf(e, turn)
           n    == Len(ledgers[e])
<1>1. turn.turn = n
  BY NewTurnFacts
<1>2. /\ n \in Nat /\ Len(ledgers'[e]) = n + 1
      /\ ledgers' = [f \in Entity |-> ledgers'[f]]
      /\ \A f \in Entity : IsSeq(ledgers'[f]) /\ (f # e => ledgers'[f] = ledgers[f])
      /\ \A i \in 1 .. n : ledgers'[e][i] = ledgers[e][i]
      /\ ledgers'[e][n + 1] = turn
      /\ TurnInv' /\ ActiveInv'
  BY LedgerGrows
<1>3. id = [entity |-> e, turn |-> n]
  BY <1>1 DEF IdOf
<1>4. Len(by_entity[e]) = n
  <2>1. Len(by_entity[e]) \in Nat /\ Len(by_entity[e]) <= n
    BY SeqFacts DEF SpiralInv, SpiralShape, LineInv
  <2> QED
    BY <1>1, <1>2, <2>1 DEF Registrable
<1>5. /\ by_entity' = [by_entity EXCEPT ![e] = Append(@, id)]
      /\ nodes' = [m \in DOMAIN nodes \union {id} |->
                     IF m = id THEN [spiral |-> id, primary |-> Primary(e, turn),
                                     parents |-> Parents(e, turn, extra)]
                     ELSE nodes[m]]
  BY DEF RegisterTurn
<1>6. /\ by_entity' = [f \in Entity |-> by_entity'[f]]
      /\ \A f \in Entity : f # e => by_entity'[f] = by_entity[f] /\ IsSeq(by_entity'[f])
      /\ by_entity'[e] = Append(by_entity[e], id) /\ IsSeq(by_entity[e])
  BY <1>5 DEF SpiralInv, SpiralShape
<1>7. /\ IsSeq(by_entity'[e]) /\ Len(by_entity'[e]) = n + 1
      /\ \A i \in 1 .. n : by_entity'[e][i] = by_entity[e][i]
      /\ by_entity'[e][n + 1] = id
  BY <1>4, <1>6, AppendFacts
<1>8. /\ DOMAIN nodes' = DOMAIN nodes \union {id}
      /\ nodes'[id].primary = Primary(e, turn)
      /\ \A m \in DOMAIN nodes : m # id => nodes'[m] = nodes[m]
  BY <1>5
<1>9. Primary(e, turn) = IF n = 0 THEN Nil ELSE by_entity[e][n]
  BY <1>1, <1>4 DEF Primary, Last
<1>10. /\ IsSeq(frontier) /\ IsSeq(archive) /\ IsSeq(chronicle)
       /\ archive \o frontier = chronicle /\ Len(frontier) <= WorkingWindow
  BY DEF SpiralInv, SpiralShape, ChronicleInv
<1>11. WindowAppend(id) /\ chronicle' = Append(chronicle, id)
  OBVIOUS
<1> HIDE DEF turn, id, n
(* Ids of a line name their entity and their place in it. *)
<1>12. \A f \in Entity : \A k \in 1 .. Len(by_entity[f]) :
         by_entity[f][k] = [entity |-> f, turn |-> k - 1]
  <2> SUFFICES ASSUME NEW f \in Entity, NEW k \in 1 .. Len(by_entity[f])
               PROVE  by_entity[f][k] = [entity |-> f, turn |-> k - 1]
    OBVIOUS
  <2>1. by_entity[f][k] = IdOf(f, ledgers[f][k]) /\ Len(by_entity[f]) <= Len(ledgers[f])
    BY DEF SpiralInv, LineInv
  <2>2. Len(by_entity[f]) \in Nat /\ Len(ledgers[f]) \in Nat
    BY SeqFacts DEF SpiralInv, SpiralShape
  <2>3. k \in 1 .. Len(ledgers[f])
    BY <2>1, <2>2
  <2> QED
    BY <2>1, <2>3 DEF SpiralInv, TurnInv, IdOf
<1>13. \A f \in Entity : \A k \in 1 .. Len(by_entity[f]) :
         by_entity[f][k] # id /\ (f = e => by_entity[f][k].turn < n)
  <2> SUFFICES ASSUME NEW f \in Entity, NEW k \in 1 .. Len(by_entity[f])
               PROVE  by_entity[f][k] # id /\ (f = e => by_entity[f][k].turn < n)
    OBVIOUS
  <2>0. by_entity[f][k] = [entity |-> f, turn |-> k - 1]
    BY <1>12
  <2>1. by_entity[f][k].entity = f /\ by_entity[f][k].turn = k - 1
    BY <2>0
  <2>2. id.entity = e /\ id.turn = n
    BY <1>3
  <2>3. f = e => k - 1 < n
    BY <1>2, <1>4
  <2> QED
    BY <1>2, <2>1, <2>2, <2>3
<1>14. LineInv'
  <2> SUFFICES ASSUME NEW f \in Entity
               PROVE  /\ Len(by_entity'[f]) <= Len(ledgers'[f])
                      /\ \A i \in 1 .. Len(by_entity'[f]) :
                           /\ by_entity'[f][i] = IdOf(f, ledgers'[f][i])
                           /\ by_entity'[f][i] \in DOMAIN nodes'
                           /\ nodes'[by_entity'[f][i]].primary
                                = IF i = 1 THEN Nil ELSE by_entity'[f][i - 1]
    BY DEF LineInv
  <2>1. CASE f # e
    <3>1. by_entity'[f] = by_entity[f] /\ ledgers'[f] = ledgers[f]
      BY <1>2, <1>6, <2>1
    <3>2. Len(by_entity[f]) <= Len(ledgers[f])
      BY DEF SpiralInv, LineInv
    <3>3. ASSUME NEW i \in 1 .. Len(by_entity[f])
          PROVE  /\ by_entity[f][i] = IdOf(f, ledgers[f][i])
                 /\ by_entity[f][i] \in DOMAIN nodes'
                 /\ nodes'[by_entity[f][i]].primary
                      = IF i = 1 THEN Nil ELSE by_entity[f][i - 1]
      BY <1>8, <1>13 DEF SpiralInv, LineInv
    <3> QED
      BY <3>1, <3>2, <3>3
  <2>2. CASE f = e
    <3>1. Len(by_entity'[e]) <= Len(ledgers'[e])
      BY <1>2, <1>7
    <3>2. ASSUME NEW i \in 1 .. n
          PROVE  /\ by_entity'[e][i] = IdOf(e, ledgers'[e][i])
                 /\ by_entity'[e][i] \in DOMAIN nodes'
                 /\ nodes'[by_entity'[e][i]].primary
                      = IF i = 1 THEN Nil ELSE by_entity'[e][i - 1]
      <4>1. /\ by_entity[e][i] = IdOf(e, ledgers[e][i])
            /\ by_entity[e][i] \in DOMAIN nodes
            /\ nodes[by_entity[e][i]].primary = IF i = 1 THEN Nil ELSE by_entity[e][i - 1]
        BY <1>4 DEF SpiralInv, LineInv
      <4>2. i # 1 => i - 1 \in 1 .. n
        BY <1>2
      <4>3. by_entity[e][i] # id
        BY <1>4, <1>13
      <4> QED
        BY <1>2, <1>7, <1>8, <4>1, <4>2, <4>3
    <3>3. /\ by_entity'[e][n + 1] = IdOf(e, ledgers'[e][n + 1])
          /\ by_entity'[e][n + 1] \in DOMAIN nodes'
          /\ nodes'[by_entity'[e][n + 1]].primary
               = IF n + 1 = 1 THEN Nil ELSE by_entity'[e][(n + 1) - 1]
      <4>1. (n + 1) - 1 = n /\ (n # 0 => n \in 1 .. n) /\ (n + 1 = 1 <=> n = 0)
        BY <1>2
      <4> QED
        BY <1>2, <1>7, <1>8, <1>9, <4>1 DEF id
    <3>4. \A i \in 1 .. n + 1 : i \in 1 .. n \/ i = n + 1
      BY <1>2
    <3>5. \A i \in 1 .. n + 1 :
            /\ by_entity'[e][i] = IdOf(e, ledgers'[e][i])
            /\ by_entity'[e][i] \in DOMAIN nodes'
            /\ nodes'[by_entity'[e][i]].primary
                 = IF i = 1 THEN Nil ELSE by_entity'[e][i - 1]
      BY <3>2, <3>3, <3>4
    <3> QED
      BY <1>7, <2>2, <3>1, <3>5
  <2> QED
    BY <2>1, <2>2
<1>15. /\ IsSeq(frontier') /\ IsSeq(archive')
       /\ archive' \o frontier' = Append(archive \o frontier, id)
       /\ Len(frontier') <= WorkingWindow
  <2>1. Len(frontier) \in Nat
    BY <1>10, SeqFacts
  <2>2. CASE Len(frontier) >= WorkingWindow
    <3>1. archive' = Append(archive, Head(frontier)) /\ frontier' = Append(Tail(frontier), id)
      BY <1>11, <2>2 DEF WindowAppend
    <3>2. frontier # <<>>
      <4>1. Len(<<>>) = 0
        BY EmptySeq
      <4> QED
        BY <2>1, <2>2, <4>1, WorkingWindowAssumption
    <3>3. /\ IsSeq(Tail(frontier)) /\ Len(Tail(frontier)) = Len(frontier) - 1
          /\ Append(archive, Head(frontier)) \o Tail(frontier) = archive \o frontier
      BY <1>10, <3>2, WindowKeepsAll
    <3>4. IsSeq(archive')
      BY <1>10, <3>1, AppendFacts
    <3>5. IsSeq(frontier') /\ Len(frontier') = Len(frontier)
      BY <2>1, <3>1, <3>3, AppendFacts
    <3>6. archive' \o frontier' = Append(archive' \o Tail(frontier), id)
      BY <3>1, <3>3, <3>4, WindowKeepsAll
    <3> QED
      BY <1>10, <3>1, <3>3, <3>4, <3>5, <3>6
  <2>3. CASE ~(Len(frontier) >= WorkingWindow)
    <3>1. archive' = archive /\ frontier' = Append(frontier, id)
      BY <1>11, <2>3 DEF WindowAppend
    <3>2. IsSeq(frontier') /\ Len(frontier') = Len(frontier) + 1
      BY <1>10, <3>1, AppendFacts
    <3>3. Len(frontier') <= WorkingWindow
      BY <2>1, <2>3, <3>2, WorkingWindowAssumption
    <3> QED
      BY <1>10, <3>1, <3>2, <3>3, WindowKeepsAll
  <2> QED
    BY <2>2, <2>3
<1>16. SpiralShape'
  <2>1. \A f \in Entity : IsSeq(ledgers'[f]) /\ IsSeq(by_entity'[f])
    BY <1>2, <1>6, <1>7
  <2>2. IsSeq(chronicle')
    BY <1>10, <1>11, AppendFacts
  <2> QED
    BY <1>2, <1>6, <1>15, <2>1, <2>2 DEF SpiralShape
<1> DEFINE c == Len(chronicle)
<1>17. /\ c \in Nat /\ Len(chronicle') = c + 1
       /\ \A i \in 1 .. c : chronicle'[i] = chronicle[i]
       /\ chronicle'[c + 1] = id
  BY <1>10, <1>11, SeqFacts, AppendFacts
<1>18. \A i \in 1 .. c : \E f \in Entity : \E k \in 1 .. Len(by_entity[f]) :
         chronicle[i] = by_entity[f][k]
  BY DEF SpiralInv, ChronicleInv
<1> HIDE DEF c
<1>19. \A f \in Entity : \A k \in 1 .. Len(by_entity[f]) :
         k \in 1 .. Len(by_entity'[f]) /\ by_entity'[f][k] = by_entity[f][k]
  BY <1>2, <1>4, <1>6, <1>7
<1>20. \A f \in Entity : \A k \in 1 .. Len(by_entity'[f]) :
         k \in 1 .. Len(by_entity[f]) \/ (f = e /\ k = n + 1)
  BY <1>2, <1>4, <1>6, <1>7
<1>21. \A i \in 1 .. c + 1 : i \in 1 .. c \/ i = c + 1
  BY <1>17
<1>22. \A i \in 1 .. c + 1 :
         \E f \in Entity : \E k \in 1 .. Len(by_entity'[f]) : chronicle'[i] = by_entity'[f][k]
  <2> SUFFICES ASSUME NEW i \in 1 .. c + 1
               PROVE  \E f \in Entity : \E k \in 1 .. Len(by_entity'[f]) :
                        chronicle'[i] = by_entity'[f][k]
    OBVIOUS
  <2>1. CASE i \in 1 .. c
    <3>0. PICK f \in Entity : \E k \in 1 .. Len(by_entity[f]) : chronicle[i] = by_entity[f][k]
      BY <1>18, <2>1
    <3>1. PICK k \in 1 .. Len(by_entity[f]) : chronicle[i] = by_entity[f][k]
      BY <3>0
    <3> QED
      BY <1>17, <1>19, <2>1, <3>1
  <2>2. CASE i = c + 1
    <3>1. n + 1 \in 1 .. Len(by_entity'[e])
      BY <1>2, <1>7
    <3> QED
      BY <1>7, <1>17, <2>2, <3>1
  <2> QED
    BY <1>21, <2>1, <2>2
<1>23. \A f \in Entity : \A k \in 1 .. Len(by_entity'[f]) :
         \E i \in 1 .. c + 1 : chronicle'[i] = by_entity'[f][k]
  <2> SUFFICES ASSUME NEW f \in Entity, NEW k \in 1 .. Len(by_entity'[f])
               PROVE  \E i \in 1 .. c + 1 : chronicle'[i] = by_entity'[f][k]
    OBVIOUS
  <2>1. CASE k \in 1 .. Len(by_entity[f])
    <3>1. PICK i \in 1 .. c : chronicle[i] = by_entity[f][k]
      BY <2>1 DEF SpiralInv, ChronicleInv, c
    <3>2. i \in 1 .. c + 1
      BY <1>17
    <3> QED
      BY <1>17, <1>19, <2>1, <3>1, <3>2
  <2>2. CASE f = e /\ k = n + 1
    <3>1. c + 1 \in 1 .. c + 1
      BY <1>17
    <3> QED
      BY <1>7, <1>17, <2>2, <3>1
  <2> QED
    BY <1>20, <2>1, <2>2
<1>24. \A i, j \in 1 .. c + 1 :
         i < j /\ chronicle'[i].entity = chronicle'[j].entity
           => chronicle'[i].turn < chronicle'[j].turn
  <2> SUFFICES ASSUME NEW i \in 1 .. c + 1, NEW j \in 1 .. c + 1, i < j,
                      chronicle'[i].entity = chronicle'[j].entity
               PROVE  chronicle'[i].turn < chronicle'[j].turn
    OBVIOUS
  <2>1. i \in 1 .. c /\ chronicle'[i] = chronicle[i]
    <3>1. c \in Nat
      BY <1>17
    <3>2. i \in 1 .. c
      BY <3>1
    <3> QED
      BY <1>17, <3>2
  <2>2. CASE j \in 1 .. c
    <3>1. chronicle'[j] = chronicle[j]
      BY <1>17, <2>2
    <3>2. chronicle[i].entity = chronicle[j].entity => chronicle[i].turn < chronicle[j].turn
      BY <2>1, <2>2 DEF SpiralInv, ChronicleInv, c
    <3> QED
      BY <2>1, <3>1, <3>2
  <2>3. CASE j = c + 1
    <3>0. PICK f \in Entity : \E k \in 1 .. Len(by_entity[f]) : chronicle[i] = by_entity[f][k]
      BY <1>18, <2>1
    <3>1. PICK k \in 1 .. Len(by_entity[f]) : chronicle[i] = by_entity[f][k]
      BY <3>0
    <3>2. chronicle[i].entity = f
      <4>1. by_entity[f][k] = [entity |-> f, turn |-> k - 1]
        BY <1>12
      <4> QED
        BY <3>1, <4>1
    <3>3. chronicle'[j].entity = e /\ chronicle'[j].turn = n
      BY <1>3, <1>17, <2>3
    <3>4. f = e
      BY <2>1, <3>2, <3>3
    <3> QED
      BY <1>13, <2>1, <3>1, <3>3, <3>4
  <2> QED
    BY <1>21, <2>2, <2>3
<1>25. ChronicleInv'
  BY <1>10, <1>11, <1>15, <1>17, <1>22, <1>23, <1>24, ZenonT(60) DEF ChronicleInv
<1> QED
  BY <1>2, <1>14, <1>16, <1>25 DEF SpiralInv

LEMMA IntegrateStep ==
  ASSUME SpiralInv, NEW e \in Entity, NEW candidate \in State, NEW promoted \in BOOLEAN,
         NEW extra, Integrate(e, candidate, promoted, extra)
  PROVE  SpiralInv'
<1>1. ledgers' = [ledgers EXCEPT ![e] = Append(@, NewTurn(e, candidate, promoted))]
  BY DEF Integrate
<1>2. CASE Registrable(e, NewTurn(e, candidate, promoted), extra)
  BY <1>1, <1>2, TakenTurn DEF Integrate
<1>3. CASE ~Registrable(e, NewTurn(e, candidate, promoted), extra)
  BY <1>1, <1>3, RefusedTurn DEF Integrate
<1> QED
  BY <1>2, <1>3

(* Every operation ends in integrate(). *)
LEMMA SpiralNextIntegrates ==
  ASSUME SpiralInv, SpiralNext
  PROVE  \E e \in Entity : \E candidate \in State : \E promoted \in BOOLEAN : \E extra :
           IsSeq(extra) /\ Integrate(e, candidate, promoted, extra)
<1>1. \A b \in Body : Fresh(b) \in State
  BY DEF Fresh, State
<1>2. \A p, q : IsSeq(<<>>) /\ IsSeq(<<p>>) /\ IsSeq(<<p, q>>)
  <2> SUFFICES ASSUME NEW p, NEW q PROVE IsSeq(<<>>) /\ IsSeq(<<p>>) /\ IsSeq(<<p, q>>)
    OBVIOUS
  <2>1. <<>> \in Seq({p, q}) /\ <<p>> \in Seq({p, q}) /\ <<p, q>> \in Seq({p, q})
    OBVIOUS
  <2> QED
    BY <2>1 DEF IsSeq
<1>3. ASSUME NEW e \in Entity,
             IntegrateTurn(e) \/ RecordFailure(e) \/ RecoverEntity(e) \/ Derive(e)
      PROVE  \E b \in Body : \E promoted \in BOOLEAN : \E extra :
               IsSeq(extra) /\ Integrate(e, Fresh(b), promoted, extra)
  BY <1>2, <1>3 DEF IntegrateTurn, RecordFailure, RecoverEntity, Derive
<1>4. ASSUME NEW e \in Entity, MarkEntityStale(e)
      PROVE  \E candidate \in State : Integrate(e, candidate, TRUE, <<>>)
  <2> DEFINE previous == IF ActiveState(e) = Nil THEN Fresh(Nil) ELSE ActiveState(e)
  <2>1. Integrate(e, [previous EXCEPT !.stale = TRUE], TRUE, <<>>)
    BY <1>4 DEF MarkEntityStale
  <2>2. previous \in State
    <3>1. Fresh(Nil) \in State
      BY DEF Fresh, State
    <3>2. ActiveState(e) # Nil => ActiveState(e) \in State
      <4>1. Len(ledgers[e]) \in Nat /\ (Len(ledgers[e]) = 0 => ledgers[e] = <<>>)
        <5>1. PICK S : ledgers[e] \in Seq(S)
          BY DEF SpiralInv, SpiralShape, IsSeq
        <5> QED
          BY <5>1, EmptySeq, LenProperties
      <4>2. CASE ledgers[e] = <<>>
        BY <4>2 DEF ActiveState
      <4>3. CASE ledgers[e] # <<>>
        <5>1. Len(ledgers[e]) \in 1 .. Len(ledgers[e])
          BY <4>1, <4>3
        <5> QED
          BY <4>3, <5>1 DEF ActiveState, Last, SpiralInv, TurnInv
      <4> QED
        BY <4>2, <4>3
    <3> QED
      BY <3>1, <3>2
  <2> HIDE DEF previous
  <2>3. [previous EXCEPT !.stale = TRUE] \in State
    BY <2>2 DEF State
  <2> QED
    BY <2>1, <2>3
<1>5. PICK e \in Entity :
        \/ IntegrateTurn(e) \/ RecordFailure(e) \/ RecoverEntity(e) \/ Derive(e)
        \/ MarkEntityStale(e)
  BY DEF SpiralNext
<1>6. CASE MarkEntityStale(e)
  BY <1>2, <1>4, <1>6
<1>7. CASE IntegrateTurn(e) \/ RecordFailure(e) \/ RecoverEntity(e) \/ Derive(e)
  BY <1>1, <1>3, <1>7
<1> QED
  BY <1>5, <1>6, <1>7

LEMMA SpiralStep == SpiralInv /\ [SpiralNext]_spiralVars => SpiralInv'
<1> SUFFICES ASSUME SpiralInv, [SpiralNext]_spiralVars PROVE SpiralInv'
  OBVIOUS
<1>1. CASE UNCHANGED spiralVars
  <2>1. UNCHANGED <<ledgers, nodes, by_entity, frontier, archive, chronicle>>
    BY <1>1 DEF spiralVars, genome
  <2> QED
    BY <2>1 DEF SpiralInv, SpiralShape, TurnInv, LineInv, ActiveInv, IsLastPromoted, ChronicleInv
<1>2. CASE SpiralNext
  <2>1. PICK e \in Entity : \E candidate \in State : \E promoted \in BOOLEAN : \E extra :
          IsSeq(extra) /\ Integrate(e, candidate, promoted, extra)
    BY <1>2, SpiralNextIntegrates
  <2> QED
    BY <2>1, IntegrateStep
<1> QED
  BY <1>1, <1>2

(* GenomeLineIsLedgerPrefix for any entities, turns and parents named, refused
   derivations included. *)
THEOREM LineIsPrefix == SpiralSpec => []GenomeLineIsLedgerPrefix
<1>1. SpiralInv => GenomeLineIsLedgerPrefix
  <2> SUFFICES ASSUME SpiralInv PROVE GenomeLineIsLedgerPrefix
    OBVIOUS
  <2>1. \A e \in Entity : DOMAIN by_entity[e] = 1 .. Len(by_entity[e])
    BY SeqFacts DEF SpiralInv, SpiralShape
  <2> QED
    BY <2>1 DEF SpiralInv, LineInv, GenomeLineIsLedgerPrefix
<1> QED
  BY SpiralStart, SpiralStep, <1>1, PTL DEF SpiralSpec

(* ChronicleIsLossless for any window, entities and turns. *)
THEOREM ChronicleKeepsAll == SpiralSpec => []ChronicleIsLossless
<1>1. SpiralInv => ChronicleIsLossless
  <2> SUFFICES ASSUME SpiralInv PROVE ChronicleIsLossless
    OBVIOUS
  <2>1. /\ DOMAIN chronicle = 1 .. Len(chronicle)
        /\ \A e \in Entity : DOMAIN by_entity[e] = 1 .. Len(by_entity[e])
    BY SeqFacts DEF SpiralInv, SpiralShape
  <2>2. ASSUME NEW x \in ToSet(chronicle)
        PROVE  x \in UNION {ToSet(by_entity[e]) : e \in Entity}
    <3>1. PICK i \in 1 .. Len(chronicle) : x = chronicle[i]
      BY <2>1 DEF ToSet
    <3>2. PICK e \in Entity : \E k \in 1 .. Len(by_entity[e]) : chronicle[i] = by_entity[e][k]
      BY DEF SpiralInv, ChronicleInv
    <3>3. x \in ToSet(by_entity[e])
      BY <2>1, <3>1, <3>2 DEF ToSet
    <3> QED
      BY <3>3
  <2>3. ASSUME NEW e \in Entity, NEW x \in ToSet(by_entity[e])
        PROVE  x \in ToSet(chronicle)
    <3>1. PICK k \in 1 .. Len(by_entity[e]) : x = by_entity[e][k]
      BY <2>1 DEF ToSet
    <3>2. PICK i \in 1 .. Len(chronicle) : chronicle[i] = by_entity[e][k]
      BY DEF SpiralInv, ChronicleInv
    <3> QED
      BY <2>1, <3>1, <3>2 DEF ToSet
  <2>4. ToSet(chronicle) = UNION {ToSet(by_entity[e]) : e \in Entity}
    BY <2>2, <2>3
  <2> QED
    BY <2>1, <2>4 DEF SpiralInv, ChronicleInv, ChronicleIsLossless
<1> QED
  BY SpiralStart, SpiralStep, <1>1, PTL DEF SpiralSpec

(* ActiveStateIsLastPromoted for any mixture of promoted, failed and refused
   turns. *)
THEOREM ActiveIsPromoted == SpiralSpec => []ActiveStateIsLastPromoted
<1>1. SpiralInv => ActiveStateIsLastPromoted
  <2> SUFFICES ASSUME SpiralInv, NEW e \in Entity, ledgers[e] # <<>>
               PROVE  LET promoted == {i \in DOMAIN ledgers[e] : i = 1 \/ ledgers[e][i].promoted}
                      IN \E i \in promoted :
                           /\ \A j \in promoted : j <= i
                           /\ ActiveState(e) = ledgers[e][i].candidate
    BY DEF ActiveStateIsLastPromoted
  <2> DEFINE promoted == {i \in DOMAIN ledgers[e] : i = 1 \/ ledgers[e][i].promoted}
  <2>1. /\ Len(ledgers[e]) \in Nat /\ DOMAIN ledgers[e] = 1 .. Len(ledgers[e])
        /\ Len(ledgers[e]) > 0
    <3>1. PICK S : ledgers[e] \in Seq(S)
      BY DEF SpiralInv, SpiralShape, IsSeq
    <3>2. Len(ledgers[e]) \in Nat \ {0}
      BY <3>1, EmptySeq
    <3> QED
      BY <3>1, <3>2, LenProperties
  <2>2. PICK i \in 1 .. Len(ledgers[e]) : IsLastPromoted(e, i)
    BY <2>1 DEF SpiralInv, ActiveInv
  <2>3. i \in promoted
    BY <2>1, <2>2 DEF IsLastPromoted
  <2>4. \A j \in promoted : j <= i
    <3> SUFFICES ASSUME NEW j \in promoted, ~(j <= i) PROVE FALSE
      OBVIOUS
    <3>1. j \in 1 .. Len(ledgers[e]) /\ (j = 1 \/ ledgers[e][j].promoted)
      BY <2>1
    <3>2. j \in i + 1 .. Len(ledgers[e])
      BY <2>1, <3>1
    <3> QED
      BY <2>2, <3>1, <3>2 DEF IsLastPromoted
  <2>5. ActiveState(e) = ledgers[e][i].candidate
    BY <2>2 DEF IsLastPromoted, ActiveState, Last
  <2> QED
    BY <2>3, <2>4, <2>5
<1> QED
  BY SpiralStart, SpiralStep, <1>1, PTL DEF SpiralSpec

----------------------------------------------------------------------------
(* The genealogy. *)

(* What a breadth-first search over the nodes V collects in n rounds. *)
Collected(n, links, start) ==
  CHOOSE f : f = [k \in 0 .. n |->
                    IF k = 0 THEN links[start]
                    ELSE f[k - 1] \union UNION {links[m] : m \in f[k - 1]}]

Within(links, V) == \A m \in V : links[m] \subseteq V

LEMMA CollectedFacts ==
  ASSUME NEW n \in Nat, NEW V, NEW links, Within(links, V), NEW start \in V
  PROVE  /\ Collected(n, links, start)[0] = links[start]
         /\ \A k \in 1 .. n :
              Collected(n, links, start)[k]
                = Collected(n, links, start)[k - 1]
                    \union UNION {links[m] : m \in Collected(n, links, start)[k - 1]}
         /\ \A k \in 0 .. n : Collected(n, links, start)[k] \subseteq V
<1> DEFINE X == SUBSET V
           g == [p \in (1 .. n) \X X |-> p[2] \union UNION {links[m] : m \in p[2]}]
           c == Collected(n, links, start)
<1>1. links[start] \in X /\ g \in [(1 .. n) \X X -> X]
  BY DEF Within
<1>2. PICK f \in [0 .. n -> X] : IsSteps(f, n, links[start], g)
  <2> HIDE DEF X, g
  <2> QED  BY <1>1, StepsExist
<1>3. \A k \in 1 .. n : k \in 0 .. n /\ k - 1 \in 0 .. n /\ k # 0
  OBVIOUS
<1>4. ASSUME NEW k \in 0 .. n
      PROVE  f[k] = IF k = 0 THEN links[start]
                    ELSE f[k - 1] \union UNION {links[m] : m \in f[k - 1]}
  <2>1. f[k] = IF k = 0 THEN links[start] ELSE g[<<k, f[k - 1]>>]
    BY <1>2 DEF IsSteps
  <2>2. k # 0 => k \in 1 .. n
    OBVIOUS
  <2>3. k # 0 => f[k - 1] \in X
    BY <1>2, <1>3, <2>2
  <2> QED  BY <2>1, <2>2, <2>3
<1>5. f = [k \in 0 .. n |->
             IF k = 0 THEN links[start]
             ELSE f[k - 1] \union UNION {links[m] : m \in f[k - 1]}]
  BY <1>2, <1>4
<1>6. c = [k \in 0 .. n |->
             IF k = 0 THEN links[start]
             ELSE c[k - 1] \union UNION {links[m] : m \in c[k - 1]}]
  BY <1>5 DEF Collected
<1> HIDE DEF c
<1>7. c[0] = links[start]
  <2>1. 0 \in 0 .. n
    OBVIOUS
  <2> QED  BY <1>6, <2>1
<1>8. \A k \in 1 .. n : c[k] = c[k - 1] \union UNION {links[m] : m \in c[k - 1]}
  BY <1>3, <1>6
<1>9. \A k \in 0 .. n : c[k] \subseteq V
  <2> DEFINE T == {k \in Nat : k <= n => c[k] \subseteq V}
  <2>1. 0 \in T
    BY <1>7 DEF Within
  <2>2. ASSUME NEW k \in Nat, k \in T PROVE k + 1 \in T
    <3> SUFFICES ASSUME k + 1 <= n PROVE c[k + 1] \subseteq V
      OBVIOUS
    <3>1. c[k] \subseteq V
      BY <2>2
    <3>2. k + 1 \in 1 .. n /\ (k + 1) - 1 = k
      OBVIOUS
    <3>3. c[k + 1] = c[k] \union UNION {links[m] : m \in c[k]}
      BY <1>8, <3>2
    <3> QED  BY <3>1, <3>3 DEF Within
  <2> HIDE DEF T
  <2>3. Nat \subseteq T
    BY <2>1, <2>2, Induction
  <2>4. \A k \in 0 .. n : k \in T
    BY <2>3
  <2> QED  BY <2>4 DEF T
<1> QED  BY <1>7, <1>8, <1>9 DEF c

(* The nodes that are some steps away from a node. *)
LEMMA CollectedGrows ==
  ASSUME NEW n \in Nat, NEW V, NEW links, Within(links, V), NEW start \in V
  PROVE  \A k \in 0 .. n : links[start] \subseteq Collected(n, links, start)[k]
<1> DEFINE c == Collected(n, links, start)
           T == {k \in Nat : k <= n => links[start] \subseteq c[k]}
<1>1. /\ c[0] = links[start]
      /\ \A k \in 1 .. n : c[k] = c[k - 1] \union UNION {links[m] : m \in c[k - 1]}
  BY CollectedFacts
<1> HIDE DEF c
<1>2. 0 \in T
  BY <1>1
<1>3. ASSUME NEW k \in Nat, k \in T PROVE k + 1 \in T
  <2> SUFFICES ASSUME k + 1 <= n PROVE links[start] \subseteq c[k + 1]
    OBVIOUS
  <2>1. k + 1 \in 1 .. n /\ (k + 1) - 1 = k /\ links[start] \subseteq c[k]
    BY <1>3
  <2> QED  BY <1>1, <2>1
<1> HIDE DEF T
<1>4. \A k \in 0 .. n : k \in T
  BY <1>2, <1>3, Induction
<1> QED  BY <1>4 DEF T, c

(* One step first, then as many as before. *)
LEMMA FirstStep ==
  ASSUME NEW n \in Nat, NEW V, NEW links, Within(links, V)
  PROVE  \A k \in 1 .. n : \A start \in V :
           Collected(n, links, start)[k]
             = links[start] \union
                 UNION {Collected(n, links, m)[k - 1] : m \in links[start]}
<1> DEFINE C(start, k) == Collected(n, links, start)[k]
           First(start, k) == links[start] \union UNION {C(m, k - 1) : m \in links[start]}
           T == {k \in Nat : k + 1 <= n => \A start \in V : C(start, k + 1) = First(start, k + 1)}
<1>1. \A start \in V :
        /\ C(start, 0) = links[start]
        /\ \A k \in 1 .. n : C(start, k) = C(start, k - 1) \union UNION {links[m] : m \in C(start, k - 1)}
        /\ \A k \in 0 .. n : C(start, k) \subseteq V /\ links[start] \subseteq C(start, k)
  BY CollectedFacts, CollectedGrows
<1> HIDE DEF C
<1>2. 0 \in T
  <2> SUFFICES ASSUME 1 <= n, NEW start \in V PROVE C(start, 1) = First(start, 1)
    OBVIOUS
  <2>1. C(start, 1) = links[start] \union UNION {links[m] : m \in links[start]}
    <3>1. 1 \in 1 .. n /\ 1 - 1 = 0
      OBVIOUS
    <3> QED  BY <1>1, <3>1
  <2>2. \A m \in links[start] : C(m, 1 - 1) = links[m]
    <3>1. 1 - 1 = 0 /\ links[start] \subseteq V
      BY DEF Within
    <3> QED  BY <1>1, <3>1
  <2>3. UNION {C(m, 1 - 1) : m \in links[start]} = UNION {links[m] : m \in links[start]}
    BY <2>2
  <2> QED  BY <2>1, <2>3
<1>3. ASSUME NEW k \in Nat, k \in T PROVE k + 1 \in T
  <2> SUFFICES ASSUME (k + 1) + 1 <= n, NEW start \in V
               PROVE  C(start, (k + 1) + 1) = First(start, (k + 1) + 1)
    OBVIOUS
  <2>0. /\ (k + 1) + 1 \in 1 .. n /\ ((k + 1) + 1) - 1 = k + 1
        /\ k + 1 \in 1 .. n /\ (k + 1) - 1 = k /\ k \in 0 .. n /\ k + 1 \in 0 .. n
    OBVIOUS
  <2>1. C(start, (k + 1) + 1) = C(start, k + 1) \union UNION {links[m] : m \in C(start, k + 1)}
    BY <1>1, <2>0
  <2>2. C(start, k + 1) = links[start] \union UNION {C(m, k) : m \in links[start]}
    <3>1. C(start, k + 1) = First(start, k + 1)
      BY <1>3, <2>0
    <3> QED  BY <2>0, <3>1
  <2>3. First(start, (k + 1) + 1) = links[start] \union UNION {C(m, k + 1) : m \in links[start]}
    BY <2>0
  <2>4. \A m \in links[start] :
          C(m, k + 1) = C(m, k) \union UNION {links[x] : x \in C(m, k)}
    BY <1>1, <2>0 DEF Within
  <2>5. \A m \in links[start] : links[m] \subseteq C(m, k + 1)
    BY <1>1, <2>0 DEF Within
  <2>6. ASSUME NEW x \in C(start, (k + 1) + 1) PROVE x \in First(start, (k + 1) + 1)
    <3>1. CASE x \in C(start, k + 1)
      BY <2>2, <2>3, <2>4, <3>1
    <3>2. CASE \E y \in C(start, k + 1) : x \in links[y]
      <4>1. PICK y \in C(start, k + 1) : x \in links[y]
        BY <3>2
      <4>2. CASE y \in links[start]
        BY <2>3, <2>5, <4>1, <4>2
      <4>3. CASE \E m \in links[start] : y \in C(m, k)
        BY <2>3, <2>4, <4>1, <4>3
      <4> QED  BY <2>2, <4>2, <4>3
    <3> QED  BY <2>1, <3>1, <3>2
  <2>7. ASSUME NEW x \in First(start, (k + 1) + 1) PROVE x \in C(start, (k + 1) + 1)
    <3>1. CASE x \in links[start]
      BY <2>1, <2>2, <3>1
    <3>2. CASE \E m \in links[start] : x \in C(m, k + 1)
      <4>1. PICK m \in links[start] : x \in C(m, k + 1)
        BY <3>2
      <4>2. CASE x \in C(m, k)
        BY <2>1, <2>2, <4>2
      <4>3. CASE \E y \in C(m, k) : x \in links[y]
        <5>1. PICK y \in C(m, k) : x \in links[y]
          BY <4>3
        <5>2. y \in C(start, k + 1)
          BY <2>2, <5>1
        <5> QED  BY <2>1, <5>1, <5>2
      <4> QED  BY <2>4, <4>1, <4>2, <4>3
    <3> QED  BY <2>3, <3>1, <3>2
  <2> QED  BY <2>6, <2>7
<1>4. \A k \in Nat : k \in T
  <2> HIDE DEF T
  <2> QED  BY <1>2, <1>3, Induction
<1>5. ASSUME NEW k \in 1 .. n, NEW start \in V PROVE C(start, k) = First(start, k)
  <2>1. k - 1 \in Nat /\ (k - 1) + 1 = k /\ k <= n
    OBVIOUS
  <2>2. k - 1 \in T
    BY <1>4, <2>1
  <2> QED  BY <2>1, <2>2
<1> QED  BY <1>5 DEF C

(* Links and their inverse lead back and forth. *)
LEMMA InverseLinks ==
  ASSUME NEW n \in Nat, NEW V, NEW up, NEW down,
         Within(up, V), Within(down, V),
         \A a, m \in V : a \in up[m] <=> m \in down[a]
  PROVE  \A k \in 0 .. n : \A a, m \in V :
           a \in Collected(n, up, m)[k] <=> m \in Collected(n, down, a)[k]
<1> DEFINE U(m, k) == Collected(n, up, m)[k]
           D(a, k) == Collected(n, down, a)[k]
           T == {k \in Nat : k <= n => \A a, m \in V : a \in U(m, k) <=> m \in D(a, k)}
<1>1. \A m \in V : /\ U(m, 0) = up[m] /\ D(m, 0) = down[m]
                   /\ \A k \in 0 .. n : U(m, k) \subseteq V /\ D(m, k) \subseteq V
                   /\ \A k \in 1 .. n : U(m, k) = U(m, k - 1) \union UNION {up[x] : x \in U(m, k - 1)}
  BY CollectedFacts
<1>2. \A k \in 1 .. n : \A a \in V :
        D(a, k) = down[a] \union UNION {D(x, k - 1) : x \in down[a]}
  BY FirstStep
<1>3. \A a \in V : \A k \in 0 .. n : down[a] \subseteq D(a, k)
  BY CollectedGrows
<1>4. \A a \in V : \A k \in 1 .. n : D(a, k - 1) \subseteq D(a, k)
  BY CollectedFacts
<1> HIDE DEF U, D
<1>5. 0 \in T
  BY <1>1
<1>6. ASSUME NEW k \in Nat, k \in T PROVE k + 1 \in T
  <2> SUFFICES ASSUME k + 1 <= n, NEW a \in V, NEW m \in V
               PROVE  a \in U(m, k + 1) <=> m \in D(a, k + 1)
    OBVIOUS
  <2>0. k + 1 \in 1 .. n /\ (k + 1) - 1 = k /\ k \in 0 .. n
    OBVIOUS
  <2>1. \A b, x \in V : b \in U(x, k) <=> x \in D(b, k)
    BY <1>6, <2>0
  <2>2. U(m, k + 1) = U(m, k) \union UNION {up[x] : x \in U(m, k)} /\ U(m, k) \subseteq V
    BY <1>1, <2>0
  <2>3. D(a, k + 1) = down[a] \union UNION {D(x, k) : x \in down[a]} /\ down[a] \subseteq D(a, k)
    BY <1>2, <1>3, <2>0
  <2>4. D(a, k) \subseteq D(a, k + 1)
    <3>1. D(a, (k + 1) - 1) \subseteq D(a, k + 1)
      BY <1>4, <2>0
    <3> QED  BY <2>0, <3>1
  <2>5. ASSUME a \in U(m, k + 1) PROVE m \in D(a, k + 1)
    <3>1. CASE a \in U(m, k)
      BY <2>1, <2>4, <3>1
    <3>2. CASE \E x \in U(m, k) : a \in up[x]
      <4>1. PICK x \in U(m, k) : a \in up[x]
        BY <3>2
      <4>2. x \in V /\ x \in down[a] /\ m \in D(x, k)
        BY <2>1, <2>2, <4>1
      <4> QED  BY <2>3, <4>2
    <3> QED  BY <2>2, <2>5, <3>1, <3>2
  <2>6. ASSUME m \in D(a, k + 1) PROVE a \in U(m, k + 1)
    <3>1. CASE m \in down[a]
      <4>1. a \in U(m, k)
        BY <2>1, <2>3, <3>1
      <4> QED  BY <2>2, <4>1
    <3>2. CASE \E x \in down[a] : m \in D(x, k)
      <4>1. PICK x \in down[a] : m \in D(x, k)
        BY <3>2
      <4>2. x \in V /\ a \in up[x] /\ x \in U(m, k)
        BY <2>1, <4>1 DEF Within
      <4> QED  BY <2>2, <4>2
    <3> QED  BY <2>3, <2>6, <3>1, <3>2
  <2> QED  BY <2>5, <2>6
<1> HIDE DEF T
<1>7. \A k \in 0 .. n : k \in T
  BY <1>5, <1>6, Induction
<1> QED  BY <1>7 DEF T, U, D

----------------------------------------------------------------------------
(* What a genealogy is: its nodes are those that were integrated, in the order
   of the chronicle; a parent was there before its children; and the two
   indices say the same. *)
Precedes(a, i) == \E j \in 1 .. i - 1 : chronicle[j] = a

NodesAreChronicled ==
  /\ IsFiniteSet(DOMAIN nodes) /\ DOMAIN children = DOMAIN nodes
  /\ \A n \in DOMAIN nodes : \E i \in 1 .. Len(chronicle) : chronicle[i] = n
  /\ \A i \in 1 .. Len(chronicle) : chronicle[i] \in DOMAIN nodes

ParentsPrecede ==
  \A i \in 1 .. Len(chronicle) :
    \A a \in ToSet(nodes[chronicle[i]].parents) : Precedes(a, i)

IndicesAgree ==
  /\ \A n \in DOMAIN nodes :
       /\ IsSeq(nodes[n].parents) /\ IsSeq(children[n])
       /\ ToSet(nodes[n].parents) \subseteq DOMAIN nodes
       /\ ToSet(children[n]) \subseteq DOMAIN nodes
       /\ IsInjective(children[n])
  /\ \A a, n \in DOMAIN nodes : a \in ToSet(nodes[n].parents) <=> n \in ToSet(children[a])

GeneInv == NodesAreChronicled /\ ParentsPrecede /\ IndicesAgree

(* Ancestors of a node come before it in the chronicle. *)
LEMMA AncestorsPrecede ==
  ASSUME IsSeq(chronicle), GeneInv, NEW n \in DOMAIN nodes, NEW c \in Nat,
         NEW up, up = [m \in DOMAIN nodes |-> ToSet(nodes[m].parents)]
  PROVE  \A k \in 0 .. c : \A a \in Collected(c, up, n)[k] :
           \A i \in 1 .. Len(chronicle) : chronicle[i] = n => Precedes(a, i)
<1> DEFINE U(k) == Collected(c, up, n)[k]
           Before(a) == \A i \in 1 .. Len(chronicle) : chronicle[i] = n => Precedes(a, i)
           T == {k \in Nat : k <= c => \A a \in U(k) : Before(a)}
<1>0. Within(up, DOMAIN nodes)
  BY DEF Within, GeneInv, IndicesAgree
<1>1. /\ U(0) = up[n]
      /\ \A k \in 1 .. c : U(k) = U(k - 1) \union UNION {up[m] : m \in U(k - 1)}
      /\ \A k \in 0 .. c : U(k) \subseteq DOMAIN nodes
  BY <1>0, CollectedFacts
<1> HIDE DEF U
<1>2. ASSUME NEW i \in 1 .. Len(chronicle), NEW a \in up[chronicle[i]]
      PROVE  Precedes(a, i)
  BY <1>2 DEF GeneInv, ParentsPrecede, NodesAreChronicled
<1>3. 0 \in T
  BY <1>1, <1>2
<1>4. ASSUME NEW k \in Nat, k \in T PROVE k + 1 \in T
  <2> SUFFICES ASSUME k + 1 <= c, NEW a \in U(k + 1),
                      NEW i \in 1 .. Len(chronicle), chronicle[i] = n
               PROVE  Precedes(a, i)
    OBVIOUS
  <2>1. k + 1 \in 1 .. c /\ (k + 1) - 1 = k /\ \A b \in U(k) : Before(b)
    BY <1>4
  <2>2. U(k + 1) = U(k) \union UNION {up[m] : m \in U(k)}
    BY <1>1, <2>1
  <2>3. CASE \E m \in U(k) : a \in up[m]
    <3>1. PICK m \in U(k) : a \in up[m]
      BY <2>3
    <3>2. PICK j \in 1 .. i - 1 : chronicle[j] = m
      BY <2>1, <3>1 DEF Precedes
    <3>3. Len(chronicle) \in Nat
      BY SeqFacts
    <3>4. j \in 1 .. Len(chronicle)
      BY <3>3
    <3>5. PICK l \in 1 .. j - 1 : chronicle[l] = a
      BY <1>2, <3>1, <3>2, <3>4 DEF Precedes
    <3>6. l \in 1 .. i - 1
      BY <3>3
    <3> QED  BY <3>5, <3>6 DEF Precedes
  <2> QED  BY <2>1, <2>2, <2>3
<1> HIDE DEF T
<1>5. \A k \in 0 .. c : k \in T
  BY <1>3, <1>4, Induction
<1> QED  BY <1>5 DEF T, U

LEMMA GeneIsSound ==
  ASSUME IsSeq(chronicle), GeneInv
  PROVE  GenealogyIsSound
<1> DEFINE V    == DOMAIN nodes
           c    == Cardinality(V)
           up   == [m \in V |-> ToSet(nodes[m].parents)]
           down == [m \in V |-> ToSet(children[m])]
<1>1. c \in Nat /\ c \in 0 .. c /\ Len(chronicle) \in Nat
  BY FS_CardinalityType, SeqFacts DEF GeneInv, NodesAreChronicled
<1>2. \A m : Ancestors(m) = Collected(c, up, m)[c] /\ Descendants(m) = Collected(c, down, m)[c]
  BY DEF Ancestors, Descendants, Reachable, Collected
<1>3. /\ Within(up, V) /\ Within(down, V)
      /\ \A a, m \in V : a \in up[m] <=> m \in down[a]
  BY DEF Within, GeneInv, IndicesAgree
<1>4. ASSUME NEW n \in V PROVE n \notin Ancestors(n)
  <2> SUFFICES ASSUME n \in Ancestors(n) PROVE FALSE
    OBVIOUS
  <2>1. \A i \in 1 .. Len(chronicle) : chronicle[i] = n => Precedes(n, i)
    <3>1. up = [m \in DOMAIN nodes |-> ToSet(nodes[m].parents)]
      OBVIOUS
    <3> HIDE DEF up, c, V
    <3> QED  BY <1>1, <1>2, <3>1, AncestorsPrecede DEF V
  <2> DEFINE P == {i \in 1 .. Len(chronicle) : chronicle[i] = n}
  <2>2. P \subseteq Nat /\ P # {}
    BY <1>1 DEF GeneInv, NodesAreChronicled
  <2>3. PICK i \in P : \A j \in P : i <= j
    <3> HIDE DEF P
    <3> QED  BY <2>2, LeastNumber
  <2>4. PICK j \in 1 .. i - 1 : chronicle[j] = n
    BY <2>1, <2>3 DEF Precedes
  <2>5. j \in 1 .. Len(chronicle) /\ j < i
    BY <1>1
  <2> QED  BY <1>1, <2>3, <2>4, <2>5
<1>5. ASSUME NEW n \in V, NEW a \in V
      PROVE  a \in Ancestors(n) <=> n \in Descendants(a)
  <2> HIDE DEF up, down, c, V
  <2> QED  BY <1>1, <1>2, <1>3, InverseLinks
<1>6. \A n \in V : IsInjective(children[n])
  BY DEF GeneInv, IndicesAgree
<1> QED  BY <1>4, <1>5, <1>6 DEF GenealogyIsSound

(* The parents of a node are nodes when the extra ones are. *)
LEMMA ParentsAreNodes ==
  ASSUME NEW V, NEW e, NEW turn, NEW extra \in Seq(V),
         turn.turn # 0 => Primary(e, turn) \in V
  PROVE  Parents(e, turn, extra) \in Seq(V)
<1> DEFINE n  == Len(extra)
           X  == Seq(V)
           x0 == IF turn.turn = 0 THEN <<>> ELSE <<Primary(e, turn)>>
           g  == [p \in (1 .. n) \X X |-> AppendNew(p[2], extra[p[1]])]
           c  == CHOOSE f : f = [i \in 0 .. n |->
                                   IF i = 0 THEN x0 ELSE AppendNew(f[i - 1], extra[i])]
<1>1. n \in Nat /\ \A i \in 1 .. n : extra[i] \in V
  BY LenProperties
<1>2. x0 \in X
  <2>1. CASE turn.turn = 0
    BY <2>1, EmptySeq
  <2>2. CASE turn.turn # 0
    <3>1. <<Primary(e, turn)>> \in Seq(V)
      BY <2>2
    <3> QED  BY <2>2, <3>1
  <2> QED  BY <2>1, <2>2
<1>3. g \in [(1 .. n) \X X -> X]
  <2> SUFFICES ASSUME NEW i \in 1 .. n, NEW s \in X PROVE AppendNew(s, extra[i]) \in X
    OBVIOUS
  <2> QED  BY <1>1, AppendProperties DEF AppendNew
<1>4. PICK f \in [0 .. n -> X] : IsSteps(f, n, x0, g)
  <2> HIDE DEF X, x0, g, n
  <2> QED  BY <1>1, <1>2, <1>3, StepsExist
<1>5. ASSUME NEW i \in 0 .. n
      PROVE  f[i] = IF i = 0 THEN x0 ELSE AppendNew(f[i - 1], extra[i])
  <2>1. f[i] = IF i = 0 THEN x0 ELSE g[<<i, f[i - 1]>>]
    BY <1>4 DEF IsSteps
  <2>2. i # 0 => i \in 1 .. n /\ f[i - 1] \in X
    <3> HIDE DEF n, X
    <3>1. i # 0 => i \in 1 .. n /\ i - 1 \in 0 .. n
      BY <1>1
    <3> QED  BY <1>4, <3>1
  <2> QED  BY <2>1, <2>2
<1> HIDE DEF g, x0, X
<1>6. f = [i \in 0 .. n |-> IF i = 0 THEN x0 ELSE AppendNew(f[i - 1], extra[i])]
  BY <1>4, <1>5
<1>7. c = [i \in 0 .. n |-> IF i = 0 THEN x0 ELSE AppendNew(c[i - 1], extra[i])]
  BY <1>6
<1>8. Parents(e, turn, extra) = c[n]
  BY DEF Parents, x0
<1> HIDE DEF c, n
<1> DEFINE T == {i \in Nat : i <= n => c[i] \in X}
<1>9. 0 \in T
  BY <1>1, <1>2, <1>7
<1>10. ASSUME NEW i \in Nat, i \in T PROVE i + 1 \in T
  <2> SUFFICES ASSUME i + 1 <= n PROVE c[i + 1] \in X
    OBVIOUS
  <2>1. i + 1 \in 0 .. n /\ i + 1 \in 1 .. n /\ i + 1 # 0 /\ (i + 1) - 1 = i /\ c[i] \in X
    BY <1>1, <1>10
  <2>2. c[i + 1] = AppendNew(c[i], extra[i + 1])
    BY <1>7, <2>1
  <2> QED  BY <1>1, <2>1, <2>2, AppendProperties DEF AppendNew, X
<1> HIDE DEF T
<1>11. n \in T
  BY <1>1, <1>9, <1>10, Induction
<1> QED  BY <1>1, <1>8, <1>11 DEF T, X

(* A turn that the genome takes is a node that was not there: the nodes are
   those of the lines, and it is the next of its own. *)
LEMMA TakenIsNew ==
  ASSUME SpiralInv, NodesAreChronicled,
         NEW e \in Entity, NEW candidate \in State, NEW promoted, NEW extra,
         Registrable(e, NewTurn(e, candidate, promoted), extra)
  PROVE  /\ IdOf(e, NewTurn(e, candidate, promoted)) \notin DOMAIN nodes
         /\ ToSet(extra) \subseteq DOMAIN nodes
         /\ NewTurn(e, candidate, promoted).turn # 0
              => Primary(e, NewTurn(e, candidate, promoted)) \in DOMAIN nodes
<1> DEFINE turn == NewTurn(e, candidate, promoted)
           id   == IdOf(e, turn)
           n    == Len(ledgers[e])
<1>1. turn.turn = n
  BY NewTurnFacts
<1>2. n \in Nat /\ Len(by_entity[e]) = n
  <2>1. Len(by_entity[e]) \in Nat /\ n \in Nat /\ Len(by_entity[e]) <= n
    BY SeqFacts DEF SpiralInv, SpiralShape, LineInv
  <2> QED
    BY <1>1, <2>1 DEF Registrable
<1>3. id.entity = e /\ id.turn = n
  BY <1>1 DEF IdOf
<1> HIDE DEF id
<1>4. id \notin DOMAIN nodes
  <2> SUFFICES ASSUME id \in DOMAIN nodes PROVE FALSE
    OBVIOUS
  <2>1. PICK i \in 1 .. Len(chronicle) : chronicle[i] = id
    BY DEF NodesAreChronicled
  <2>2. PICK f \in Entity : \E k \in 1 .. Len(by_entity[f]) : chronicle[i] = by_entity[f][k]
    BY DEF SpiralInv, ChronicleInv
  <2>3. PICK k \in 1 .. Len(by_entity[f]) : id = by_entity[f][k]
    BY <2>1, <2>2
  <2>4. by_entity[f][k] = IdOf(f, ledgers[f][k]) /\ Len(by_entity[f]) <= Len(ledgers[f])
    BY DEF SpiralInv, LineInv
  <2>5. Len(by_entity[f]) \in Nat /\ Len(ledgers[f]) \in Nat
    BY SeqFacts DEF SpiralInv, SpiralShape
  <2>6. k \in 1 .. Len(ledgers[f])
    BY <2>4, <2>5
  <2>7. id.entity = f /\ id.turn = k - 1
    BY <2>3, <2>4, <2>6 DEF SpiralInv, TurnInv, IdOf
  <2> QED
    BY <1>2, <1>3, <2>5, <2>7
<1>5. turn.turn # 0 => Primary(e, turn) \in DOMAIN nodes
  <2> SUFFICES ASSUME n # 0 PROVE by_entity[e][n] \in DOMAIN nodes
    BY <1>1, <1>2 DEF Primary, Last
  <2>1. n \in 1 .. Len(by_entity[e])
    BY <1>2
  <2> QED
    BY <2>1 DEF SpiralInv, LineInv
<1> QED
  BY <1>4, <1>5 DEF Registrable, id

(* The indices of a genealogy with one more node. *)
LEMMA TakenKeepsGene ==
  ASSUME SpiralInv, GeneInv, NEW e \in Entity, NEW candidate \in State, NEW promoted,
         NEW extra, IsSeq(extra),
         Registrable(e, NewTurn(e, candidate, promoted), extra),
         RegisterTurn(e, NewTurn(e, candidate, promoted), extra),
         chronicle' = Append(chronicle, IdOf(e, NewTurn(e, candidate, promoted)))
  PROVE  GeneInv'
<1> DEFINE turn    == NewTurn(e, candidate, promoted)
           id      == IdOf(e, turn)
           V       == DOMAIN nodes
           parents == Parents(e, turn, extra)
           c       == Len(chronicle)
<1>1. id \notin V /\ ToSet(extra) \subseteq V /\ (turn.turn # 0 => Primary(e, turn) \in V)
  BY TakenIsNew DEF GeneInv
<1>2. extra \in Seq(V)
  <2>1. PICK S : extra \in Seq(S)
    BY DEF IsSeq
  <2>2. Len(extra) \in Nat /\ extra = [i \in 1 .. Len(extra) |-> extra[i]]
    BY <2>1
  <2>3. \A i \in 1 .. Len(extra) : extra[i] \in V
    BY <1>1, <2>2 DEF ToSet
  <2> QED
    BY <2>2, <2>3
<1>3. parents \in Seq(V)
  BY <1>1, <1>2, ParentsAreNodes
<1>4. /\ nodes' = [n \in V \union {id} |->
                     IF n = id THEN [spiral |-> id, primary |-> Primary(e, turn),
                                     parents |-> parents]
                     ELSE nodes[n]]
      /\ children' = [n \in V \union {id} |->
                        IF n = id THEN <<>>
                        ELSE IF Contains(parents, n) THEN Append(children[n], id)
                        ELSE children[n]]
  BY DEF RegisterTurn, ChildrenWith
<1>5. /\ DOMAIN nodes' = V \union {id} /\ DOMAIN children' = V \union {id}
      /\ nodes'[id].parents = parents /\ children'[id] = <<>>
      /\ \A n \in V : /\ nodes'[n] = nodes[n]
                      /\ Contains(parents, n) => children'[n] = Append(children[n], id)
                      /\ ~Contains(parents, n) => children'[n] = children[n]
  BY <1>1, <1>4
<1>6. IsSeq(parents) /\ ToSet(parents) \subseteq V /\ \A n : Contains(parents, n) <=> n \in ToSet(parents)
  <2>1. Len(parents) \in Nat /\ DOMAIN parents = 1 .. Len(parents)
        /\ \A i \in 1 .. Len(parents) : parents[i] \in V
    BY <1>3, LenProperties
  <2> QED
    BY <1>3, <2>1 DEF IsSeq, ToSet, Contains
<1>7. /\ c \in Nat /\ Len(chronicle') = c + 1 /\ chronicle'[c + 1] = id
      /\ \A i \in 1 .. c : chronicle'[i] = chronicle[i]
  BY SeqFacts, AppendFacts DEF SpiralInv, SpiralShape
<1> HIDE DEF parents, id, turn, c, V
<1>8. NodesAreChronicled'
  <2>1. IsFiniteSet(DOMAIN nodes')
    <3>1. IsFiniteSet(V)
      BY DEF GeneInv, NodesAreChronicled, V
    <3> QED  BY <1>5, <3>1, FS_AddElement
  <2>2. \A i \in 1 .. c : i \in 1 .. c + 1
    BY <1>7
  <2>3. \A n \in V : \E i \in 1 .. c + 1 : chronicle'[i] = n
    BY <1>7, <2>2 DEF GeneInv, NodesAreChronicled, V, c
  <2>4. c + 1 \in 1 .. c + 1 /\ \A i \in 1 .. c + 1 : i \in 1 .. c \/ i = c + 1
    BY <1>7
  <2>5. \A i \in 1 .. c + 1 : chronicle'[i] \in V \union {id}
    BY <1>7, <2>4 DEF GeneInv, NodesAreChronicled, V, c
  <2>6. \A n \in V \union {id} : \E i \in 1 .. c + 1 : chronicle'[i] = n
    BY <1>7, <2>3, <2>4
  <2> QED
    BY <1>5, <1>7, <2>1, <2>5, <2>6 DEF NodesAreChronicled
<1>9. ParentsPrecede'
  <2> SUFFICES ASSUME NEW i \in 1 .. c + 1, NEW a \in ToSet(nodes'[chronicle'[i]].parents)
               PROVE  \E j \in 1 .. i - 1 : chronicle'[j] = a
    BY <1>7 DEF ParentsPrecede, Precedes
  <2>1. CASE i \in 1 .. c
    <3>1. chronicle'[i] = chronicle[i] /\ chronicle[i] \in V
      BY <1>7, <2>1 DEF GeneInv, NodesAreChronicled, c, V
    <3>2. a \in ToSet(nodes[chronicle[i]].parents)
      BY <1>5, <3>1
    <3>3. PICK j \in 1 .. i - 1 : chronicle[j] = a
      BY <2>1, <3>2 DEF GeneInv, ParentsPrecede, Precedes, c
    <3>4. j \in 1 .. c
      BY <1>7, <2>1
    <3> QED
      BY <1>7, <3>3, <3>4
  <2>2. CASE i = c + 1
    <3>1. a \in V
      BY <1>5, <1>6, <1>7, <2>2
    <3>2. PICK j \in 1 .. c : chronicle[j] = a
      BY <3>1 DEF GeneInv, NodesAreChronicled, c, V
    <3>3. j \in 1 .. i - 1
      BY <1>7, <2>2
    <3> QED
      BY <1>7, <3>2, <3>3
  <2>3. i \in 1 .. c \/ i = c + 1
    BY <1>7
  <2> QED
    BY <2>1, <2>2, <2>3
<1>10. \A n \in V : /\ IsSeq(nodes[n].parents) /\ IsSeq(children[n])
                    /\ ToSet(nodes[n].parents) \subseteq V /\ ToSet(children[n]) \subseteq V
                    /\ IsInjective(children[n])
  BY DEF GeneInv, IndicesAgree, V
<1>11. ASSUME NEW n \in V
       PROVE  /\ IsSeq(children'[n])
              /\ \A m : m \in ToSet(children'[n])
                          <=> m \in ToSet(children[n]) \/ (m = id /\ n \in ToSet(parents))
              /\ IsInjective(children'[n])
  <2> DEFINE l == Len(children[n])
             more == Append(children[n], id)
  <2>1. l \in Nat /\ DOMAIN children[n] = 1 .. l
    BY <1>10, SeqFacts
  <2>2. /\ IsSeq(more) /\ Len(more) = l + 1 /\ more[l + 1] = id
        /\ \A i \in 1 .. l : more[i] = children[n][i]
    BY <1>10, AppendFacts
  <2>3. DOMAIN more = 1 .. l + 1
    BY <2>2, SeqFacts
  <2> HIDE DEF more, l
  <2>4. l + 1 \in 1 .. l + 1 /\ \A i \in 1 .. l + 1 : i \in 1 .. l \/ i = l + 1
    BY <2>1
  <2>5. \A i \in 1 .. l : i \in 1 .. l + 1 /\ more[i] \in V
    BY <1>10, <2>1, <2>2 DEF ToSet
  <2>6. \A m : m \in ToSet(more) <=> m \in ToSet(children[n]) \/ m = id
    BY <2>1, <2>2, <2>3, <2>4, <2>5 DEF ToSet
  <2>7. IsInjective(more)
    <3> SUFFICES ASSUME NEW i \in 1 .. l + 1, NEW j \in 1 .. l + 1, more[i] = more[j]
                 PROVE  i = j
      BY <2>3 DEF IsInjective
    <3>1. CASE i \in 1 .. l /\ j \in 1 .. l
      BY <1>10, <2>1, <2>2, <3>1 DEF IsInjective
    <3>2. CASE i = l + 1 /\ j \in 1 .. l
      BY <1>1, <2>2, <2>5, <3>2
    <3>3. CASE j = l + 1 /\ i \in 1 .. l
      BY <1>1, <2>2, <2>5, <3>3
    <3> QED
      BY <2>4, <3>1, <3>2, <3>3
  <2>8. CASE n \in ToSet(parents)
    <3>1. children'[n] = more
      BY <1>5, <1>6, <2>8 DEF more
    <3> QED
      BY <2>2, <2>6, <2>7, <2>8, <3>1
  <2>9. CASE n \notin ToSet(parents)
    <3>1. children'[n] = children[n]
      BY <1>5, <1>6, <2>9
    <3> QED
      BY <1>10, <2>9, <3>1
  <2> QED
    BY <2>8, <2>9
<1>12. IsSeq(<<>>) /\ ToSet(<<>>) = {} /\ IsInjective(<<>>)
  BY EmptySeq DEF IsSeq, ToSet, IsInjective
<1>13. IndicesAgree'
  <2>1. ASSUME NEW n \in V \union {id}
        PROVE  /\ IsSeq(nodes'[n].parents) /\ IsSeq(children'[n])
               /\ ToSet(nodes'[n].parents) \subseteq V \union {id}
               /\ ToSet(children'[n]) \subseteq V \union {id}
               /\ IsInjective(children'[n])
    <3>1. CASE n = id
      BY <1>5, <1>6, <1>12, <3>1
    <3>2. CASE n \in V
      BY <1>5, <1>10, <1>11, <3>2
    <3> QED
      BY <3>1, <3>2
  <2>2. ASSUME NEW a \in V \union {id}, NEW n \in V \union {id}
        PROVE  a \in ToSet(nodes'[n].parents) <=> n \in ToSet(children'[a])
    <3>1. CASE a = id
      <4>1. a \notin ToSet(nodes'[n].parents)
        BY <1>1, <1>5, <1>6, <1>10, <3>1
      <4> QED
        BY <1>5, <1>12, <3>1, <4>1
    <3>2. CASE a \in V /\ n = id
      <4>1. n \notin ToSet(children[a])
        BY <1>1, <1>10, <3>2
      <4> QED
        BY <1>5, <1>11, <3>2, <4>1
    <3>3. CASE a \in V /\ n \in V
      <4>1. a \in ToSet(nodes[n].parents) <=> n \in ToSet(children[a])
        BY <3>3 DEF GeneInv, IndicesAgree, V
      <4>2. n # id
        BY <1>1, <3>3
      <4> QED
        BY <1>5, <1>11, <3>3, <4>1, <4>2
    <3> QED
      BY <3>1, <3>2, <3>3
  <2> QED
    BY <1>5, <2>1, <2>2 DEF IndicesAgree
<1> QED
  BY <1>8, <1>9, <1>13 DEF GeneInv

LEMMA GeneStart == SpiralInit => GeneInv
<1> SUFFICES ASSUME SpiralInit PROVE GeneInv
  OBVIOUS
<1>1. nodes = <<>> /\ children = <<>> /\ chronicle = <<>>
  BY DEF SpiralInit
<1>2. DOMAIN nodes = {} /\ DOMAIN children = {} /\ 1 .. Len(chronicle) = {} /\ IsFiniteSet({})
  BY <1>1, EmptySeq, FS_EmptySet
<1> QED
  BY <1>2 DEF GeneInv, NodesAreChronicled, ParentsPrecede, IndicesAgree

LEMMA IntegrateKeepsGene ==
  ASSUME SpiralInv, GeneInv, NEW e \in Entity, NEW candidate \in State,
         NEW promoted, NEW extra, IsSeq(extra), Integrate(e, candidate, promoted, extra)
  PROVE  GeneInv'
<1>1. CASE Registrable(e, NewTurn(e, candidate, promoted), extra)
  BY <1>1, TakenKeepsGene DEF Integrate
<1>2. CASE ~Registrable(e, NewTurn(e, candidate, promoted), extra)
  <2>1. UNCHANGED <<nodes, children, chronicle>>
    BY <1>2 DEF Integrate, genome
  <2> QED
    BY <2>1 DEF GeneInv, NodesAreChronicled, ParentsPrecede, Precedes, IndicesAgree
<1> QED
  BY <1>1, <1>2

LEMMA GeneStep == SpiralInv /\ GeneInv /\ [SpiralNext]_spiralVars => GeneInv'
<1> SUFFICES ASSUME SpiralInv, GeneInv, [SpiralNext]_spiralVars PROVE GeneInv'
  OBVIOUS
<1>1. CASE UNCHANGED spiralVars
  <2>1. UNCHANGED <<nodes, children, chronicle>>
    BY <1>1 DEF spiralVars, genome
  <2> QED
    BY <2>1 DEF GeneInv, NodesAreChronicled, ParentsPrecede, Precedes, IndicesAgree
<1>2. CASE SpiralNext
  <2>1. PICK e \in Entity : \E candidate \in State : \E promoted, extra :
          IsSeq(extra) /\ Integrate(e, candidate, promoted, extra)
    BY <1>2, SpiralNextIntegrates
  <2> QED
    BY <2>1, IntegrateKeepsGene
<1> QED
  BY <1>1, <1>2

(* GenealogyIsSound for any entities, turns and parents named, however the
   derivations cross: both traversals start from indices that agree, and a
   parent is in the chronicle before its child. *)
THEOREM GenealogySound == SpiralSpec => []GenealogyIsSound
<1>1. SpiralInv /\ GeneInv => GenealogyIsSound
  BY GeneIsSound DEF SpiralInv, SpiralShape
<1> QED
  BY SpiralStart, SpiralStep, GeneStart, GeneStep, <1>1, PTL DEF SpiralSpec
----------------------------------------------------------------------------
(* The face bus. An ack is of a packet that its recipient opened, in whatever
   round, or was cut off (AckInv). A witness that accepts one ack for each
   packet of the inbox has thus found those packets opened, because a packet is
   known by its sender and its commit, and an ack by both
   (AckDeterminesPacket). *)

Packet == {MakePacket(f, c) : f \in Face, c \in Nat}

File == [at : Attempt, name : Face, holds : Packet \union {Torn}]

Ack == {AckFor(p) : p \in opened} \union {Torn}

FilesInv ==
  /\ head \in [Face -> Nat]
  /\ inbox \subseteq File /\ IsFiniteSet(inbox)
  /\ mailbox \in [Face -> Packet \union {NoPacket, Torn}]

AckInv ==
  /\ opened \subseteq Packet
  /\ ackFiles \subseteq [at : Attempt, name : Face, holds : Ack] /\ IsFiniteSet(ackFiles)

BusInv == FilesInv /\ AckInv /\ WitnessedIsDelivered

----------------------------------------------------------------------------
(* Packets and acks. *)

LEMMA FaceType == Faces \in Nat /\ Faces \notin Face /\ Face \subseteq Nat /\ 0 \in Face
BY Ring DEF Face

LEMMA PeerType == \A f \in Face : Peer(f) \in Face
<1> SUFFICES ASSUME NEW f \in Face PROVE (f + 1) % Faces \in 0 .. Faces - 1
  BY DEF Peer, Face
<1> QED
  BY Ring, Z3 DEF Face

(* The ring: each face has one predecessor. *)
LEMMA PeerIsInjective ==
  ASSUME NEW f \in Face, NEW g \in Face, Peer(f) = Peer(g)
  PROVE  f = g
<1>1. \A x \in Face : Peer(x) = IF x = Faces - 1 THEN 0 ELSE x + 1
  <2> SUFFICES ASSUME NEW x \in Face
               PROVE  (x + 1) % Faces = IF x = Faces - 1 THEN 0 ELSE x + 1
    BY DEF Peer
  <2> QED
    BY Ring, Z3 DEF Face
<1> QED
  BY <1>1, Ring DEF Face

LEMMA PacketFields ==
  ASSUME NEW p \in Packet
  PROVE  /\ p.from \in Face /\ p.to = Peer(p.from) /\ p.to \in Face
         /\ p = [from |-> p.from, to |-> p.to, sha |-> p.sha]
BY PeerType DEF Packet, MakePacket

LEMMA TornIsNoPacket ==
  /\ Torn.from \notin Face /\ Torn.to \notin Face
  /\ NoPacket.from \notin Face /\ NoPacket.to \notin Face
BY FaceType DEF Torn, NoPacket, Nobody

(* An ack tells its packet, among those of the same recipient. *)
LEMMA AckDeterminesPacket ==
  ASSUME NEW p \in Packet, NEW q \in Packet, AckFor(p) = AckFor(q)
  PROVE  p = q
BY PacketFields DEF AckFor

----------------------------------------------------------------------------
(* Files. *)

LEMMA WrittenFiles ==
  ASSUME NEW files, NEW S, files \subseteq S, IsFiniteSet(files), NEW file \in S
  PROVE  Written(files, file) \subseteq S /\ IsFiniteSet(Written(files, file))
<1> DEFINE kept == {g \in files : g.at # file.at \/ g.name # file.name}
<1>1. IsFiniteSet(kept)
  BY FS_Subset
<1>2. IsFiniteSet(kept \union {file})
  BY <1>1, FS_AddElement
<1> QED
  BY <1>2 DEF Written

(* Damage leaves files of the same kind, as long as a torn one is of it. *)
LEMMA DamagedFiles ==
  ASSUME NEW H, Torn \in H, NEW files, IsFiniteSet(files),
         files \subseteq [at : Attempt, name : Face, holds : H],
         NEW damaged \in Damaged(files)
  PROVE  damaged \subseteq [at : Attempt, name : Face, holds : H] /\ IsFiniteSet(damaged)
<1> DEFINE S == [at : Attempt, name : Face, holds : H]
<1>1. PICK g \in files :
        damaged \in {files \ {g},
                     (files \ {g}) \union {[g EXCEPT !.holds = Torn]},
                     Written(files \ {g}, [g EXCEPT !.name = Peer(g.name)])}
  BY DEF Damaged
<1>2. [g EXCEPT !.holds = Torn] \in S /\ [g EXCEPT !.name = Peer(g.name)] \in S
  BY PeerType
<1>3. IsFiniteSet(files \ {g}) /\ files \ {g} \subseteq S
  BY FS_Subset
<1>4. CASE damaged = files \ {g}
  BY <1>3, <1>4
<1>5. CASE damaged = (files \ {g}) \union {[g EXCEPT !.holds = Torn]}
  BY <1>2, <1>3, <1>5, FS_AddElement
<1>6. CASE damaged = Written(files \ {g}, [g EXCEPT !.name = Peer(g.name)])
  BY <1>2, <1>3, <1>6, WrittenFiles
<1> QED
  BY <1>1, <1>4, <1>5, <1>6

(* What load_messages lets through: exactly one packet of each face. *)
LEMMA CollectedPackets ==
  ASSUME FilesInv, Collects(inbox)
  PROVE  /\ Packets \subseteq Packet
         /\ {p.from : p \in Packets} = Face
         /\ \A p, q \in Packets : p.from = q.from => p = q
<1>1. \A g \in inbox : g.holds \in Packet /\ g.holds.from = g.name /\ g.name \in Face
  BY TornIsNoPacket DEF FilesInv, Collects, File
<1>2. ASSUME NEW f \in Face
      PROVE  \E g : {h \in inbox : h.name = f} = {g}
  <2>1. IsFiniteSet({h \in inbox : h.name = f})
    BY FS_Subset DEF FilesInv
  <2>2. Cardinality({h \in inbox : h.name = f}) = 1
    BY DEF Collects
  <2> QED
    BY <2>1, <2>2, FS_Singleton
<1>3. \A f \in Face : \E g \in inbox : g.name = f
  BY <1>2
<1>4. \A g, h \in inbox : g.name = h.name => g = h
  <2> SUFFICES ASSUME NEW g \in inbox, NEW h \in inbox, g.name = h.name PROVE g = h
    OBVIOUS
  <2>1. g.name \in Face
    BY <1>1
  <2> QED
    BY <2>1, <1>2
<1> QED
  BY <1>1, <1>3, <1>4 DEF Packets

(* What witness lets through: every packet has been opened. *)
LEMMA AcknowledgedIsOpened ==
  ASSUME FilesInv, AckInv, Collects(inbox), Acknowledged(Packets)
  PROVE  Packets \subseteq opened
<1> SUFFICES ASSUME NEW p \in Packets PROVE p \in opened
  OBVIOUS
<1>1. p \in Packet /\ p.to \in Face
  BY CollectedPackets, PacketFields
<1>2. PICK g \in ackFiles : g.name = p.to
  <2>1. IsFiniteSet({h \in ackFiles : h.name = p.to})
    BY FS_Subset DEF AckInv
  <2>2. Cardinality({h \in ackFiles : h.name = p.to}) = 1
    BY DEF Acknowledged
  <2> QED
    BY <2>1, <2>2, FS_Singleton
<1>3. PICK q \in Packets : g.holds = AckFor(q) /\ g.holds.from = g.name
  BY DEF Acknowledged
<1>4. q \in Packet /\ q.to = p.to
  BY <1>2, <1>3, CollectedPackets DEF AckFor
<1>5. q = p
  <2>1. Peer(q.from) = Peer(p.from) /\ q.from \in Face /\ p.from \in Face
    BY <1>1, <1>4, PacketFields
  <2>2. q.from = p.from
    BY <2>1, PeerIsInjective
  <2> QED
    BY <2>2, CollectedPackets
<1>6. g.holds # Torn
  BY <1>2, <1>3, <1>1, TornIsNoPacket
<1>7. PICK o \in opened : g.holds = AckFor(o)
  BY <1>6 DEF AckInv, Ack
<1>8. o \in Packet /\ AckFor(o) = AckFor(p)
  BY <1>3, <1>5, <1>7 DEF AckInv
<1> QED
  BY <1>1, <1>8, AckDeterminesPacket

----------------------------------------------------------------------------
(* The invariant. *)

LEMMA BusStart == BusInit => BusInv
<1> SUFFICES ASSUME BusInit PROVE BusInv
  OBVIOUS
<1>1. FilesInv
  BY FS_EmptySet DEF BusInit, FilesInv
<1>2. AckInv
  BY FS_EmptySet DEF BusInit, AckInv
<1> QED
  BY <1>1, <1>2 DEF BusInit, BusInv, WitnessedIsDelivered

LEMMA FilesStep == BusInv /\ [BusNext]_busVars => FilesInv'
<1> SUFFICES ASSUME FilesInv, [BusNext]_busVars PROVE FilesInv'
  BY DEF BusInv
<1>1. CASE Commit
  BY <1>1 DEF Commit, FilesInv
<1>2. CASE \E f \in Face : Observe(f)
  <2>1. PICK f \in Face : Observe(f)
    BY <1>2
  <2>2. PICK a \in Attempt :
          inbox' = Written(inbox, [at |-> a, name |-> f, holds |-> MakePacket(f, head[f])])
    BY <2>1 DEF Observe
  <2>3. [at |-> a, name |-> f, holds |-> MakePacket(f, head[f])] \in File
    BY DEF FilesInv, File, Packet
  <2>4. inbox' \subseteq File /\ IsFiniteSet(inbox')
    BY <2>2, <2>3, WrittenFiles DEF FilesInv
  <2> QED
    BY <2>1, <2>4 DEF Observe, FilesInv
<1>3. CASE Route
  <2> DEFINE mail == [f \in Face |-> CHOOSE p \in Packets : p.to = f]
  <2>1. \A f \in Face : mail[f] \in Packet
    <3> SUFFICES ASSUME NEW f \in Face PROVE mail[f] \in Packet
      OBVIOUS
    <3>1. \E p \in Packets : p.to = f
      <4>1. PICK e \in Face : Peer(e) = f
        <5>1. CASE f = 0
          <6>1. (Faces - 1) + 1 = Faces /\ Faces - 1 \in Face
            BY Ring DEF Face
          <6>2. Faces % Faces = 0
            BY Ring, Z3
          <6> QED
            BY <5>1, <6>1, <6>2 DEF Peer
        <5>2. CASE f # 0
          <6>1. f - 1 \in Face /\ (f - 1) + 1 = f
            BY <5>2, Ring DEF Face
          <6>2. f % Faces = f
            BY Ring, Z3 DEF Face
          <6> QED
            BY <6>1, <6>2 DEF Peer
        <5> QED
          BY <5>1, <5>2
      <4>2. PICK p \in Packets : p.from = e
        BY <1>3, CollectedPackets DEF Route
      <4>3. p \in Packet
        BY <1>3, CollectedPackets DEF Route
      <4> QED
        BY <4>1, <4>2, <4>3, PacketFields
    <3> QED
      BY <3>1, <1>3, CollectedPackets DEF Route
  <2>2. mailbox' \in [Face -> Packet \union {NoPacket, Torn}]
    <3>1. CASE mailbox' = [f \in Face |-> CHOOSE p \in Packets : p.to = f]
      BY <3>1, <2>1
    <3>2. CASE \E n \in Face, cut \in BOOLEAN :
                 mailbox' = [f \in Face |-> IF f < n THEN CHOOSE p \in Packets : p.to = f
                                            ELSE IF f = n /\ cut THEN Torn
                                            ELSE mailbox[f]]
      <4>1. PICK n \in Face, cut \in BOOLEAN :
                 mailbox' = [f \in Face |-> IF f < n THEN CHOOSE p \in Packets : p.to = f
                                            ELSE IF f = n /\ cut THEN Torn
                                            ELSE mailbox[f]]
        BY <3>2
      <4>2. \A f \in Face : mailbox'[f] \in Packet \union {NoPacket, Torn}
        BY <4>1, <2>1 DEF FilesInv
      <4> QED
        BY <4>1, <4>2
    <3> QED
      BY <1>3, <3>1, <3>2 DEF Route
  <2> QED
    BY <1>3, <2>2 DEF Route, FilesInv
<1>4. CASE \E f \in Face : Receive(f)
  BY <1>4 DEF Receive, FilesInv
<1>5. CASE Witness
  BY <1>5 DEF Witness, FilesInv
<1>6. CASE Fault
  <2>1. CASE inbox' \in Damaged(inbox)
    <3>1. inbox' \subseteq File /\ IsFiniteSet(inbox')
      BY <2>1, DamagedFiles DEF FilesInv, File
    <3> QED
      BY <1>6, <3>1 DEF Fault, FilesInv
  <2>2. CASE UNCHANGED inbox
    BY <1>6, <2>2 DEF Fault, FilesInv
  <2> QED
    BY <1>6, <2>1, <2>2 DEF Fault
<1>7. CASE UNCHANGED busVars
  BY <1>7 DEF busVars, FilesInv
<1> QED
  BY <1>1, <1>2, <1>3, <1>4, <1>5, <1>6, <1>7 DEF BusNext

LEMMA AckStep == BusInv /\ [BusNext]_busVars => AckInv'
<1> SUFFICES ASSUME FilesInv, AckInv, [BusNext]_busVars PROVE AckInv'
  BY DEF BusInv
<1>1. CASE UNCHANGED <<ackFiles, opened>>
  BY <1>1 DEF AckInv, Ack
<1>2. CASE \E f \in Face : Receive(f)
  <2>1. PICK f \in Face : Receive(f)
    BY <1>2
  <2>2. mailbox[f] \in Packet
    BY <2>1, TornIsNoPacket DEF Receive, FilesInv
  <2>3. opened' = opened \union {mailbox[f]} /\ opened' \subseteq Packet
    BY <2>1, <2>2 DEF Receive, AckInv
  <2>4. PICK a \in Attempt :
          ackFiles' = Written(ackFiles, [at |-> a, name |-> f, holds |-> AckFor(mailbox[f])])
    BY <2>1 DEF Receive
  <2> DEFINE S == [at : Attempt, name : Face, holds : Ack']
             file == [at |-> a, name |-> f, holds |-> AckFor(mailbox[f])]
  <2>5. Ack \subseteq Ack' /\ AckFor(mailbox[f]) \in Ack'
    BY <2>3 DEF Ack
  <2>6. ackFiles \subseteq S /\ file \in S /\ IsFiniteSet(ackFiles)
    BY <2>5 DEF AckInv
  <2>7. ackFiles' = Written(ackFiles, file)
    BY <2>4
  <2>8. ackFiles' \subseteq S /\ IsFiniteSet(ackFiles')
    <3> HIDE DEF S, file
    <3> QED
      BY <2>6, <2>7, WrittenFiles
  <2> QED
    BY <2>3, <2>8 DEF AckInv
<1>3. CASE Fault
  <2>1. CASE ackFiles' \in Damaged(ackFiles)
    <3>1. Torn \in Ack /\ opened' = opened /\ Ack' = Ack
      BY <1>3 DEF Fault, Ack
    <3>2. ackFiles' \subseteq [at : Attempt, name : Face, holds : Ack] /\ IsFiniteSet(ackFiles')
      BY <2>1, <3>1, DamagedFiles DEF AckInv
    <3> QED
      BY <3>1, <3>2 DEF AckInv
  <2>2. CASE UNCHANGED ackFiles
    BY <1>1, <1>3, <2>2 DEF Fault
  <2> QED
    BY <1>3, <2>1, <2>2 DEF Fault
<1> QED
  BY <1>1, <1>2, <1>3 DEF BusNext, Commit, Observe, Route, Witness, busVars

(* WitnessedIsDelivered for a ring of any size, any number of rounds, commits,
   files and faults. *)
THEOREM WitnessIsTrue == BusSpec => []WitnessedIsDelivered
<1>1. BusInv /\ [BusNext]_busVars => WitnessedIsDelivered'
  <2> SUFFICES ASSUME BusInv, [BusNext]_busVars PROVE WitnessedIsDelivered'
    OBVIOUS
  <2>1. CASE Witness
    BY <2>1, AcknowledgedIsOpened, CollectedPackets
       DEF Witness, BusInv, WitnessedIsDelivered
  <2>2. CASE receipts' = receipts /\ opened \subseteq opened'
    BY <2>2 DEF BusInv, WitnessedIsDelivered
  <2> QED
    BY <2>1, <2>2 DEF BusNext, Commit, Observe, Route, Receive, Fault, busVars
<1>2. BusInv /\ [BusNext]_busVars => BusInv'
  BY <1>1, FilesStep, AckStep DEF BusInv
<1>3. BusInv => WitnessedIsDelivered
  BY DEF BusInv
<1> QED
  BY BusStart, <1>2, <1>3, PTL DEF BusSpec
=============================================================================
