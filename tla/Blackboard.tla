----------------------------- MODULE Blackboard -----------------------------
(***************************************************************************)
(* The shared blackboard of tools/kenshi_swarm_blackboard.py: agents with  *)
(* local identity and state, an append-only list of events in a bounded    *)
(* active window, and leases on objectives that are counted in turns.      *)
(*                                                                         *)
(* The operations are operators on a value of the board, so that a caller  *)
(* (KenshiRuntime) can make several of them in one of its calls. An event  *)
(* is refused with an exception; what an operation had already changed on  *)
(* the board stays.                                                        *)
(***************************************************************************)
EXTENDS Naturals, FiniteSets, SequencesExt

CONSTANTS
  Name,           (* strings given as agent_id                             *)
  Strip,          (* [Name -> Name]: str.strip()                           *)
  Lineage,        (* lineage ids that callers give                         *)
  DefaultLineage, (* [Name -> lineage id made from the agent id]           *)
  Delta,          (* dicts given as delta or state                         *)
  Objective,      (* objective ids                                         *)
  Emitted,        (* kinds that callers give to append_event               *)
  GenomeId,       (* genome node ids                                       *)
  ActiveWindow,   (* active_window                                         *)
  Ttl,            (* ttl_turns that callers give                           *)
  MaxTurn,        (* bound on the turns that claims are made at            *)
  MaxEvents,      (* bound on the events                                   *)
  None            (* Python's None                                         *)

ASSUME StripAssumption ==
  /\ Strip \in [Name -> Name]
  /\ \A n \in Name : Strip[Strip[n]] = Strip[n]
ASSUME ActiveWindowAssumption == ActiveWindow \in Nat \ {0}
ASSUME TtlAssumption == Ttl \subseteq Nat

VARIABLES
  board,      (* the KenshiSwarmBlackboard                                 *)
  outcome,    (* how the last call ended                                   *)
  clean       (* history: no call has raised yet                           *)

vars == <<board, outcome, clean>>

(* The event types that the operations here append, one of those that only
   callers name, and a name that is not in EVENT_TYPES. *)
EventType == {"STATE_DELTA", "OBSERVATION", "HANDOFF", "CAUSAL_ACK",
              "GENOME_BIND", "HEALTH", "LEASE_STATE"}
Kind == EventType \union {"UNSUPPORTED"}

LocalState == {current @@ delta : current \in Delta \union {<<>>}, delta \in Delta}

(* Of the payload: what sync_local_state and recover say of the sender's state
   and claim_lease of a lease. A payload that a caller gives says neither. An
   event id holds the sequence number, which is enough to identify it. *)
EventId == Nat

Claim == [objective : Objective, acquired : Nat, expires : Nat]

Event == [kind       : EventType,
          sender     : Name,
          recipients : SUBSET Name,
          parents    : SUBSET EventId,
          nodes      : SUBSET GenomeId,
          state      : {{}} \union {{local} : local \in LocalState},
          claim      : Claim \union {None}]

Agent == [lineage       : Lineage \union {DefaultLineage[n] : n \in Name},
          status        : {"ACTIVE", "STALE_KNOWN_ANCESTOR", "RECOVERED"},
          local_state   : LocalState \union {None},
          last_event_id : EventId \union {None},
          event_ids     : Seq(EventId)]

Lease == [owner : Name, expires : Nat, event : EventId]

ASSUME EmittedAssumption == Emitted \subseteq Kind
ASSUME NoneAssumption == None \notin Lease /\ None \notin Claim

TypeOK ==
  /\ board \in [agents  : UNION {[registered -> Agent] : registered \in SUBSET Name},
                events  : Seq(Event),
                active  : Seq(EventId),
                archive : Seq(EventId),
                leases  : [Objective -> Lease \union {None}]]
  /\ outcome \in {"returned", "raised"}
  /\ clean \in BOOLEAN

EmptyBoard ==
  [agents  |-> <<>>,
   events  |-> <<>>,
   active  |-> <<>>,
   archive |-> <<>>,
   leases  |-> [o \in Objective |-> None]]

Init ==
  /\ board = EmptyBoard
  /\ outcome = "returned"
  /\ clean = TRUE

----------------------------------------------------------------------------
(* register_agent *)

Registered(b) == DOMAIN b.agents

(* A registered agent keeps its lineage; naming another one is an error. *)
MayRegister(b, n, lineage) ==
  Strip[n] \in Registered(b) /\ lineage # None =>
    b.agents[Strip[n]].lineage = lineage

NewAgent(n, lineage, local) ==
  [lineage       |-> IF lineage = None THEN DefaultLineage[n] ELSE lineage,
   status        |-> "ACTIVE",
   local_state   |-> local,
   last_event_id |-> None,
   event_ids     |-> <<>>]

WithAgent(b, n, agent) ==
  [b EXCEPT !.agents = [m \in Registered(b) \union {n} |-> IF m = n THEN agent ELSE @[m]]]

AgentRegistered(b, n, lineage, local) ==
  IF Strip[n] \in Registered(b) THEN b
  ELSE WithAgent(b, Strip[n], NewAgent(Strip[n], lineage, local))

----------------------------------------------------------------------------
(* append_event *)

EventIds(b) == 0 .. Len(b.events) - 1

NewEvent(kind, sender) ==
  [kind |-> kind, sender |-> sender, recipients |-> {}, parents |-> {},
   nodes |-> {}, state |-> {}, claim |-> None]

(* sender_id is looked up as it is given, without strip(). *)
Accepts(b, event) ==
  /\ event.sender \in Registered(b)
  /\ event.kind \in EventType
  /\ event.recipients \subseteq Registered(b)
  /\ event.parents \subseteq EventIds(b)

(* A bug: the event that leaves the window is forgotten. *)
WindowForgets(b, id) ==
  LET active == Append(b.active, id)
  IN IF Len(active) > ActiveWindow
     THEN [b EXCEPT !.active = Tail(active)]
     ELSE [b EXCEPT !.active = active]

InWindow(b, id) ==
  LET active == Append(b.active, id)
  IN IF Len(active) > ActiveWindow
     THEN [b EXCEPT !.active = Tail(active), !.archive = Append(@, Head(active))]
     ELSE [b EXCEPT !.active = active]

(* A bug: a directed event is filed with the recipients too. *)
FiledWithAll(b, event, id) ==
  [b EXCEPT !.agents =
     [n \in Registered(b) |->
        IF n \in event.recipients \union {event.sender}
        THEN [@[n] EXCEPT !.last_event_id = id, !.event_ids = Append(@, id)]
        ELSE @[n]]]

Filed(b, event, id) ==
  WithAgent(b, event.sender,
            [b.agents[event.sender] EXCEPT !.last_event_id = id,
                                           !.event_ids = Append(@, id)])

Appended(b, event) ==
  LET id == Len(b.events)
  IN Filed(InWindow([b EXCEPT !.events = Append(@, event)], id), event, id)

----------------------------------------------------------------------------
(* The calls. A call returns or raises; `otherwise` is what it left of the
   board when it raised. *)

Ends(returns, after, otherwise) ==
  IF returns
  THEN board' = after /\ outcome' = "returned" /\ clean' = clean
  ELSE board' = otherwise /\ outcome' = "raised" /\ clean' = FALSE

Publishes(b, event) == Ends(Accepts(b, event), Appended(b, event), b)

Room == Len(board.events) < MaxEvents

(* Agents start without a local state and get one by sync or recover. *)
Register(n) ==
  \E lineage \in Lineage \union {None} :
    Ends(MayRegister(board, n, lineage),
         AgentRegistered(board, n, lineage, None),
         board)

(* What callers name as parents: nothing, the first event, one that is not
   there. *)
NamedParents == {{}, {0}, {Len(board.events)}}

(* And as recipients: nobody, all agents, one that is not known as well. *)
NamedRecipients == {{}, Registered(board), Name}

Message(kind, n, to, after) ==
  [NewEvent(kind, n) EXCEPT !.recipients = to, !.parents = after]

(* append_event takes any kind from its callers, those of the operations below
   too. It is called here without genome nodes, as emit() of the runtime does. *)
AppendEvent(n) ==
  /\ Room
  /\ \E kind \in Emitted, to \in NamedRecipients, after \in NamedParents :
       Publishes(board, Message(kind, n, to, after))

BindGenome(n) ==
  /\ Room
  /\ \E id \in GenomeId :
       Publishes(board, [NewEvent("GENOME_BIND", n) EXCEPT !.nodes = {id}])

Handoff(n) ==
  /\ Room
  /\ \E to \in NamedRecipients, after \in NamedParents :
       Publishes(board, Message("HANDOFF", n, to, after))

(* A KeyError before anything is changed. *)
UnknownAgent(n) ==
  /\ n \notin Registered(board)
  /\ Ends(FALSE, board, board)

(* A bug: recover reports the state and does not keep it. *)
WithStatusOnly(b, n, status, local) ==
  WithAgent(b, n, [b.agents[n] EXCEPT !.status = status])

WithState(b, n, status, local) ==
  WithAgent(b, n, [b.agents[n] EXCEPT !.status = status, !.local_state = local])

(* The agent's state is updated first; an unknown parent raises after that. *)
SyncLocalState(n) ==
  /\ Room
  /\ \/ UnknownAgent(n)
     \/ /\ n \in Registered(board)
        /\ \E delta \in Delta, after \in NamedParents :
             LET agent   == board.agents[n]
                 current == IF agent.local_state = None THEN delta
                            ELSE delta @@ agent.local_state
             IN Publishes(WithState(board, n, agent.status, current),
                          [NewEvent("STATE_DELTA", n) EXCEPT !.state = {current},
                                                            !.parents = after])

MarkStale(n) ==
  /\ Room
  /\ \/ UnknownAgent(n)
     \/ /\ n \in Registered(board)
        /\ Publishes(WithState(board, n, "STALE_KNOWN_ANCESTOR",
                               board.agents[n].local_state),
                     NewEvent("HEALTH", n))

Recover(n) ==
  /\ Room
  /\ \/ UnknownAgent(n)
     \/ /\ n \in Registered(board)
        /\ \E state \in Delta :
             Publishes(WithState(board, n, "RECOVERED", state),
                       [NewEvent("HEALTH", n) EXCEPT !.state = {state}])

----------------------------------------------------------------------------
(* claim_lease *)

(* A LEASE_STATE event that a caller had appended claims nothing. *)
Claims(b, n) == {i \in DOMAIN b.events : /\ b.events[i].claim # None
                                         /\ b.events[i].sender = n}

(* now_turn is the caller's. Callers are taken to count their own turns
   forward; the turns of two agents are not synchronised. *)
OwnTurns(n) == {t \in 0 .. MaxTurn :
                  \A i \in Claims(board, n) : board.events[i].claim.acquired <= t}

(* A bug: a lease is free in its last turn. *)
LeasedBeforeExpiry(b, n, o, now) ==
  /\ b.leases[o] # None
  /\ b.leases[o].expires > now
  /\ b.leases[o].owner # n

LeasedToAnother(b, n, o, now) ==
  /\ b.leases[o] # None
  /\ b.leases[o].expires >= now
  /\ b.leases[o].owner # n

ClaimLease(n) ==
  /\ Room
  /\ \/ UnknownAgent(n)
     \/ /\ n \in Registered(board)
        /\ \E o \in Objective, ttl \in Ttl, now \in OwnTurns(n) :
             LET claim == [objective |-> o, acquired |-> now, expires |-> now + ttl]
                 event == [NewEvent("LEASE_STATE", n) EXCEPT
                             !.claim   = claim,
                             !.parents = IF board.leases[o] = None THEN {}
                                         ELSE {board.leases[o].event}]
                 lease == [owner |-> n, expires |-> claim.expires,
                           event |-> Len(board.events)]
             IN Ends(/\ ttl > 0
                     /\ ~LeasedToAnother(board, n, o, now)
                     /\ Accepts(board, event),
                     [Appended(board, event) EXCEPT !.leases = [@ EXCEPT ![o] = lease]],
                     board)

Next ==
  \E n \in Name :
    \/ Register(n) \/ AppendEvent(n) \/ BindGenome(n) \/ Handoff(n)
    \/ SyncLocalState(n) \/ MarkStale(n) \/ Recover(n) \/ ClaimLease(n)

Spec == Init /\ [][Next]_vars

----------------------------------------------------------------------------
(* Properties. *)

(* Nothing leaves the blackboard: archive and window together are all event
   ids in order, and the window stays within its bound. *)
WindowIsLossless ==
  /\ board.archive \o board.active = [i \in 1 .. Len(board.events) |-> i - 1]
  /\ Len(board.active) <= ActiveWindow

(* The event_ids of an agent are exactly the events it sent, in order, and
   last_event_id is the last of them, however calls of others interleave. *)
AgentsKeepTheirOwnLog ==
  \A n \in Registered(board) :
    LET agent == board.agents[n]
        sent  == {i - 1 : i \in {j \in DOMAIN board.events : board.events[j].sender = n}}
    IN /\ ToSet(agent.event_ids) = sent
       /\ \A i, j \in DOMAIN agent.event_ids : i < j => agent.event_ids[i] < agent.event_ids[j]
       /\ agent.last_event_id = IF sent = {} THEN None ELSE Last(agent.event_ids)

(* Work on one objective is never leased to two agents for the same turn:
   the last claim of a tenure ends before the tenure of any other agent that
   follows it begins, however far apart the agents' turns are. *)
TenuresAreDisjoint ==
  \A i, j \in DOMAIN board.events :
    LET first == board.events[i]
        later == board.events[j]
    IN /\ i < j
       /\ None \notin {first.claim, later.claim}
       /\ first.claim.objective = later.claim.objective
       /\ first.sender # later.sender
       /\ \A k \in i + 1 .. j : ~ /\ board.events[k].claim # None
                                  /\ board.events[k].sender = first.sender
                                  /\ board.events[k].claim.objective
                                       = first.claim.objective
       => first.claim.expires < later.claim.acquired

(* As long as no call has raised, the local state of an agent is the one it
   last published: the blackboard knows what the agent knows. *)
LocalStateIsPublished ==
  clean =>
    \A n \in Registered(board) :
      LET published == {i \in DOMAIN board.events :
                          /\ board.events[i].sender = n
                          /\ board.events[i].state # {}}
      IN published # {} =>
           \E i \in published :
             /\ \A j \in published : j <= i
             /\ board.events[i].state = {board.agents[n].local_state}
=============================================================================
