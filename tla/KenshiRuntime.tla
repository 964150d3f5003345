--------------------------- MODULE KenshiRuntime ---------------------------
(***************************************************************************)
(* KenshiSpiralSwarmRuntime (tools/kenshi_swarm_runtime.py): one           *)
(* Blackboard and one SpiralGenome behind one interface. A call of the     *)
(* runtime makes several calls of the two parts; each of them may raise,   *)
(* and what the earlier ones did stays. The binding rule of                *)
(* .janus/KENSHI_SWARM_FOUNDATION.json is the order of those calls:        *)
(* BLACKBOARD_EVENT -> LOCAL_WORK -> SPIRAL_TURN -> GENOME_NODE ->         *)
(* CAUSAL_ACK/GENOME_BIND.                                                 *)
(***************************************************************************)
EXTENDS Naturals, FiniteSets, SequencesExt

CONSTANTS
  Name, Strip, Lineage, DefaultLineage, ActiveWindow, MaxEvents, Emitted,
  Body, WorkingWindow, MaxTurns, None,
  MaxMessages   (* bound on the events that agents emit or hand off        *)

ASSUME StripAssumption ==
  /\ Strip \in [Name -> Name]
  /\ \A n \in Name : Strip[Strip[n]] = Strip[n]

VARIABLES
  board, outcome, clean,
  ledgers, nodes, children, by_entity, frontier, archive, chronicle

spiral == <<ledgers, nodes, children, by_entity, frontier, archive, chronicle>>
vars == <<board, outcome, clean, spiral>>

Spiral == INSTANCE SpiralGenome WITH Entity <- Name, Nil <- None

(* The runtime's own calls give no local state, and claim no leases. *)
Board == INSTANCE Blackboard
           WITH GenomeId <- Spiral!TurnId, Delta <- {}, Objective <- {},
                Ttl <- {}, MaxTurn <- 0

Init == Spiral!SpiralInit /\ Board!Init

----------------------------------------------------------------------------
Room == Spiral!TurnsLeft /\ Len(board.events) + 2 <= MaxEvents

(* integrate() returned: the node is the last of the entity's line. *)
Integrated(n) == by_entity'[n] # by_entity[n]

(* The event that announces a turn, and the binding that follows it. *)
Announcement(n, kind, triggers) ==
  [Board!NewEvent(kind, n) EXCEPT !.nodes = {Last(by_entity'[n])},
                                  !.parents = triggers]

Binding(n, parents) ==
  [Board!NewEvent("GENOME_BIND", n) EXCEPT !.nodes = {Last(by_entity'[n])},
                                           !.parents = parents]

(* A bug: the binding names the triggers and not the announcement. *)
BoundToTriggers(b, n, kind, triggers) ==
  LET announcement == Announcement(n, kind, triggers)
  IN Board!Ends(Board!Accepts(b, announcement),
                Board!Appended(Board!Appended(b, announcement), Binding(n, triggers)),
                b)

(* A bug: the exception of an agent that is not known is swallowed. *)
AnnouncedIfKnown(b, n, kind, triggers) ==
  LET announcement == Announcement(n, kind, triggers)
  IN Board!Ends(TRUE,
                IF Board!Accepts(b, announcement)
                THEN Board!Appended(Board!Appended(b, announcement),
                                    Binding(n, {Len(b.events)}))
                ELSE b,
                b)

Announced(b, n, kind, triggers) ==
  LET announcement == Announcement(n, kind, triggers)
  IN Board!Ends(Board!Accepts(b, announcement),
                Board!Appended(Board!Appended(b, announcement),
                               Binding(n, {Len(b.events)})),
                b)

(* What follows when integrate() has ended: it raised, or its turn is
   announced, which may raise in its turn. *)
TurnEnds(b, n, kind, triggers) ==
  IF Integrated(n) THEN Announced(b, n, kind, triggers)
  ELSE Board!Ends(FALSE, b, b)

(* The blackboard strips the name, the spiral takes it as it is. An entity
   that has turns already gets no further one. *)
RegisterAgent(n) ==
  \E lineage \in Lineage \union {None} :
    LET b == Board!AgentRegistered(board, n, lineage, None)
    IN \/ /\ ~Board!MayRegister(board, n, lineage)
          /\ Board!Ends(FALSE, board, board)
          /\ UNCHANGED spiral
       \/ /\ Board!MayRegister(board, n, lineage)
          /\ ledgers[n] # <<>>
          /\ Board!Ends(by_entity[n] # <<>>, b, b)
          /\ UNCHANGED spiral
       \/ /\ Board!MayRegister(board, n, lineage)
          /\ ledgers[n] = <<>>
          /\ Room
          /\ \E body \in Body :
               Spiral!Integrate(n, Spiral!Fresh(body), TRUE, <<>>)
          /\ TurnEnds(b, n, "STATE_DELTA", {})

(* What callers emit or hand off names no node of the genome. *)
MayMessage == Len(SelectSeq(board.events, LAMBDA e : e.nodes = {})) < MaxMessages

(* Any kind of event may be emitted, the runtime's own kinds too. *)
Emit(n) == MayMessage /\ Board!AppendEvent(n) /\ UNCHANGED spiral

Handoff(n) == MayMessage /\ Board!Handoff(n) /\ UNCHANGED spiral

(* Unknown triggers raise before anything is done; an unknown agent raises
   when its turn has been taken. *)
Commit(n, candidate, promoted, triggers) ==
  /\ Room
  /\ IF triggers \subseteq Board!EventIds(board)
     THEN /\ Spiral!Integrate(n, candidate, promoted, <<>>)
          /\ TurnEnds(board, n, "CAUSAL_ACK", triggers)
     ELSE /\ Board!Ends(FALSE, board, board)
          /\ UNCHANGED spiral

CommitTurn(n) ==
  \E body \in Body, triggers \in Board!NamedParents :
    Commit(n, Spiral!Fresh(body), TRUE, triggers)

RecordFailure(n) ==
  \E body \in Body, triggers \in Board!NamedParents :
    Commit(n, Spiral!Fresh(body), FALSE, triggers)

Next ==
  \E n \in Name :
    \/ RegisterAgent(n) \/ Emit(n) \/ Handoff(n)
    \/ CommitTurn(n) \/ RecordFailure(n)

Spec == Init /\ [][Next]_vars

----------------------------------------------------------------------------
(* Properties. *)

(* Whatever raised, the genome holds each turn of the chronicle once and
   follows the ledgers, and every agent is known to the spiral, under its own
   name or one with blanks around it. As long as no call has raised, validate()
   passes: the genome has every turn, and blackboard and spiral know the same
   identities. The order of the calls of the two parts is the only thing that
   keeps them equal, and a name with blanks around it must raise before they
   differ. *)
ValidateHolds ==
  /\ Cardinality(DOMAIN nodes) = Len(chronicle)
  /\ Spiral!GenomeLineIsLedgerPrefix
  /\ Board!Registered(board) \subseteq {Strip[n] : n \in {m \in Name : ledgers[m] # <<>>}}
  /\ clean => /\ Spiral!EverySpiralTurnHasGenealogy
              /\ Board!Registered(board) = {n \in Name : ledgers[n] # <<>>}

(* A GENOME_BIND of bind_genome names its node; one that a caller emitted
   names none, and binds nothing. *)
IsBinding(event) == event.kind = "GENOME_BIND" /\ event.nodes # {}

Bindings(n) ==
  {i \in DOMAIN board.events : board.events[i].sender = n /\ IsBinding(board.events[i])}

(* The bindings on the blackboard follow the genome, whatever agents emit in
   between: those of an agent name the nodes of its own line, in order and
   without a gap up to the last one; only turns taken before the agent was
   known have none, and none are missing when no call has raised. Each binding
   comes right after the event that announced the turn and has it as its
   parent. *)
BindingsFollowTheLine ==
  /\ \A n \in Board!Registered(board) :
       LET line     == by_entity[n]
           later(i) == Cardinality({j \in Bindings(n) : j > i})
       IN /\ Cardinality(Bindings(n)) <= Len(line)
          /\ clean => Cardinality(Bindings(n)) = Len(line)
          /\ \A i \in Bindings(n) : board.events[i].nodes = {line[Len(line) - later(i)]}
  /\ \A i \in DOMAIN board.events :
       IsBinding(board.events[i]) =>
         /\ i > 1
         /\ board.events[i - 1].kind \in {"STATE_DELTA", "CAUSAL_ACK"}
         /\ board.events[i - 1].nodes = board.events[i].nodes
         /\ board.events[i].parents = {i - 2}
=============================================================================
