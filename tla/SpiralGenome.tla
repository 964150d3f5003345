---------------------------- MODULE SpiralGenome ----------------------------
(***************************************************************************)
(* The lifecycle of learning entities: SwarmSpiralController with its      *)
(* SpiralLedgers and PreservingWindow (tools/demiurge_spiral_swarm.py) and *)
(* the genealogy they share, SwarmGenomeLedger                             *)
(* (tools/swarm_genome_ledger.py).                                         *)
(*                                                                         *)
(* Every operation ends in integrate(), one synchronous call that appends  *)
(* to four places in turn: the entity's ledger, the genome, the frontier   *)
(* window and the chronicle. The genome may refuse with a ValueError after *)
(* the ledger has been written, and nothing undoes that write: the same    *)
(* action therefore ends in one of two ways.                               *)
(***************************************************************************)
EXTENDS Naturals, FiniteSets, SequencesExt

CONSTANTS
  Entity,         (* entity ids                                            *)
  Body,           (* contents of a state, apart from its status            *)
  WorkingWindow,  (* size of the frontier window                           *)
  MaxTurns,       (* bound on the turns of all entities together           *)
  Nil             (* Python's None                                         *)

ASSUME WorkingWindowAssumption == WorkingWindow \in Nat \ {0}
ASSUME MaxTurnsAssumption      == MaxTurns \in Nat

VARIABLES
  ledgers,    (* the turns of each entity; an entity without turns has none *)
  nodes,      (* genome nodes by id                                        *)
  children,   (* ids of the children of each node                          *)
  by_entity,  (* ids of the nodes of each entity, its line                 *)
  frontier,   (* the active part of the window                             *)
  archive,    (* the part of the window that overflowed                    *)
  chronicle   (* all events, in the order of integration                   *)

genome == <<nodes, children, by_entity>>
spiralVars == <<ledgers, genome, frontier, archive, chronicle>>

(* The states that entities report: a body, and whether mark_stale wrote its
   status over it. The default of mark_stale, {"status": "KNOWN"}, has no
   body. *)
State == [body : Body \union {Nil}, stale : BOOLEAN]

ASSUME NilAssumption == Nil \notin State

Fresh(body) == [body |-> body, stale |-> FALSE]

(* A fingerprint is a digest of a body that holds the entity and the index of
   the turn, a node id a digest of those two and the fingerprint. Both are
   modelled by the pair, which two turns never share. *)
TurnId == [entity : Entity, turn : Nat]

Turn == [turn      : Nat,
         parent    : TurnId \union {Nil},
         candidate : State,
         active    : State \union {Nil},
         promoted  : BOOLEAN]

Node == [spiral  : TurnId,
         primary : TurnId \union {Nil},
         parents : Seq(TurnId)]

SpiralTypeOK ==
  /\ ledgers \in [Entity -> Seq(Turn)]
  /\ DOMAIN nodes \subseteq TurnId
  /\ nodes \in [DOMAIN nodes -> Node]
  /\ children \in [DOMAIN nodes -> Seq(DOMAIN nodes)]
  /\ by_entity \in [Entity -> Seq(DOMAIN nodes)]
  /\ {frontier, archive, chronicle} \subseteq Seq(DOMAIN nodes)

SpiralInit ==
  /\ ledgers = [e \in Entity |-> <<>>]
  /\ nodes = <<>>
  /\ children = <<>>
  /\ by_entity = [e \in Entity |-> <<>>]
  /\ frontier = <<>>
  /\ archive = <<>>
  /\ chronicle = <<>>

----------------------------------------------------------------------------
(* SpiralLedger. *)

ActiveState(e) == IF ledgers[e] = <<>> THEN Nil ELSE Last(ledgers[e]).active

IdOf(e, turn) == [entity |-> e, turn |-> turn.turn]

ParentFingerprint(e) ==
  IF ledgers[e] = <<>> THEN Nil ELSE IdOf(e, Last(ledgers[e]))

(* A bug: the first turn of an entity needs promotion like any other. *)
ActiveAfterPromotion(e, candidate, promoted) ==
  IF promoted THEN candidate ELSE ActiveState(e)

ActiveAfter(e, candidate, promoted) ==
  IF promoted \/ ActiveState(e) = Nil THEN candidate ELSE ActiveState(e)

NewTurn(e, candidate, promoted) ==
  [turn      |-> Len(ledgers[e]),
   parent    |-> ParentFingerprint(e),
   candidate |-> candidate,
   active    |-> ActiveAfter(e, candidate, promoted),
   promoted  |-> promoted]

----------------------------------------------------------------------------
(* SwarmGenomeLedger.register_turn. *)

(* A bug: the line may have gaps. *)
RegistrableWithGaps(e, turn, extra) ==
  /\ turn.turn = 0 => turn.parent = Nil
  /\ turn.turn > 0 => by_entity[e] # <<>>
  /\ ToSet(extra) \subseteq DOMAIN nodes

Registrable(e, turn, extra) ==
  /\ turn.turn = 0 => turn.parent = Nil
  /\ turn.turn > 0 => /\ Len(by_entity[e]) = turn.turn
                      /\ nodes[Last(by_entity[e])].spiral = turn.parent
  /\ ToSet(extra) \subseteq DOMAIN nodes

Primary(e, turn) == IF turn.turn = 0 THEN Nil ELSE Last(by_entity[e])

AppendNew(seq, x) == IF Contains(seq, x) THEN seq ELSE Append(seq, x)

(* The primary parent first, then the extra ones that are not there yet. *)
Parents(e, turn, extra) ==
  LET parents[i \in 0 .. Len(extra)] ==
        IF i = 0 THEN IF turn.turn = 0 THEN <<>> ELSE <<Primary(e, turn)>>
        ELSE AppendNew(parents[i - 1], extra[i])
  IN parents[Len(extra)]

(* A bug: only the primary parent learns of its child. *)
ChildrenOfPrimary(id, primary, parents) ==
  [n \in DOMAIN nodes \union {id} |->
     IF n = id THEN <<>>
     ELSE IF n = primary THEN Append(children[n], id)
     ELSE children[n]]

ChildrenWith(id, primary, parents) ==
  [n \in DOMAIN nodes \union {id} |->
     IF n = id THEN <<>>
     ELSE IF Contains(parents, n) THEN Append(children[n], id)
     ELSE children[n]]

RegisterTurn(e, turn, extra) ==
  LET id      == IdOf(e, turn)
      parents == Parents(e, turn, extra)
      node    == [spiral |-> id, primary |-> Primary(e, turn), parents |-> parents]
  IN /\ nodes' = [n \in DOMAIN nodes \union {id} |-> IF n = id THEN node ELSE nodes[n]]
     /\ children' = ChildrenWith(id, Primary(e, turn), parents)
     /\ by_entity' = [by_entity EXCEPT ![e] = Append(@, id)]

----------------------------------------------------------------------------
(* SwarmSpiralController. *)

(* A bug: the oldest event is dropped. *)
WindowDrops(event) ==
  /\ frontier' = IF Len(frontier) >= WorkingWindow
                 THEN Append(Tail(frontier), event)
                 ELSE Append(frontier, event)
  /\ UNCHANGED archive

(* PreservingWindow.append *)
WindowAppend(event) ==
  IF Len(frontier) >= WorkingWindow
  THEN /\ archive' = Append(archive, Head(frontier))
       /\ frontier' = Append(Tail(frontier), event)
  ELSE /\ frontier' = Append(frontier, event)
       /\ UNCHANGED archive

Integrate(e, candidate, promoted, extra) ==
  LET turn == NewTurn(e, candidate, promoted)
  IN /\ ledgers' = [ledgers EXCEPT ![e] = Append(@, turn)]
     /\ IF Registrable(e, turn, extra)
        THEN /\ RegisterTurn(e, turn, extra)
             /\ WindowAppend(IdOf(e, turn))
             /\ chronicle' = Append(chronicle, IdOf(e, turn))
        ELSE UNCHANGED <<genome, frontier, archive, chronicle>>

TurnsLeft == FoldFunction(LAMBDA turns, n : n + Len(turns), 0, ledgers) < MaxTurns

IntegrateTurn(e) ==
  /\ TurnsLeft
  /\ \E b \in Body, promoted \in BOOLEAN :
       Integrate(e, Fresh(b), promoted, <<>>)

RecordFailure(e) ==
  /\ TurnsLeft
  /\ \E b \in Body : Integrate(e, Fresh(b), FALSE, <<>>)

RecoverEntity(e) ==
  /\ TurnsLeft
  /\ \E b \in Body : Integrate(e, Fresh(b), TRUE, <<>>)

(* The parents are named by the caller: up to two, registered or not. *)
Derive(e) ==
  LET unknown == [entity |-> e, turn |-> MaxTurns]
      named   == DOMAIN nodes \union {unknown}
  IN /\ TurnsLeft
     /\ \E b \in Body, p \in named, q \in named :
          Integrate(e, Fresh(b), TRUE, IF p = q THEN <<p>> ELSE <<p, q>>)

(* The state that stays known is the active one with another status. *)
MarkEntityStale(e) ==
  LET previous == IF ActiveState(e) = Nil THEN Fresh(Nil) ELSE ActiveState(e)
  IN /\ TurnsLeft
     /\ Integrate(e, [previous EXCEPT !.stale = TRUE], TRUE, <<>>)

SpiralNext ==
  \E e \in Entity :
    \/ IntegrateTurn(e) \/ RecordFailure(e) \/ RecoverEntity(e)
    \/ Derive(e) \/ MarkEntityStale(e)

SpiralSpec == SpiralInit /\ [][SpiralNext]_spiralVars

----------------------------------------------------------------------------
(* Traversals of the genealogy: what the breadth-first searches of
   ancestors() and descendants() collect. *)

Reachable(links, start) ==
  LET reached[k \in 0 .. Cardinality(DOMAIN nodes)] ==
        IF k = 0 THEN links[start]
        ELSE reached[k - 1] \union UNION {links[n] : n \in reached[k - 1]}
  IN reached[Cardinality(DOMAIN nodes)]

Ancestors(id)   == Reachable([n \in DOMAIN nodes |-> ToSet(nodes[n].parents)], id)
Descendants(id) == Reachable([n \in DOMAIN nodes |-> ToSet(children[n])], id)

----------------------------------------------------------------------------
(* Properties. *)

(* The line of an entity in the genome is a prefix of its ledger, each node
   with the one before it as primary parent, whatever calls raised: a turn
   that the genome refused is followed by no turn that it accepts, so ancestry
   never skips one. *)
GenomeLineIsLedgerPrefix ==
  \A e \in Entity :
    /\ Len(by_entity[e]) <= Len(ledgers[e])
    /\ \A i \in DOMAIN by_entity[e] :
         /\ by_entity[e][i] = IdOf(e, ledgers[e][i])
         /\ nodes[by_entity[e][i]].primary = IF i = 1 THEN Nil ELSE by_entity[e][i - 1]

(* "ACTIVE_FRONTIER_MAY_CHANGE_WITHOUT_ERASING_LINEAGE": archive and frontier
   together are the chronicle in its order, the frontier stays within its
   bound, and the chronicle interleaves the entities' lines: it has exactly
   their nodes, those of one entity in the order of their turns. *)
ChronicleIsLossless ==
  /\ archive \o frontier = chronicle
  /\ Len(frontier) <= WorkingWindow
  /\ ToSet(chronicle) = UNION {ToSet(by_entity[e]) : e \in Entity}
  /\ \A i, j \in DOMAIN chronicle :
       i < j /\ chronicle[i].entity = chronicle[j].entity
         => chronicle[i].turn < chronicle[j].turn

(* "ANCESTOR_AND_DESCENDANT_TRAVERSAL_ARE_BIDIRECTIONALLY_INDEXED": the two
   traversals are inverse to each other over any derivation, no node is its
   own ancestor, and no child is listed twice. *)
GenealogyIsSound ==
  \A n \in DOMAIN nodes :
    /\ n \notin Ancestors(n)
    /\ \A a \in DOMAIN nodes : a \in Ancestors(n) <=> n \in Descendants(a)
    /\ IsInjective(children[n])

(* Failures leave the healthy state active: after any mixture of failed,
   promoted and refused turns the active state is the candidate of the last
   promoted turn, or of the first turn when none was promoted. *)
ActiveStateIsLastPromoted ==
  \A e \in Entity :
    LET promoted == {i \in DOMAIN ledgers[e] : i = 1 \/ ledgers[e][i].promoted}
    IN ledgers[e] # <<>> =>
         \E i \in promoted :
           /\ \A j \in promoted : j <= i
           /\ ActiveState(e) = ledgers[e][i].candidate

(* "EVERY_SPIRAL_TURN_HAS_GENEALOGY". The code does not keep it: a derivation
   from a parent that is not registered raises after the ledger was written. *)
EverySpiralTurnHasGenealogy ==
  \A e \in Entity : Len(ledgers[e]) = Len(by_entity[e])
=============================================================================
