------------------------------- MODULE FaceBus -------------------------------
(***************************************************************************)
(* One round of the face bus (tools/brain_five_face_bus.py; the portfolio  *)
(* bus, tools/portfolio_genesis_face_bus.py, is the same protocol over     *)
(* another list of repositories). Each face observes its repository and    *)
(* sends a packet to the next one of a ring; route sorts the packets into  *)
(* mailboxes, receive turns a mailbox into an ack, and witness states      *)
(* that every packet was delivered.                                        *)
(*                                                                         *)
(* The commands are processes of their own that meet in directories of     *)
(* files: files of earlier attempts lie beside those of this one, some are *)
(* missing, bear the name of another face or were cut off in writing. A    *)
(* packet is a function of the source and the commit, an ack one of the    *)
(* packet, and both are compared whole: a digest adds nothing here.        *)
(***************************************************************************)
EXTENDS Naturals, FiniteSets

CONSTANTS
  Faces,       (* number of faces: they are 0 .. Faces - 1, in ring order  *)
  Attempt,     (* subdirectories of inbox and acks                         *)
  MaxCommits,  (* bound: commits of a repository                           *)
  MaxFiles,    (* bound: files in inbox, and in acks                       *)
  MaxFaults    (* bound: files that are lost, misnamed or cut off          *)

ASSUME Ring == Faces \in Nat \ {0, 1}

VARIABLES
  head,        (* the commit that each repository is at                    *)
  inbox,       (* files of packets: [at : Attempt, name : Face, holds]     *)
  mailbox,     (* the packet in each mailbox file, NoPacket or Torn        *)
  ackFiles,    (* files of acks                                            *)
  receipts,    (* the packets that witness stated to be delivered          *)
  opened,      (* history: the packets that their recipients opened        *)
  faults       (* history: how many faults there were                      *)

busVars == <<head, inbox, mailbox, ackFiles, receipts, opened, faults>>

Face == 0 .. Faces - 1

Peer(f) == (f + 1) % Faces

MakePacket(f, commit) == [from |-> f, to |-> Peer(f), sha |-> commit]

AckFor(packet) == [from |-> packet.to, to |-> packet.from, sha |-> packet.sha]

Nobody == [from |-> Faces, to |-> Faces, sha |-> 0]     (* no such face *)
NoPacket == [Nobody EXCEPT !.sha = 1]
Torn == [Nobody EXCEPT !.sha = 2]                       (* raises ValueError *)

BusInit ==
  /\ head = [f \in Face |-> 1]
  /\ inbox = {} /\ mailbox = [f \in Face |-> NoPacket] /\ ackFiles = {}
  /\ receipts = {} /\ opened = {} /\ faults = 0

Commit ==
  /\ \E f \in Face : head[f] < MaxCommits /\ head' = [head EXCEPT ![f] = @ + 1]
  /\ UNCHANGED <<inbox, mailbox, ackFiles, receipts, opened, faults>>

(* A file written over the one of the same name in the same directory. *)
Written(files, file) ==
  {g \in files : g.at # file.at \/ g.name # file.name} \union {file}

(* observe *)
Observe(f) ==
  /\ \E a \in Attempt :
       inbox' = Written(inbox, [at |-> a, name |-> f, holds |-> MakePacket(f, head[f])])
  /\ Cardinality(inbox') <= MaxFiles
  /\ UNCHANGED <<head, mailbox, ackFiles, receipts, opened, faults>>

(* load_messages: one packet of every face, under its name, and nothing else. *)
Collects(files) ==
  /\ \A g \in files : g.holds.from = g.name
  /\ \A f \in Face : Cardinality({g \in files : g.name = f}) = 1

Packets == {g.holds : g \in inbox}

(* route writes the mailboxes one after the other and may be cut off between
   two, or in one of them. *)
Route ==
  /\ Collects(inbox)
  /\ LET mail(f) == CHOOSE p \in Packets : p.to = f
     IN \/ /\ mailbox' = [f \in Face |-> mail(f)]
           /\ UNCHANGED faults
        \/ /\ faults < MaxFaults /\ faults' = faults + 1
           /\ \E n \in Face, cut \in BOOLEAN :
                mailbox' = [f \in Face |-> IF f < n THEN mail(f)
                                           ELSE IF f = n /\ cut THEN Torn
                                           ELSE mailbox[f]]
  /\ UNCHANGED <<head, inbox, ackFiles, receipts, opened>>

(* receive: the mailbox may be of an earlier round. *)
Receive(f) ==
  /\ mailbox[f].to = f
  /\ \E a \in Attempt :
       ackFiles' = Written(ackFiles, [at |-> a, name |-> f, holds |-> AckFor(mailbox[f])])
  /\ Cardinality(ackFiles') <= MaxFiles
  /\ opened' = opened \union {mailbox[f]}
  /\ UNCHANGED <<head, inbox, mailbox, receipts, faults>>

(* A bug: an ack counts whatever commit it is about. *)
AcknowledgedByFace(packets) ==
  /\ \A g \in ackFiles : g.holds.from = g.name
  /\ \A p \in packets : Cardinality({g \in ackFiles : g.name = p.to}) = 1

(* witness: one ack of every recipient, and no other. *)
Acknowledged(packets) ==
  /\ \A g \in ackFiles :
       g.holds.from = g.name /\ \E p \in packets : g.holds = AckFor(p)
  /\ \A p \in packets : Cardinality({g \in ackFiles : g.name = p.to}) = 1

Witness ==
  /\ Collects(inbox) /\ Acknowledged(Packets)
  /\ receipts' = Packets
  /\ UNCHANGED <<head, inbox, mailbox, ackFiles, opened, faults>>

(* What happens to one of the files of a directory. *)
Damaged(files) ==
  UNION {LET others == files \ {g}
         IN {others,
             others \union {[g EXCEPT !.holds = Torn]},
             Written(others, [g EXCEPT !.name = Peer(g.name)])} : g \in files}

Fault ==
  /\ faults < MaxFaults /\ faults' = faults + 1
  /\ \/ inbox' \in Damaged(inbox) /\ UNCHANGED ackFiles
     \/ ackFiles' \in Damaged(ackFiles) /\ UNCHANGED inbox
  /\ UNCHANGED <<head, mailbox, receipts, opened>>

BusNext ==
  \/ Commit \/ Route \/ Witness \/ Fault
  \/ \E f \in Face : Observe(f) \/ Receive(f)

BusSpec == BusInit /\ [][BusNext]_busVars

----------------------------------------------------------------------------
(* Properties. *)

(* "FIVE_FACES_DELIVERED_AND_ACKED": what witness states is true of exactly
   the packets that its receipt lists, one of every face, although observe,
   route and receive may have run again since, over files of several rounds. *)
WitnessedIsDelivered ==
  receipts # {} =>
    receipts \subseteq opened /\ {p.from : p \in receipts} = Face
=============================================================================
