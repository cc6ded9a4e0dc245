---------------------------- MODULE CursorChannel ----------------------------
(***************************************************************************)
(* The native cursor, src/shmem/cursor.rs: shapes in three shared slots    *)
(* claimed by compare-and-swap, positions in messages, and the mailbox the *)
(* consumer reads.  Shape and position are sequenced separately: a shape   *)
(* carries the position it was made at, which may be older than one that   *)
(* was already accepted.                                                   *)
(***************************************************************************)
EXTENDS Integers, FiniteSets

CONSTANT MaxCursor   \* bound on shapes and positions

ASSUME CursorAssumption == MaxCursor \in Nat

CursorSlots == 1..3

VARIABLES shapes,    \* the slots of the mapping: state, generation, position
          pointer,   \* QEMU: shapes and positions made so far
          mapping,   \* CursorReceiver.mapping
          mailbox,   \* CursorMailbox
          look       \* latest_shape in progress, a set of at most one

cursor == <<shapes, pointer, mapping, mailbox, look>>

NoMapping == [there |-> FALSE, shape |-> 0, position |-> 0]
FreeShapes == [s \in CursorSlots |-> [state |-> "free", generation |-> 0, position |-> 0]]
CursorInit ==
    /\ shapes = FreeShapes /\ pointer = [shape |-> 0, position |-> 0]
    /\ mapping = NoMapping /\ look = {}
    /\ mailbox = [there |-> FALSE, shape |-> 0, position |-> 0, enabled |-> FALSE,
                  revision |-> 0]

(* QEMU publishes a shape in a slot that is free or unread.                  *)
PublishShape == \E s \in CursorSlots :
    /\ shapes[s].state \in {"free", "ready"} /\ pointer.shape < MaxCursor
    /\ pointer' = [pointer EXCEPT !.shape = @ + 1]
    /\ shapes' = [shapes EXCEPT ![s] = [state |-> "ready", generation |-> pointer.shape + 1,
                                        position |-> pointer.position]]
    /\ UNCHANGED <<mapping, mailbox, look>>

(* 'C': a new mapping; the mailbox starts over with a later revision.        *)
ReceiveMapping ==
    /\ mapping' = [NoMapping EXCEPT !.there = TRUE]
    /\ mailbox' = [there |-> TRUE, shape |-> 0, position |-> 0, enabled |-> FALSE,
                   revision |-> mailbox.revision + 1]
    /\ UNCHANGED <<shapes, pointer, look>>

(* 'S': latest_shape, one slot a step.  A slot is claimed, decoded if it is  *)
(* newer than what was found so far, and given back.                         *)
LookBegin ==
    /\ look' = {[next |-> 1, generation |-> mapping.shape, position |-> 0]}
    /\ UNCHANGED <<shapes, pointer, mapping, mailbox>>

Newer(generation, than) == generation > than
Moves(position) == position > mapping.position

LookSlot == \E k \in look :
    /\ k.next \in CursorSlots
    /\ LET s == shapes[k.next]
           ready == s.state = "ready"
       IN /\ shapes' = IF ready THEN [shapes EXCEPT ![k.next].state = "free"] ELSE shapes
          /\ look' = {IF ready /\ Newer(s.generation, k.generation)
                        THEN [next |-> k.next + 1, generation |-> s.generation,
                              position |-> s.position]
                        ELSE [k EXCEPT !.next = @ + 1]}
    /\ UNCHANGED <<pointer, mapping, mailbox>>

LookEnd == \E k \in look :
    /\ k.next \notin CursorSlots
    /\ look' = {}
    /\ IF k.generation = mapping.shape THEN UNCHANGED <<mapping, mailbox>>
       ELSE LET moved == Moves(k.position)
            IN /\ mailbox' = [mailbox EXCEPT !.shape = k.generation, !.revision = @ + 1,
                                             !.position = IF moved THEN k.position ELSE @,
                                             !.enabled = @ \/ moved]
               /\ mapping' = [mapping EXCEPT !.shape = k.generation,
                                             !.position = IF moved THEN k.position ELSE @]
    /\ UNCHANGED <<shapes, pointer>>

(* 'P'.                                                                      *)
ReceivePosition(sequence) ==
    /\ IF ~Moves(sequence) THEN UNCHANGED <<mapping, mailbox>>
       ELSE /\ mapping' = [mapping EXCEPT !.position = sequence]
            /\ mailbox' = [mailbox EXCEPT !.position = sequence, !.enabled = TRUE,
                                          !.revision = @ + 1]
    /\ UNCHANGED <<shapes, pointer, look>>

Hidden(m) == IF m.there THEN [m EXCEPT !.enabled = FALSE, !.revision = @ + 1] ELSE m

CursorDisconnect ==
    /\ mapping' = NoMapping /\ mailbox' = Hidden(mailbox) /\ look' = {}
    /\ UNCHANGED <<shapes, pointer>>
=============================================================================
