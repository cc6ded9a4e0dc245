---------------------------- MODULE ShmemDisplay ----------------------------
(***************************************************************************)
(* The shared-memory display, src/shmem/display.rs.  A mapping holds three *)
(* frame slots whose state words QEMU and the consumer change by           *)
(* compare-and-swap.  QEMU writes a slot that is free or still unread; the *)
(* consumer claims unread slots one after another, keeps the newest frame  *)
(* and gives the others back.  A slot is free again when the last owner of *)
(* its frame drops it, whether or not its display still exists.            *)
(***************************************************************************)
EXTENDS Integers, FiniteSets

CONSTANTS MaxMaps,    \* bound on mappings (display epochs)
          MaxFrames,  \* bound on frames
          MaxLeases   \* bound on frames leased at a time

ASSUME DisplayAssumption == MaxMaps \in Nat \ {0} /\ {MaxFrames, MaxLeases} \subseteq Nat

Slots == 1..3
Maps == 1..MaxMaps

VARIABLES maps,      \* map -> its slots and its frame counter
          writer,    \* QEMU: newest map, slot being written, frames published
          received,  \* the display the worker received and nobody polled yet
          view,      \* the ShmemDisplay the consumer polled
          scan,      \* acquire_latest in progress, a set of at most one
          held       \* frame leases, <<map, slot>>

display == <<maps, writer, received, view, scan, held>>

NoView == [map |-> 0, current |-> 0, last_frame |-> 0, notified |-> 0]
DisplayInit ==
    /\ maps = [m \in Maps |-> [slot |-> [s \in Slots |-> [state |-> "free", generation |-> 0]],
                               frame_counter |-> 0]]
    /\ writer = [map |-> 0, slot |-> 0, frames |-> 0]
    /\ received = 0 /\ view = NoView /\ scan = {} /\ held = {}

Generation(m, s) == maps[m].slot[s].generation

(* Owners of frames, were the view v, the scan c and the leases h.           *)
OwnersOf(v, c, h) ==
    h \union (IF v.current # 0 THEN {<<v.map, v.current>>} ELSE {})
      \union {<<v.map, k.best>> : k \in {x \in c : x.best # 0}}

(* The words after owners changed: what nobody owns any more is free.  The   *)
(* faulty variant forgets leases.                                            *)
DroppingLeased(M, v, c, h) ==
    LET gone == OwnersOf(view, scan, held) \ OwnersOf(v, c, {})
    IN [m \in Maps |-> [M[m] EXCEPT !.slot = [s \in Slots |->
          IF <<m, s>> \in gone THEN [@[s] EXCEPT !.state = "free"] ELSE @[s]]]]
Dropping(M, v, c, h) ==
    LET gone == OwnersOf(view, scan, held) \ OwnersOf(v, c, h)
    IN [m \in Maps |-> [M[m] EXCEPT !.slot = [s \in Slots |->
          IF <<m, s>> \in gone THEN [@[s] EXCEPT !.state = "free"] ELSE @[s]]]]

-----------------------------------------------------------------------------
(* QEMU.                                                                     *)

NewMap ==
    /\ writer.map < MaxMaps /\ writer.slot = 0
    /\ writer' = [writer EXCEPT !.map = @ + 1]
    /\ UNCHANGED <<maps, received, view, scan, held>>

WriteBegin == \E s \in Slots :
    /\ writer.map # 0 /\ writer.slot = 0 /\ writer.frames < MaxFrames
    /\ maps[writer.map].slot[s].state \in {"free", "ready"}
    /\ maps' = [maps EXCEPT ![writer.map].slot[s].state = "writing"]
    /\ writer' = [writer EXCEPT !.slot = s]
    /\ UNCHANGED <<received, view, scan, held>>

WriteEnd ==
    LET n == writer.frames + 1
    IN /\ writer.slot # 0
       /\ maps' = [maps EXCEPT
            ![writer.map].slot[writer.slot] = [state |-> "ready", generation |-> n],
            ![writer.map].frame_counter = n]
       /\ writer' = [writer EXCEPT !.slot = 0, !.frames = n]
       /\ UNCHANGED <<received, view, scan, held>>

-----------------------------------------------------------------------------
(* The consumer.                                                             *)

(* ShmemServer::poll: the newest display replaces the one in use.            *)
PollDisplay ==
    /\ received # 0 /\ scan = {}
    /\ view' = [NoView EXCEPT !.map = received] /\ received' = 0
    /\ maps' = Dropping(maps, view', scan, held)
    /\ UNCHANGED <<writer, scan, held>>

(* take_frame_changed, with the start of acquire_latest, whose compare-and-  *)
(* swaps are a step each.                                                    *)
ScanBegin == scan = {} /\ scan' = {[next |-> 1, best |-> 0]}
TakeFrameChanged ==
    /\ view.map # 0 /\ ScanBegin
    /\ view' = [view EXCEPT !.notified = maps[view.map].frame_counter]
    /\ UNCHANGED <<maps, writer, received, held>>

(* Faulty variant: any frame is kept.                                        *)
KeepsAny(c, s) == TRUE

Keeps(c, s) == /\ Generation(view.map, s) > view.last_frame
               /\ c.best # 0 => Generation(view.map, s) > Generation(view.map, c.best)
GivenBack(state) == "free"

ScanSlot == \E c \in scan :
    /\ c.next \in Slots
    /\ IF maps[view.map].slot[c.next].state = "ready"
         THEN IF Keeps(c, c.next)
                THEN LET d == {[next |-> c.next + 1, best |-> c.next]}
                     IN /\ scan' = d
                        /\ maps' = [Dropping(maps, view, d, held)
                                      EXCEPT ![view.map].slot[c.next].state = "reading"]
                ELSE /\ scan' = {[c EXCEPT !.next = @ + 1]}
                     /\ maps' = [maps EXCEPT ![view.map].slot[c.next].state = GivenBack(@)]
         ELSE /\ scan' = {[c EXCEPT !.next = @ + 1]} /\ UNCHANGED maps
    /\ UNCHANGED <<writer, received, view, held>>

(* prepare_frame, or acquire_frame with a lease of what is current then.     *)
ScanEnd == \E c \in scan, lease \in BOOLEAN :
    /\ c.next \notin Slots
    /\ lease => Cardinality(held) < MaxLeases
    /\ scan' = {}
    /\ view' = IF c.best = 0 THEN view
               ELSE [view EXCEPT !.current = c.best,
                                 !.last_frame = Generation(view.map, c.best)]
    /\ held' = IF lease /\ view'.current # 0 THEN held \union {<<view.map, view'.current>>}
               ELSE held
    /\ maps' = Dropping(maps, view', {}, held')
    /\ UNCHANGED <<writer, received>>

DiscardCurrent ==
    /\ view.current # 0 /\ scan = {}
    /\ view' = [view EXCEPT !.current = 0]
    /\ maps' = Dropping(maps, view', scan, held)
    /\ UNCHANGED <<writer, received, scan, held>>

DropFrame == \E l \in held :
    /\ held' = held \ {l}
    /\ maps' = Dropping(maps, view, scan, held')
    /\ UNCHANGED <<writer, received, view, scan>>
=============================================================================
