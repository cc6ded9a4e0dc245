-------------------------- MODULE DesktopTransport --------------------------
(***************************************************************************)
(* The consumer's side of the native transport, src/transport of the SDK:  *)
(* leased images, the ordered desktop queue, retirement cutoffs and the    *)
(* release queue.                                                          *)
(*                                                                         *)
(* Threads: a receiver of Unix records, a receiver of Mach images (the     *)
(* same thread on Linux), the presentation thread that takes updates and   *)
(* drops leases, and a writer that sends releases and replies.  A step is  *)
(* what one of them does while it holds the desktop lock, or between two   *)
(* holds.                                                                  *)
(*                                                                         *)
(* A lease is [d, index, epoch, generation]: the drawable (client and      *)
(* drawable of the code) and the wire Slot.  The index of a CPU allocation *)
(* is in CPU, and so is its d.                                             *)
(***************************************************************************)
EXTENDS Wire

CONSTANTS MaxPending,       \* MAX_PENDING, records of the ordered queue
          MaxSlots,         \* MAX_SLOTS, image leases of a connection
          ReleaseCapacity   \* of the release and reply channel

ASSUME TransportAssumption == {MaxPending, MaxSlots, ReleaseCapacity} \subseteq Nat

VARIABLES desktop,   \* struct Desktop
          order,     \* struct Order of the image channel
          leased,    \* Releases.slots: <<epoch, index>> of live allocations
          releases,  \* the channel to the writer
          frames,    \* State.latest, latest_owner and drawables
          held,      \* leases the presentation thread owns
          owed,      \* readbacks it has still to answer
          active,    \* desktop_active
          taking,    \* the update whose effects outside the lock are due
          waiting,   \* the receiver sleeps for space in the ordered queue
          signal,    \* the notification it is owed
          closed,    \* Releases.closed
          fault      \* State.error of a refused record

consumer == <<desktop, order, leased, releases, frames, held, owed, active, taking,
              waiting, signal, closed, fault>>

TransportInit ==
    /\ desktop = [resources |-> {}, pending |-> <<>>, wire_epoch |-> 0, revision |-> 0,
                  epoch |-> 0, sequence |-> 0, next_epoch |-> 1, anchor |-> 0,
                  dropped |-> [d \in Drawable |-> Zero],
                  received |-> [d \in Drawable |-> Zero]]
    /\ order = [epoch |-> 0, generations |-> [d \in Drawable |-> 0]]
    /\ leased = {} /\ releases = <<>> /\ held = {} /\ owed = {}
    /\ frames = [latest |-> {}, owner |-> {}, windows |-> {}]
    /\ active = FALSE /\ taking = {} /\ waiting = FALSE /\ signal = FALSE
    /\ closed = FALSE /\ fault = {}

-----------------------------------------------------------------------------
(* Ownership.  An allocation is released when its last owner drops it.       *)

PendingLeases(queue) == {queue[k].lease : k \in {j \in DOMAIN queue :
                                            queue[j].kind \in {"seed", "patch", "return"}}}
Owners(D, F, H) == D.resources \union F.latest \union F.windows \union H
                     \union PendingLeases(D.pending)
Live == Owners(desktop, frames, held)

(* Image and Pixels drop, and a readback's completion: one record each,      *)
(* unless the connection closed.                                             *)
Enqueue(messages) ==
    IF closed THEN UNCHANGED <<releases, closed, fault>>
    ELSE IF Len(releases) + Len(messages) > ReleaseCapacity
      THEN /\ closed' = TRUE /\ fault' = fault \union {"release bound"}
           /\ UNCHANGED releases
      ELSE releases' = releases \o messages /\ UNCHANGED <<closed, fault>>
ReleaseAll(leases) == Enqueue(SetToSeq({ReleaseOf(l) : l \in leases}))

(* A refused record ends the connection; what was done for it before it was  *)
(* refused goes with it.                                                     *)
Refuse(reason) ==
    /\ fault' = fault \union {reason} /\ closed' = TRUE /\ signal' = TRUE
    /\ UNCHANGED <<desktop, order, leased, releases, frames, held, owed, active, taking, waiting>>

PeerCloses ==
    /\ ~closed /\ closed' = TRUE /\ signal' = TRUE
    /\ releases' = <<>>
    /\ UNCHANGED <<desktop, order, leased, frames, held, owed, active, taking, waiting, fault>>

-----------------------------------------------------------------------------
(* Images.                                                                   *)

(* Desktop::receive_image: an image at or before the cutoff of its drawable  *)
(* is not kept, and the first at or after it removes the tombstone.  Neither *)
(* map has an entry that is Zero.                                            *)
Retired(D, m) == Id(m) \preceq D.dropped[m.d]
ReceivedBy(D, m) ==
    LET clear == D.dropped[m.d] # Zero /\ D.dropped[m.d] \preceq Id(m)
    IN [D EXCEPT !.dropped[m.d] = IF clear THEN Zero ELSE @,
                 !.received[m.d] = IF ~Retired(D, m) THEN Id(m)
                                   ELSE IF clear THEN Zero ELSE @]

Keys(map) == {d \in Drawable : map[d] # Zero}

(* An image that is kept and starts an entry of received finds no room.      *)
Unretired(D, m) ==
    LET clear == D.dropped[m.d] # Zero /\ D.dropped[m.d] \preceq Id(m)
    IN /\ ~Retired(D, m) /\ (clear \/ D.received[m.d] = Zero)
       /\ Cardinality(Keys(D.received) \ {m.d}) >= MaxSlots

(* The generations of the epoch; an older epoch's are cleared.               *)
Ordered == {d \in Drawable : order.generations[d] # 0}

(* What publish refuses, what receive_image refuses, and what the queue or   *)
(* the registry the image is kept in refuses.                                *)
ImageFault(m) ==
    CASE m.epoch < order.epoch -> {"stale epoch"}
      [] m.epoch = order.epoch /\ m.generation <= order.generations[m.d] -> {"generation"}
      [] /\ m.epoch = order.epoch /\ m.d \notin Ordered
         /\ Cardinality(Ordered) >= MaxDrawables -> {"drawables"}
      [] \/ Cardinality({k \in leased : k[2] \notin CPU}) >= MaxSlots
         \/ <<m.epoch, m.index>> \in leased -> {"reused slot"}
      [] Unretired(desktop, m) -> {"unretired"}
      [] /\ m.kind = "retained" /\ ~Retired(desktop, m)
         /\ \/ Cardinality(desktop.resources) >= MaxSlots
            \/ \E l \in desktop.resources : l.index = m.index /\ Id(l) = Id(m) -> {"registry"}
      [] /\ m.kind = "window" /\ ~Retired(desktop, m)
         /\ Cardinality(frames.windows) >= MaxSlots -> {"windows"}
      [] OTHER -> {}

KeepImage(m, l) ==
    CASE m.kind = "frame" ->
           /\ frames' = [frames EXCEPT !.latest = {l}, !.owner = {l}]
           /\ active' = TRUE
           /\ desktop' = ReceivedBy(desktop, m)
           /\ ReleaseAll(frames.latest)
      [] m.kind = "retained" ->
           /\ desktop' = [ReceivedBy(desktop, m) EXCEPT !.resources = @ \union {l}]
           /\ UNCHANGED <<frames, active, releases, closed, fault>>
      [] m.kind = "window" ->
           /\ frames' = [frames EXCEPT !.windows = @ \union {l}]
           /\ desktop' = ReceivedBy(desktop, m)
           /\ UNCHANGED <<active, releases, closed, fault>>

ReceiveImage(m) ==
    /\ ~closed
    /\ IF ImageFault(m) # {} THEN \E reason \in ImageFault(m) : Refuse(reason)
       ELSE /\ leased' = leased \union {<<m.epoch, m.index>>}
            /\ order' = [epoch |-> m.epoch,
                         generations |-> [d \in Drawable |->
                             IF d = m.d THEN m.generation
                             ELSE IF m.epoch # order.epoch THEN 0 ELSE order.generations[d]]]
            /\ IF Retired(desktop, m)
                 THEN /\ desktop' = ReceivedBy(desktop, m)
                      /\ ReleaseAll({Lease(m)})
                      /\ UNCHANGED <<frames, active>>
                 ELSE KeepImage(m, Lease(m))
            /\ UNCHANGED <<held, owed, taking, waiting, signal>>

-----------------------------------------------------------------------------
(* Ordered records.  A record is [kind, epoch, sequence, d, lease, final,    *)
(* anchor]; drops and resets carry no sequence, a detached discard none.     *)

Full == Len(desktop.pending) >= MaxPending

OpFault(op) ==
    IF op.kind \in {"drop", "reset"} \/ Detached(op) THEN {}
    ELSE CASE op.kind = "seed" /\ (op.epoch <= desktop.wire_epoch \/ op.sequence # 1) -> {"seed"}
           [] op.kind # "seed" /\ (op.epoch # desktop.wire_epoch
                                   \/ op.sequence # desktop.sequence + 1) -> {"sequence"}
           [] op.kind \in CpuKinds /\ \E k \in leased : k[2] = op.lease.index -> {"reused slot"}
           [] OTHER -> {}

(* Desktop::push.  A seed, a return and a reset each change the authority    *)
(* revision; a seed and a reset start a host epoch of their own.             *)
(* Faulty variant: a seed does not start a host epoch of its own.            *)
PushedSameEpoch(op) ==
    [desktop EXCEPT !.pending = Append(@, [op EXCEPT !.epoch = 1]),
                    !.epoch = 1, !.wire_epoch = op.epoch, !.sequence = op.sequence]

Pushed(op) ==
    LET fresh == op.kind \in {"seed", "reset"}
        host  == CASE op.kind = "drop" \/ Detached(op) -> 0
                   [] fresh -> desktop.next_epoch
                   [] OTHER -> desktop.epoch
        rev   == IF op.kind \in {"seed", "return", "reset"} THEN desktop.revision + 1
                 ELSE desktop.revision
        entry == [op EXCEPT !.epoch = host, !.sequence = IF op.kind = "reset" THEN 1 ELSE @,
                            !.anchor = IF op.kind = "readback" THEN <<op.epoch, op.sequence>>
                                       ELSE @]
    IN [desktop EXCEPT
          !.pending = Append(@, [entry EXCEPT !.revision = rev]),
          !.revision = rev,
          !.next_epoch = IF fresh THEN @ + 1 ELSE @,
          !.epoch = IF op.kind = "seed" THEN host ELSE @,
          !.anchor = IF op.kind = "seed" THEN 0 ELSE @,
          !.wire_epoch = CASE op.kind = "seed" -> op.epoch
                           [] op.kind = "reset" -> 0
                           [] OTHER -> @,
          !.sequence = CASE op.kind = "reset" -> 0
                         [] op.kind = "drop" \/ Detached(op) -> @
                         [] OTHER -> op.sequence]

ReceiveOp(op) ==
    /\ ~closed /\ ~Full /\ ~waiting
    /\ IF OpFault(op) # {} THEN \E reason \in OpFault(op) : Refuse(reason)
       ELSE /\ desktop' = Pushed(op)
            /\ leased' = IF op.kind \in CpuKinds
                           THEN leased \union {<<op.lease.epoch, op.lease.index>>} ELSE leased
            /\ active' = (active \/ op.kind \in {"seed", "reset"})
            /\ UNCHANGED <<order, releases, frames, held, owed, taking, waiting, signal, closed,
                           fault>>

(* The receiver gives up the queue lock only once it holds the lock of the   *)
(* wait, and looks at the stop conditions under it.                          *)
WaitForSpace ==
    /\ Full /\ ~closed /\ ~waiting
    /\ waiting' = TRUE /\ signal' = FALSE
    /\ UNCHANGED <<desktop, order, leased, releases, frames, held, owed, active, taking, closed,
                   fault>>

WakeReceiver ==
    /\ waiting /\ signal
    /\ waiting' = FALSE /\ signal' = FALSE
    /\ UNCHANGED <<desktop, order, leased, releases, frames, held, owed, active, taking, closed,
                   fault>>

-----------------------------------------------------------------------------
(* Desktop::take, under the desktop lock.  Lifecycle records at the head are *)
(* carried out in order until one must wait, a drop finds no room for its    *)
(* tombstone, or a visible operation is found.                               *)

Named(D, op) == {l \in D.resources : l = op.lease}
Gone(l, d, cutoff) == l.d = d /\ Id(l) \preceq cutoff

(* Faulty variant: no tombstone for images still on their way.               *)
TakeDropForgets(D, op) ==
    [D EXCEPT !.resources = {l \in @ : ~Gone(l, op.d, Later(D.dropped[op.d], op.anchor))},
              !.pending = Tail(@)]

TakeDrop(D, op) ==
    LET cutoff == Later(D.dropped[op.d], op.anchor)
        seen   == D.received[op.d] # Zero /\ cutoff \preceq D.received[op.d]
    IN [D EXCEPT !.resources = {l \in @ : ~Gone(l, op.d, cutoff)},
                 !.dropped[op.d] = IF seen THEN Zero ELSE cutoff,
                 !.received[op.d] = IF seen THEN Zero ELSE @,
                 !.pending = Tail(@)]

Buries(D, op) == op.d \in Keys(D.dropped) \/ Cardinality(Keys(D.dropped)) < MaxSlots

TakeDiscard(D, op) == [D EXCEPT !.resources = @ \ {op.lease}, !.pending = Tail(@)]

Lifecycle(s, op) ==
    CASE s.stop -> s
      [] ~s.stop /\ op.kind = "drop" /\ Buries(s.D, op) ->
           [s EXCEPT !.D = TakeDrop(s.D, op),
                     !.retired = @ \union {<<op.d, Later(s.D.dropped[op.d], op.anchor)>>}]
      [] ~s.stop /\ Detached(op) /\ Named(s.D, op) # {} ->
           [s EXCEPT !.D = TakeDiscard(s.D, op)]
      [] OTHER -> [s EXCEPT !.stop = TRUE]

Swept == FoldLeft(Lifecycle, [D |-> desktop, retired |-> {}, stop |-> FALSE], desktop.pending)

(* A reset forgets what was received and leaves a tombstone for each kept    *)
(* image.                                                                    *)
Reset(D) ==
    LET last(d) == {Id(l) : l \in {r \in D.resources : r.d = d}}
    IN [D EXCEPT !.received = [d \in Drawable |-> Zero],
                 !.dropped = [d \in Drawable |->
                              Latest(last(d) \union {@[d]})],
                 !.resources = {}]

Needs(op) == op.kind \in {"blit", "discard"}

(* The state after the head is taken.                                        *)
Taken(D) ==
    LET op == Head(D.pending)
        E  == [D EXCEPT !.pending = Tail(@)]
    IN CASE op.kind = "reset" -> Reset(E)
         [] Needs(op) /\ (op.final \/ op.kind = "discard") ->
              [E EXCEPT !.resources = @ \ {op.lease}]
         [] OTHER -> E

(* A return reopens CPU delivery only if no newer authority was queued.      *)
Returns(D) == /\ Head(D.pending).kind \in {"return", "reset"}
              /\ Head(D.pending).revision = D.revision

RetiredFrames(retired) ==
    LET gone(l) == \E r \in retired : Gone(l, r[1], r[2])
        owned   == \E l \in frames.owner : gone(l)
    IN [windows |-> {l \in frames.windows : ~gone(l)},
        latest  |-> IF owned THEN {} ELSE frames.latest,
        owner   |-> IF owned THEN {} ELSE frames.owner]

(* What the batch hands to the presentation thread.                          *)
HandedOver(op) == IF op.kind \in CpuKinds \union {"blit"} THEN {op.lease} ELSE {}

TakeUpdate ==
    LET D == Swept.D
        F == RetiredFrames(Swept.retired)
        op == Head(D.pending)
        failed == D.pending # <<>> /\ op.kind = "drop"
        ready == D.pending # <<>> /\ ~failed /\ (Needs(op) => Named(D, op) # {})
    IN /\ taking = {} /\ desktop.pending # <<>>
       /\ IF ready
            THEN LET H == held \union HandedOver(op)
                     E == [Taken(D) EXCEPT !.anchor = IF Returns(D) THEN op.anchor[1] ELSE @]
                 IN /\ desktop' = E /\ held' = H
                    /\ owed' = IF op.kind = "readback" THEN owed \union {op.anchor} ELSE owed
                    /\ taking' = {[op |-> op, returned |-> Returns(D), failed |-> FALSE]}
                    /\ ReleaseAll(Live \ Owners(E, F, H))
            ELSE /\ desktop' = D
                 /\ taking' = {[op |-> [kind |-> "none"], returned |-> FALSE, failed |-> failed]}
                 /\ ReleaseAll(Live \ Owners(D, F, held))
                 /\ UNCHANGED <<held, owed>>
       /\ frames' = F
       /\ UNCHANGED <<order, leased, active, waiting, signal>>

(* take_desktop_update after it gave up the lock.  An error is only recorded *)
(* (State.fail): the connection stays, and no receiver is woken.             *)
(* Faulty variant: the sleeping receiver is not told of the space.           *)
FinishUnsignalled == \E t \in taking :
    /\ IF t.returned
         THEN /\ active' = FALSE
              /\ frames' = [frames EXCEPT !.latest = {}, !.windows = {}]
              /\ ReleaseAll(Live \ Owners(desktop, frames', held))
         ELSE /\ fault' = IF t.failed THEN fault \union {"tombstones"} ELSE fault
              /\ UNCHANGED <<active, frames, releases, closed>>
    /\ taking' = {}
    /\ UNCHANGED <<desktop, order, leased, held, owed, waiting, signal>>

FinishUpdate == \E t \in taking :
    /\ IF t.returned
         THEN /\ active' = FALSE
              /\ frames' = [frames EXCEPT !.latest = {}, !.windows = {}]
              /\ ReleaseAll(Live \ Owners(desktop, frames', held))
         ELSE /\ fault' = IF t.failed THEN fault \union {"tombstones"} ELSE fault
              /\ UNCHANGED <<active, frames, releases, closed>>
    /\ taking' = {} /\ signal' = (signal \/ ~t.failed)
    /\ UNCHANGED <<desktop, order, leased, held, owed, waiting>>

TakeFrame ==
    /\ frames.latest # {}
    /\ frames' = [frames EXCEPT !.latest = {}]
    /\ held' = held \union frames.latest
    /\ UNCHANGED <<desktop, order, leased, releases, owed, active, taking, waiting, signal, closed,
                   fault>>

TakeDrawables ==
    /\ frames.windows # {}
    /\ frames' = [frames EXCEPT !.windows = {}]
    /\ held' = held \union frames.windows
    /\ UNCHANGED <<desktop, order, leased, releases, owed, active, taking, waiting, signal, closed,
                   fault>>

(* The last GPU work on a lease completed.                                   *)
DropLease == \E l \in held :
    /\ held' = held \ {l}
    /\ ReleaseAll(Live \ Owners(desktop, frames, held'))
    /\ UNCHANGED <<desktop, order, leased, frames, owed, active, taking, waiting, signal>>

(* A readback is answered once: by its completion, or by being dropped.      *)
AnswerReadback == \E id \in owed, ok \in BOOLEAN :
    /\ owed' = owed \ {id}
    /\ Enqueue(<<[kind |-> "reply", epoch |-> id[1], sequence |-> id[2], ok |-> ok]>>)
    /\ UNCHANGED <<desktop, order, leased, frames, held, active, taking, waiting, signal>>

(* permits_cpu_frame: an accepted frame clears the anchor.                   *)
PermitsCpu(frame) == ~active /\ (desktop.anchor # 0 => frame >= desktop.anchor)
AcceptCpuFrame(frame) ==
    /\ PermitsCpu(frame) /\ desktop.anchor # 0
    /\ desktop' = [desktop EXCEPT !.anchor = 0]
    /\ UNCHANGED <<order, leased, releases, frames, held, owed, active, taking, waiting, signal,
                   closed, fault>>

(* The writer forgets a lease before the release is on the wire.             *)
WriterTake ==
    /\ releases # <<>> /\ ~closed
    /\ releases' = Tail(releases)
    /\ leased' = IF Head(releases).kind = "release"
                   THEN leased \ {<<Head(releases).epoch, Head(releases).index>>} ELSE leased
    /\ UNCHANGED <<desktop, order, frames, held, owed, active, taking, waiting, signal, closed, fault>>
=============================================================================
