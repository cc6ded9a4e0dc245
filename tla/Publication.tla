----------------------------- MODULE Publication -----------------------------
(***************************************************************************)
(* The producer's side of image publication: the drawable registry of      *)
(* gl.rs as far as it names exported images, the export slots of           *)
(* publication.rs and the bounded output queue of worker.rs.               *)
(*                                                                         *)
(* Two threads of the device take the steps.  The render worker claims a   *)
(* slot, renders into it, prepares its packet and queues it.  The output   *)
(* thread pops jobs in order, publishes a slot under the engine lock,      *)
(* sends its packet outside the lock, and takes the lock again to settle.  *)
(* The consumer's RELEASE records arrive in between, on a third thread.    *)
(*                                                                         *)
(* A composing module supplies what a send does to the wire.               *)
(***************************************************************************)
EXTENDS Wire

CONSTANTS DesktopCredits,  \* desktop records that may be outstanding (64)
          MaxEpoch,        \* bound on next_epoch, where checked_add fails
          MaxGeneration    \* bound on a generation, where checked_add fails

ASSUME PublicationAssumption ==
    {DesktopCredits, MaxEpoch, MaxGeneration} \subseteq Nat \ {0}

Outputs == Bound + DesktopCredits

VARIABLES slots,       \* Index -> export slot with the identity in its packet
          drawables,   \* Drawable -> registry record
          next_epoch,
          output,      \* OutputQueue: items, pending and desktop credits
          sending      \* the job the output thread works on, a set of at most one

producer == <<slots, drawables, next_epoch, output, sending>>

EmptySlot == [state |-> "free", sending |-> FALSE, release_pending |-> FALSE,
              image |-> "frame", epoch |-> 0, generation |-> 0]
EmptyDrawable == [live |-> FALSE, epoch |-> 0, generation |-> 0, published |-> <<0, 0>>]

PublicationInit ==
    /\ slots = [i \in Index |-> EmptySlot]
    /\ drawables = [d \in Drawable |-> EmptyDrawable]
    /\ next_epoch = 0
    /\ output = [items |-> <<>>, pending |-> 0, desktop |-> 0]
    /\ sending = {}

-----------------------------------------------------------------------------
(* The output queue.  A slot job holds only the slot; a desktop job its      *)
(* record.  Credits are held until the job is done, longer than its entry.   *)

SlotJob(i) == [slot |-> TRUE, index |-> i]
DesktopJob(op) == [slot |-> FALSE, op |-> op]

(* Faulty variant: desktop records are not limited to their share.           *)
HasRoomShared(job) == Len(output.items) # Outputs /\ output.pending # Outputs

HasRoom(job) ==
    /\ Len(output.items) # Outputs
    /\ output.pending # Outputs
    /\ job.slot \/ output.desktop # DesktopCredits

Push(job) ==
    output' = [items   |-> Append(output.items, job),
               pending |-> output.pending + 1,
               desktop |-> output.desktop + IF job.slot THEN 0 ELSE 1]

Done(job) ==
    output' = [output EXCEPT !.pending = @ - 1,
                             !.desktop = @ - IF job.slot THEN 0 ELSE 1]

OutputPop ==
    /\ sending = {} /\ output.items # <<>>
    /\ sending' = {[job     |-> Head(output.items), stage |-> "popped",
                    publish |-> FALSE, ready |-> FALSE, sent |-> FALSE]}
    /\ output' = [output EXCEPT !.items = Tail(@)]
    /\ UNCHANGED <<slots, drawables, next_epoch>>

-----------------------------------------------------------------------------
(* The registry.  Creating a drawable starts a new epoch in every record, so *)
(* the images of living drawables change epoch too.  A drawable is freed     *)
(* only after its publications have drained.                                 *)

DrawableNew(d) ==
    /\ ~drawables[d].live /\ next_epoch < MaxEpoch
    /\ Cardinality({e \in Drawable : drawables[e].live}) < MaxDrawables
    /\ next_epoch' = next_epoch + 1
    /\ drawables' = [e \in Drawable |->
                       [(IF e = d THEN [EmptyDrawable EXCEPT !.live = TRUE] ELSE drawables[e])
                          EXCEPT !.epoch = next_epoch + 1]]
    /\ UNCHANGED <<slots, output, sending>>

Drained(d) == \A i \in Index : i[1] = d =>
                 slots[i].state \in {"free", "published"} /\ ~slots[i].sending

DrawableFree(d) ==
    /\ drawables[d].live /\ Drained(d)
    /\ drawables' = [drawables EXCEPT ![d] = EmptyDrawable]

-----------------------------------------------------------------------------
(* The render worker.                                                        *)

Rendering == {i \in Index : slots[i].state = "rendering"}

Claim(d) ==
    LET free == {n \in 1..ExportSlots : slots[<<d, n>>].state = "free"}
    IN /\ drawables[d].live /\ Rendering = {} /\ free # {}
       /\ Cardinality({i \in Index : slots[i].state # "free"}) < Bound
       /\ \E n \in free :
            /\ \A m \in free : n <= m
            /\ slots' = [slots EXCEPT ![<<d, n>>].state = "rendering",
                                      ![<<d, n>>].release_pending = FALSE]
       /\ UNCHANGED <<drawables, next_epoch, output, sending>>

Abort(i) == slots' = [slots EXCEPT ![i].state = "free", ![i].release_pending = FALSE]

RenderFails ==
    /\ \E i \in Rendering : Abort(i)
    /\ UNCHANGED <<drawables, next_epoch, output, sending>>

(* dreamgpu_slot_prepare writes the packet and advances the generation;      *)
(* under the lock the job is queued and the slot becomes pending.  A full    *)
(* queue or an exhausted generation gives the slot back.                     *)
Present(image) == \E i \in Rendering :
    LET d == drawables[i[1]]
        job == SlotJob(i)
        prepared == d.generation < MaxGeneration
    IN /\ \/ /\ prepared /\ HasRoom(job)
             /\ slots' = [slots EXCEPT ![i] = [@ EXCEPT !.state = "pending", !.image = image,
                                                 !.epoch = d.epoch,
                                                 !.generation = d.generation + 1]]
             /\ Push(job)
          \/ /\ ~prepared \/ ~HasRoom(job)
             /\ Abort(i)
             /\ UNCHANGED output
       /\ drawables' = IF prepared THEN [drawables EXCEPT ![i[1]].generation = @ + 1]
                       ELSE drawables
       /\ UNCHANGED <<next_epoch, sending>>

-----------------------------------------------------------------------------
(* The output thread on a slot job, and the consumer's release.              *)

(* ready: the image's fence was signalled; unavailable: the transport is     *)
(* gone or the work was cancelled while the thread waited.                   *)
Publish(ready, unavailable) == \E s \in sending :
    /\ s.stage = "popped" /\ s.job.slot
    /\ slots' = [slots EXCEPT ![s.job.index].state = "published",
                              ![s.job.index].sending = TRUE]
    /\ sending' = {[s EXCEPT !.stage = "published", !.ready = ready,
                             !.publish = ready /\ ~unavailable]}
    /\ UNCHANGED <<drawables, next_epoch, output>>

(* Faulty variant: a release that came early is forgotten.                   *)
SettledForgets(slot, sent) ==
    [slot EXCEPT !.sending = FALSE, !.state = IF ~sent THEN "free" ELSE @]

Settled(slot, sent) ==
    [slot EXCEPT !.sending = FALSE,
                 !.state = IF ~sent \/ slot.release_pending THEN "free" ELSE @]

Sent(s) ==
    LET i == s.job.index
    IN /\ slots' = [slots EXCEPT ![i] = Settled(@, s.sent)]
       /\ drawables' = IF s.sent
                         THEN [drawables EXCEPT ![i[1]].published =
                                 <<slots[i].epoch, slots[i].generation>>]
                         ELSE drawables

(* dreamgpu_slot_sent reports a failure only when a send that should have    *)
(* happened did not.                                                         *)
SendFailed(s) == ~s.sent /\ (s.publish \/ ~s.ready)

OutputDone == \E s \in sending :
    /\ s.stage = "sent"
    /\ IF s.job.slot THEN Sent(s) ELSE UNCHANGED <<slots, drawables>>
    /\ Done(s.job)
    /\ sending' = {}
    /\ UNCHANGED next_epoch

(* A RELEASE record [index, epoch, generation] of the consumer.              *)
(* Faulty variant: the slot is freed although its send is not settled.       *)
FreedAtOnce(slot, r) ==
    IF slot.state = "published" /\ slot.epoch = r.epoch /\ slot.generation = r.generation
      THEN [slot EXCEPT !.state = "free"] ELSE slot

Freed(slot, r) ==
    IF slot.state = "published" /\ slot.epoch = r.epoch /\ slot.generation = r.generation
      THEN IF slot.sending THEN [slot EXCEPT !.release_pending = TRUE]
                           ELSE [slot EXCEPT !.state = "free"]
      ELSE slot

Release(r) ==
    /\ slots' = [slots EXCEPT ![r.index] = Freed(@, r)]
    /\ UNCHANGED <<drawables, next_epoch, output, sending>>
=============================================================================
