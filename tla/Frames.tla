------------------------------- MODULE Frames -------------------------------
(***************************************************************************)
(* Image publication end to end: the device that exports images and CPU    *)
(* allocations (Publication, CpuExport), the wire, and the SDK that leases *)
(* them (DesktopTransport).                                                *)
(*                                                                         *)
(* The wire is a Unix stream of ordered records with, on macOS, a Mach     *)
(* port of images beside it: "separate" is chosen once, at the start.  The *)
(* stream back carries releases and readback answers.  What the guest asks *)
(* for (presents, desktop records) and the QEMU adapter that turns it into *)
(* jobs are not part of the sources; they are the environment here.        *)
(***************************************************************************)
EXTENDS Publication, DesktopTransport, CpuExport, Canvas

CONSTANTS Images,    \* kinds of image that are presented
          Ops,       \* kinds of desktop record that are queued
          MaxOps,    \* bound on desktop records
          Hangups    \* whether the connection may break

ASSUME FramesAssumption == Images \subseteq Image /\ MaxOps \in Nat /\ Hangups \in BOOLEAN

VARIABLES separate,  \* images travel on a Mach port of their own
          unix, mach, back,
          stream,    \* the producer's desktop stream: epoch, sequence, seeded, queued
          refs,      \* retained images no record took the last reference of yet
          answer,    \* what the last readback was told, for which sequence
          past       \* history: cutoffs carried out, newest authority

wire == <<separate, unix, mach, back>>
external == <<stream, refs>>
shown == <<canvas, past>>
vars == <<producer, consumer, cpu, reply, wire, external, answer, shown>>

Init ==
    /\ PublicationInit /\ TransportInit /\ CpuInit
    /\ separate \in BOOLEAN
    /\ unix = <<>> /\ mach = <<>> /\ back = <<>>
    /\ stream = [epoch |-> 0, sequence |-> 0, seeded |-> FALSE, queued |-> 0]
    /\ refs = {}
    /\ answer = [asked |-> 0, outcome |-> "none", of |-> 0]
    /\ CanvasInit /\ past = [cutoff |-> [d \in Drawable |-> Zero], authority |-> "cpu"]

-----------------------------------------------------------------------------
(* The render worker's side, driven by the guest.                            *)

(* The adapter starts nothing on a connection it knows to be closed.         *)
NewDrawable == ~closed /\ \E d \in Drawable :
    DrawableNew(d) /\ UNCHANGED <<consumer, cpu, reply, wire, external, answer, shown>>
Begin == ~closed /\ \E d \in Drawable :
    Claim(d) /\ UNCHANGED <<consumer, cpu, reply, wire, external, answer, shown>>
GiveUp == RenderFails /\ UNCHANGED <<consumer, cpu, reply, wire, external, answer, shown>>
PresentImage(image) ==
    /\ Present(image)
    /\ refs' = IF image = "retained"
                 THEN refs \union {[d |-> i[1], index |-> i, epoch |-> slots'[i].epoch,
                                    generation |-> slots'[i].generation] :
                                     i \in {j \in Rendering : slots'[j].state = "pending"}}
                 ELSE refs
    /\ UNCHANGED <<consumer, cpu, reply, wire, stream, answer, shown>>

(* A desktop record takes the next sequence of its epoch and waits for       *)
(* output credit.                                                            *)
Queue(op, seeded) ==
    /\ op.kind \in Ops /\ stream.queued < MaxOps /\ Rendering = {} /\ ~closed
    /\ HasRoom(DesktopJob(op)) /\ Push(DesktopJob(op))
    /\ stream' = [epoch |-> IF op.epoch # 0 THEN op.epoch ELSE stream.epoch,
                  sequence |-> IF op.epoch # 0 THEN op.sequence ELSE stream.sequence,
                  seeded |-> seeded, queued |-> stream.queued + 1]
    /\ UNCHANGED <<slots, next_epoch, sending, consumer, wire, answer, shown>>

Next1(kind) == Record(kind, stream.epoch, stream.sequence + 1)

CpuRecord(kind) == \E c \in CPU, bytes \in Sizes :
    LET op == IF kind = "seed" THEN Record(kind, stream.epoch + 1, 1) ELSE Next1(kind)
        l  == [d |-> c, index |-> c, epoch |-> op.epoch, generation |-> op.sequence]
    IN /\ kind = "seed" \/ stream.seeded
       /\ CpuClaim(c, op.epoch, op.sequence, bytes)
       /\ Queue([op EXCEPT !.lease = l,
                           !.anchor = IF kind = "return" THEN <<stream.queued + 1, 0>> ELSE Zero],
                kind # "return")
       /\ UNCHANGED <<drawables, reply, refs>>

CpuMemoryFails == \E c \in CPU, bytes \in Sizes :
    /\ stream.queued < MaxOps /\ ~closed /\ CpuStorageFails(c, bytes)
    /\ UNCHANGED <<producer, consumer, reply, wire, external, answer, shown>>

Paint ==
    /\ stream.seeded /\ Queue(Next1("paint"), TRUE)
    /\ UNCHANGED <<drawables, cpu, reply, refs>>

Blit == \E l \in refs, final \in BOOLEAN :
    /\ stream.seeded
    /\ Queue([Next1("blit") EXCEPT !.lease = l, !.d = l.d, !.final = final], TRUE)
    /\ refs' = IF final THEN refs \ {l} ELSE refs
    /\ UNCHANGED <<drawables, cpu, reply>>

Discard == \E l \in refs :
    /\ Queue([IF stream.seeded THEN Next1("discard") ELSE Record("discard", 0, 0)
                EXCEPT !.lease = l, !.d = l.d], stream.seeded)
    /\ refs' = refs \ {l}
    /\ UNCHANGED <<drawables, cpu, reply>>

Readback ==
    /\ stream.seeded /\ Queue(Next1("readback"), TRUE)
    /\ ReplyBegin(stream.epoch, stream.sequence + 1)
    /\ UNCHANGED <<drawables, cpu, refs>>

(* The waiting readback ends: answered, cancelled or with the connection.    *)
ReadbackEnds == \E cancelled \in BOOLEAN :
    /\ cancelled \/ reply.ready \/ closed
    /\ ReplyFinish
    /\ answer' = [asked |-> reply.sequence, outcome |-> Outcome(cancelled, closed),
                  of |-> reply.fd]
    /\ UNCHANGED <<producer, consumer, cpu, wire, external, shown>>

(* A drawable goes after its publications drained; the record of it carries  *)
(* the identity of the last image that was sent.                             *)
FreeDrawable == \E d \in Drawable :
    /\ DrawableFree(d)
    /\ IF drawables[d].published = Zero
         THEN UNCHANGED <<slots, next_epoch, output, sending, consumer, wire, stream, answer,
                          shown>>
         ELSE Queue([Record("drop", 0, 0) EXCEPT !.d = d, !.anchor = drawables[d].published],
                    stream.seeded)
    /\ refs' = {l \in refs : l.d # d}
    /\ UNCHANGED <<cpu, reply>>

DeviceReset ==
    /\ Queue([Record("reset", 0, 0) EXCEPT !.anchor = <<stream.queued + 1, 0>>], FALSE)
    /\ refs' = {}
    /\ UNCHANGED <<drawables, cpu, reply>>

-----------------------------------------------------------------------------
(* The output thread.                                                        *)

Pop == OutputPop /\ UNCHANGED <<consumer, cpu, reply, wire, external, answer, shown>>

(* The wait for a fence ends; work may be cancelled only while no record in  *)
(* the stream depends on the image.                                          *)
PublishSlot == \E s \in sending, ready, unavailable \in BOOLEAN :
    /\ s.job.slot /\ closed => unavailable
    /\ s.job.slot /\ slots[s.job.index].image = "retained" /\ ~closed
         => ready /\ ~unavailable
    /\ Publish(ready, unavailable)
    /\ UNCHANGED <<consumer, cpu, reply, wire, external, answer, shown>>

ImageMessage(i) == [kind |-> slots[i].image, d |-> i[1], index |-> i,
                    epoch |-> slots[i].epoch, generation |-> slots[i].generation]

Transmit(s) ==
    IF ~s.job.slot THEN unix' = Append(unix, s.job.op) /\ UNCHANGED mach
    ELSE IF separate THEN mach' = Append(mach, ImageMessage(s.job.index)) /\ UNCHANGED unix
    ELSE unix' = Append(unix, ImageMessage(s.job.index)) /\ UNCHANGED mach

(* The send itself, outside the lock.  It fails only with the connection.    *)
Send == \E s \in sending :
    /\ s.stage = "published" \/ (s.stage = "popped" /\ ~s.job.slot)
    /\ sending' = {[s EXCEPT !.stage = "sent",
                             !.sent = ~closed /\ (s.job.slot => s.publish)]}
    /\ IF ~closed /\ (s.job.slot => s.publish) THEN Transmit(s) ELSE UNCHANGED <<unix, mach>>
    /\ UNCHANGED <<slots, drawables, next_epoch, output, consumer, cpu, reply, separate, back,
                   external, answer, shown>>

Settle ==
    /\ OutputDone
    /\ IF \E s \in sending : s.job.slot /\ SendFailed(s) /\ ~closed
         THEN PeerCloses /\ unix' = <<>> /\ mach' = <<>> ELSE UNCHANGED <<consumer, unix, mach>>
    /\ UNCHANGED <<cpu, reply, separate, back, external, answer, shown>>

(* The device reads the stream back.                                         *)
ReceiveBack ==
    /\ back # <<>> /\ back' = Tail(back)
    /\ CASE Head(back).kind = "reply" ->
              ReplyReceive(Head(back)) /\ UNCHANGED <<producer, cpu>>
         [] Head(back).kind = "release" /\ Head(back).index \in CPU ->
              CpuRelease(Head(back)) /\ UNCHANGED <<producer, reply>>
         [] OTHER -> Release(Head(back)) /\ UNCHANGED <<cpu, reply>>
    /\ UNCHANGED <<consumer, separate, unix, mach, external, answer, shown>>

-----------------------------------------------------------------------------
(* The SDK.                                                                  *)

Untouched == UNCHANGED <<producer, cpu, reply, external, answer>>

MachReceive ==
    /\ mach # <<>> /\ mach' = Tail(mach) /\ ReceiveImage(Head(mach))
    /\ UNCHANGED <<separate, unix, back, shown>> /\ Untouched

UnixReceive ==
    /\ unix # <<>> /\ unix' = Tail(unix)
    /\ IF Head(unix).kind \in Image
         THEN ~waiting /\ ReceiveImage(Head(unix)) /\ UNCHANGED shown
         ELSE /\ ReceiveOp(Head(unix))
              /\ past' = [past EXCEPT !.authority = CASE Head(unix).kind = "seed" -> "gpu"
                            [] Head(unix).kind \in {"return", "reset"} -> "cpu" [] OTHER -> @]
              /\ UNCHANGED canvas
    /\ UNCHANGED <<separate, mach, back>> /\ Untouched

ReceiverSleeps ==
    /\ unix # <<>> /\ Head(unix).kind \notin Image
    /\ WaitForSpace /\ UNCHANGED <<wire, shown>> /\ Untouched
ReceiverWakes == WakeReceiver /\ UNCHANGED <<wire, shown>> /\ Untouched

Update ==
    /\ TakeUpdate
    /\ LET t == CHOOSE x \in taking' : TRUE
       IN /\ past' = [past EXCEPT !.cutoff = [d \in Drawable |->
                LET dropped == {r[2] : r \in {q \in Swept.retired : q[1] = d}} \union {@[d]}
                IN Latest(dropped)]]
          /\ IF t.op.kind = "none" THEN UNCHANGED canvas ELSE Apply(t.op)
    /\ UNCHANGED wire /\ Untouched

Finish == FinishUpdate /\ UNCHANGED <<wire, shown>> /\ Untouched

Answer == AnswerReadback /\ UNCHANGED <<wire, shown>> /\ Untouched
Frame == TakeFrame /\ UNCHANGED <<wire, shown>> /\ Untouched
Windows == TakeDrawables /\ UNCHANGED <<wire, shown>> /\ Untouched
Drop == DropLease /\ UNCHANGED <<wire, shown>> /\ Untouched
CpuFrame == \E f \in 1..MaxOps : AcceptCpuFrame(f) /\ UNCHANGED <<wire, shown>> /\ Untouched

Write ==
    /\ WriterTake /\ back' = Append(back, Head(releases))
    /\ UNCHANGED <<separate, unix, mach, shown>> /\ Untouched

(* What the SDK has not read is lost with the connection.                    *)
Hangup ==
    /\ Hangups /\ PeerCloses /\ unix' = <<>> /\ mach' = <<>>
    /\ UNCHANGED <<separate, back, shown>> /\ Untouched

Guest ==
    \/ NewDrawable \/ Begin \/ GiveUp \/ \E image \in Images : PresentImage(image)
    \/ \E kind \in CpuKinds : CpuRecord(kind)
    \/ CpuMemoryFails \/ Paint \/ Blit \/ Discard \/ Readback \/ ReadbackEnds
    \/ FreeDrawable \/ DeviceReset
OutputThread == Pop \/ PublishSlot \/ Send \/ Settle
Sdk ==
    \/ MachReceive \/ UnixReceive \/ ReceiverSleeps \/ ReceiverWakes
    \/ Update \/ Finish \/ Answer \/ Frame \/ Windows \/ Drop \/ CpuFrame \/ Write

Next == Guest \/ OutputThread \/ ReceiveBack \/ Sdk \/ Hangup
Spec == Init /\ [][Next]_vars

(* The render worker and the QEMU adapter may stop asking; threads that have *)
(* work do it.  A lease is dropped once its last GPU work has completed.     *)
Fairness ==
    /\ WF_vars(Pop) /\ WF_vars(PublishSlot) /\ WF_vars(Send) /\ WF_vars(Settle)
    /\ WF_vars(ReceiveBack) /\ WF_vars(MachReceive) /\ WF_vars(UnixReceive)
    /\ WF_vars(ReceiverWakes) /\ WF_vars(Write) /\ WF_vars(Update) /\ WF_vars(Finish)
    /\ WF_vars(Frame) /\ WF_vars(Windows) /\ WF_vars(Drop) /\ WF_vars(Answer)
FairSpec == Spec /\ Fairness

-----------------------------------------------------------------------------
(* Properties.                                                               *)

TypeOK ==
    /\ \A i \in Index : /\ slots[i].state \in {"free", "rendering", "pending", "published"}
                        /\ slots[i].generation \in 0..MaxGeneration
    /\ next_epoch \in 0..MaxEpoch
    /\ Cardinality(sending) <= 1 /\ Cardinality(taking) <= 1
    /\ leased \subseteq (1..(MaxEpoch + MaxOps)) \X (Index \union CPU)
    /\ \A l \in Live : l.d \in Drawable \union CPU
    /\ {active, waiting, signal, closed, separate} \subseteq BOOLEAN
    /\ Len(desktop.pending) <= MaxPending

(* The assertions of publication.rs and worker.rs hold whatever the order of *)
(* render worker, output thread and releases: a popped job finds its slot    *)
(* pending, a settled one finds it published and still sending, and the      *)
(* pending and desktop credits count exactly the jobs queued or in the hands *)
(* of the output thread.                                                     *)
AssertionsHold ==
    /\ \A s \in sending : s.job.slot =>
         LET slot == slots[s.job.index]
         IN IF s.stage = "popped" THEN slot.state = "pending"
            ELSE slot.state = "published" /\ slot.sending
    /\ output.pending = Len(output.items) + Cardinality(sending)
    /\ output.desktop = Cardinality({k \in DOMAIN output.items : ~output.items[k].slot})
                          + Cardinality({s \in sending : ~s.job.slot})

(* worker.rs sizes the output queue as slots plus desktop credits: a desktop *)
(* burst never makes a rendered image lose its place.                        *)
ImagesAlwaysFit == \A i \in Rendering : HasRoom(SlotJob(i))

(* What the SDK remembers of names is bounded by a number of image slots, and *)
(* names are not: on two channels images overtake the drops of older names,   *)
(* and a reset, which starts an epoch at the SDK as a seed does, forgets what *)
(* was received: a later drop leaves a tombstone then that nothing but a new  *)
(* image of the same name removes.                                            *)
NamesMayFill == (IF separate THEN {"unretired", "tombstones"} ELSE {})
                  \union (IF desktop.next_epoch > 1 THEN {"tombstones"} ELSE {})

(* Nothing a correct producer sends makes the SDK refuse it: no reused slot,  *)
(* stale epoch or generation, sequence gap, full registry or queue, or        *)
(* release overflow, whichever of the two channels is faster and however late *)
(* a RELEASE is.  On one channel the names it must remember fit too, although *)
(* drops wait in the ordered queue while images of new names pass: there are  *)
(* MAX_DRAWABLES + MAX_PENDING of them at most, and that is MAX_SLOTS.        *)
SdkAccepts == fault \subseteq NamesMayFill

(* Retirement is final: once a drop took effect, no image of the drawable up *)
(* to the cutoff is kept or shown, not even one that arrives later on the    *)
(* other channel.                                                            *)
NoZombie ==
    \A l \in desktop.resources \union frames.windows \union frames.owner :
        l.d \in Drawable => ~(Id(l) \preceq past.cutoff[l.d])

(* A readback answered "ok" is given the bytes of the very request that is   *)
(* waiting, never those of a cancelled one whose answer came late.           *)
AnswerIsOwn == answer.outcome = "ok" => answer.of = answer.asked

(* An image leased by the SDK keeps its identity on both sides: the slot it  *)
(* lies in is still published under that epoch and generation, so the device *)
(* renders over nothing the presentation thread may still read.              *)
LeasesBacked ==
    \A l \in Live : l.d \in Drawable =>
        LET slot == slots[l.index]
        IN slot.state = "published" /\ slot.epoch = l.epoch /\ slot.generation = l.generation

(* Publication is sound: the two sides have the types their code assumes, no *)
(* assertion of the device fails, and what the SDK leases the device keeps.  *)
PublicationSound == TypeOK /\ AssertionsHold /\ LeasesBacked

(* No correct producer is turned away: neither by its own output queue nor,  *)
(* whatever the channels reorder, by the SDK.                                *)
NeverRefused == ImagesAlwaysFit /\ SdkAccepts

(* Nothing out of date is used: no image of a retired drawable is shown, and *)
(* no answer of a cancelled request is taken for the one asked for.          *)
NothingStale == NoZombie /\ AnswerIsOwn

(* Who may touch a buffer, read off the two sides and what travels.          *)
Travelling(i) == \/ \E k \in DOMAIN unix : \/ unix[k].kind \in Image /\ unix[k].index = i
                                           \/ unix[k].kind \in CpuKinds /\ unix[k].lease.index = i
                 \/ \E k \in DOMAIN mach : mach[k].index = i
Unsent(i) == \/ \E k \in DOMAIN output.items : LET j == output.items[k]
                   IN ~j.slot /\ j.op.kind \in CpuKinds /\ j.op.lease.index = i
             \/ \E s \in sending : /\ s.stage # "sent"
                                   /\ IF s.job.slot THEN s.job.index = i
                                      ELSE s.job.op.kind \in CpuKinds /\ s.job.op.lease.index = i
Taken1(i) == IF i \in CPU THEN cpu[i].published ELSE slots[i].state # "free"
Holder(i) ==
    CASE ~Taken1(i) -> "free"
      [] Travelling(i) \/ \E l \in Live : l.index = i -> "read"
      [] Unsent(i) \/ (i \in Index /\ slots[i].state \in {"rendering", "pending"}) -> "written"
      [] OTHER -> "returned"

Contract == INSTANCE LeaseContract WITH
    Buffer <- Index \union CPU, holder <- [i \in Index \union CPU |-> Holder(i)]

(* Image slots and CPU allocations are exchanged as LeaseContract says:      *)
(* written, read, returned, and written again only after the device learnt   *)
(* of the return, across late, early and lost releases and a hangup.         *)
ExchangesBuffers == Contract!LeaseSpec

(* The ordered stream reaches the presentation thread in order: every batch  *)
(* that is taken is one the canvas draws, whatever returns, resets, detached *)
(* discards and lifecycle records came before it.                            *)
CanvasAccepts == [][\A t \in taking' \ taking : t.op.kind = "none" \/ Validates(t.op)]_vars

(* Every image and CPU allocation that was sent comes back, unless the       *)
(* connection ends or the SDK still keeps a retained image: no release is    *)
(* swallowed because it overtook the settling of its own send.               *)
Returned == \A i \in Index :
    (slots[i].state \in {"pending", "published"} /\ slots[i].image # "retained")
        ~> (slots[i].state = "free" \/ closed)

(* The receiver that sleeps on a full ordered queue wakes when the           *)
(* presentation thread makes room, or the connection ends.                   *)
SleeperWakes == waiting ~> (~waiting \/ closed)

(* A return that is taken while a newer seed was already queued does not     *)
(* reopen CPU delivery: the newest authority the receiver queued decides     *)
(* whether the GPU desktop is active.                                        *)
OlderReturnKeepsDesktop == past.authority = "gpu" => active
=============================================================================
