------------------------------ MODULE GlQueue ------------------------------
(***************************************************************************)
(* The queued GL transport as a whole: the guest driver (GlDriver), the    *)
(* device (GlDevice) and the render engine (Submission), around the page   *)
(* they share (GlPage).  Their steps interleave; the only joint step is    *)
(* the QUEUE_CONTROL write, which the device serves while the driver's     *)
(* processor waits for it.                                                 *)
(***************************************************************************)
EXTENDS GlDriver, GlDevice

vars == <<engineVars, pageVars, wireVars, deviceVars, driverVars>>

Init == EngineInit /\ PageInit /\ DeviceInit /\ DriverInit

(* A caller enters the driver, and goes on in it.  The QUEUE_CONTROL write is
   ControlStep. *)
Call == Request /\ UNCHANGED <<engineVars, deviceVars>>

Proceed ==
  /\ \/ Ensure \/ ReadGeneration \/ EnableStores \/ Enabled(qActive)
     \/ ReapBegin \/ ReapOne \/ LoseOne \/ Admit \/ Report
     \/ BufferBegin \/ Claim \/ ClaimBuffer
     \/ WaitLook \/ WaitArm \/ WaitRecheck \/ Wake \/ Watchdog \/ Waited
     \/ Fill \/ Publish \/ Ring \/ Answer
  /\ UNCHANGED <<engineVars, deviceVars>>

ControlStep ==
  /\ WriteControl
  /\ dpc = "idle" /\ EnableQueue(upTo)
  /\ UNCHANGED <<engineVars, entries, qFaults, dpc, handler, published, credit, finishing, armed>>

InterruptStep == Interrupt /\ UNCHANGED <<engineVars, deviceVars>>
DeviceStep    == Device /\ UNCHANGED driverVars
ResetStep     == DeviceReset /\ UNCHANGED driverVars
WorkerStep    == EngineStep /\ UNCHANGED driverVars

(* The guest may stay quiet between requests, and does once it is stopped.
   Elsewhere a state without a successor is a deadlock of the program. *)
Quiet == (pc = "idle" \/ halted) /\ UNCHANGED vars

Next ==
  \/ Call \/ Proceed \/ ControlStep \/ InterruptStep
  \/ DeviceStep \/ ResetStep \/ WorkerStep \/ Quiet

Spec == Init /\ [][Next]_vars

(* A request in the driver runs on (a sleeping one when it is woken or its
   watchdog may fire), an asserted interrupt is delivered, QEMU's main loop serves
   its work and the render worker its batches.  Nothing obliges the guest to make
   requests or anyone to reset the engine. *)
Fairness ==
  /\ WF_vars(Proceed) /\ WF_vars(ControlStep) /\ WF_vars(InterruptStep)
  /\ WF_vars(DeviceStep) /\ WF_vars(WorkerStep)

FairSpec == Spec /\ Fairness

-----------------------------------------------------------------------------
(* Properties.                                                             *)

DriverStations ==
  {"idle", "ensure", "register", "stores", "control", "enabled", "admit", "reap", "reaping",
   "lose", "report", "buffer", "claim", "claimBuffer", "wait", "arm", "recheck", "asleep",
   "waited", "fill", "publish", "ring", "answer"}
Call_ == [kind : {"none", "open", "close", "submit", "kernel"}, client : SUBSET Clients,
          dom : Domains \cup {NoDomain}, async : BOOLEAN, coherent : BOOLEAN, gen : Generations]
Wait_ == [which : Counters, target : Int, use : {"slot", "buffer", "entry"}]
Fault_ == [dom : Domains, error : Error, batch : Batches]
Issued_ == [dom : Domains \cup {NoDomain}, async : BOOLEAN, coherent : BOOLEAN,
            queue : Generations, live : BOOLEAN, index : Nat]

ASSUME FaultConstants == NoFault \notin Fault_

PageTypeOK ==
  /\ pgActive \in BOOLEAN /\ pgGeneration \in Generations
  /\ pgConsumed \in Nat /\ pgCompleted \in Nat /\ pgProduced \in Nat
  /\ pgWait \in Counters \cup {"none"} /\ pgTarget \in [Counters -> Int]
  /\ ring \in [Slots -> Entry] /\ status \in [Slots -> Status]
  /\ buffer \in [0..Buffers-1 -> Batches \cup {0}]
  /\ doorbell \in BOOLEAN /\ irq \in BOOLEAN /\ generation \in Generations /\ halted \in BOOLEAN

DeviceTypeOK ==
  /\ qActive \in BOOLEAN /\ consumed \in Nat /\ completed \in Nat /\ published \in Nat
  /\ entries \in Seq(QueueEntry) /\ qFaults \in Seq(Domains)
  /\ dpc \in {"idle", "take", "drain", "finish", "count", "fence", "compare"}
  /\ handler \in {"consume", "complete"} /\ credit \subseteq Completion
  /\ finishing \subseteq [entry : QueueEntry, error : Outcome]
  /\ armed \in Counters \cup {"none"}

DriverTypeOK ==
  /\ active \in BOOLEAN /\ qGeneration \in Generations /\ produced \in Nat /\ reaped \in Nat
  /\ owners \in [Slots -> Owner] /\ faults \in [1..TableSlots -> Fault_ \cup {NoFault}]
  /\ glFaulted \in BOOLEAN /\ clientGen \in [Clients -> Generations \cup {-1, -2}]
  /\ pc \in DriverStations /\ call \in Call_ /\ ensureFor \in {"admit", "buffer"}
  /\ reapFor \in {"admit", "register", "report", "claim", "waited"}
  /\ upTo \in Nat /\ waitFor \in Wait_ /\ waited \in {"reached", "lost", "timeout"}
  /\ event \in BOOLEAN /\ issued \in Seq(Issued_)
  /\ settled \in [Batches -> Status] /\ told \subseteq Batches

(* Every variable of the driver, the page, the device and the engine has its type. *)
TypeOK == EngineTypeOK /\ PageTypeOK /\ DeviceTypeOK /\ DriverTypeOK

(* The counters stay in their window: an enabled device has completed no more than
   it consumed, and consumed no more than is published, and never more than the
   ring holds is published and unfinished.  So dreamgpu_queue_consume never stops a
   queue for a driver that overwrote entries, and the driver never records an
   entry the device has not completed. *)
Window ==
  /\ qActive => completed <= consumed /\ consumed <= pgProduced /\ pgProduced - completed <= Depth
  /\ Current => reaped <= pgCompleted /\ pgCompleted = completed /\ pgConsumed <= consumed
  /\ active => reaped <= produced /\ produced - reaped <= Depth

(* The batch published as entry i of the enabled queue. *)
Published(b) ==
  /\ b \in DOMAIN issued /\ issued[b].live /\ issued[b].queue = generation
  /\ issued[b].index < pgProduced

(* dg-gl-queue.h, header: no published bytes change underneath the device.  Until an
   entry is consumed its ring slot and its command buffer hold the batch that was
   published there, and until it is reaped its slot and its owner still name it. *)
PublishedIntact ==
  qActive /\ active => \A b \in Batches : Published(b) =>
    LET i == issued[b].index
        e == ring[SlotOf(i)] IN
    /\ i >= consumed => e.batch = b /\ buffer[e.buffer] = b
    /\ i >= reaped   => e.batch = b /\ owners[SlotOf(i)].batch = b

(* A completion is credited to the entry it belongs to: the entries the engine took
   are exactly the batches of this generation that it has completed, is running and
   has pending, and both are oldest first.  dreamgpu_queue_complete pops its oldest
   entry and never compares identities. *)
Ours(x) == x.gen = generation /\ x.batch # 0
Names(S) == {x.batch : x \in S}
Owned == {e \in Entries(entries) : e.engine}
Held  == {x \in credit \cup Entries(done) \cup running \cup Entries(pending) : Ours(x)}

OldestFirst ==
  /\ \A i, j \in DOMAIN entries : i < j => entries[i].batch < entries[j].batch
  /\ \A i, j \in DOMAIN pending : i < j => pending[i].batch < pending[j].batch
  /\ \A i, j \in DOMAIN done : i < j /\ Ours(done[i]) =>
       Ours(done[j]) /\ done[i].batch < done[j].batch
  /\ \A c \in credit, x \in Entries(done) \cup running \cup Entries(pending) :
       Ours(x) => c.batch < x.batch
  /\ \A c \in Entries(done), b \in running \cup Entries(pending) : Ours(c) => c.batch < b.batch
  /\ \A r \in running, b \in Entries(pending) : r.batch < b.batch

Correspondence == Names(Owned) = Names(Held) /\ OldestFirst

(* The page and the device agree with the engine: every word has its type, the
   counters stay in their window, and the entries of the queue are the batches the
   engine holds.  The three are one invariant: a completion that is credited to
   another generation's entry breaks it, however far the counters have moved. *)
PageSound == TypeOK /\ Window /\ Correspondence

(* Between handlers the oldest unfinished entry is one the engine will complete, so
   an entry no engine took is never left behind, and the early return of
   dreamgpu_queue_complete, which skips the WAIT check, is never taken. *)
HeadOwned == dpc = "idle" /\ entries # <<>> => Head(entries).engine

(* DgGlQueueWaitFor and wait_satisfied: "one of the two sees the other".  A driver
   asleep on a counter that has reached its target has its event set, an interrupt
   on the way, or a handler that has yet to look at the WAIT word it armed. *)
NoLostWakeup ==
  pc = "asleep" /\ Current /\ Holds(waitFor.which, waitFor.target) =>
    \/ event \/ irq \/ halted
    \/ dpc \in {"take", "drain", "finish", "count", "fence"}
    \/ dpc = "compare" /\ armed = waitFor.which

Succeeded(b) == \E c \in Entries(history) : c.batch = b /\ c.error = "none" /\ ~c.reset
Executed(b)  == \E c \in Entries(history) : c.batch = b /\ ~c.reset

(* What the driver records and answers is what happened: success means that the
   engine ran this very batch and it succeeded; failed or skipped means that it did
   not, or that a synchronous query's result could not be written. *)
Truth(b, outcome) ==
  /\ outcome = "none" => Succeeded(b)
  /\ outcome \in {"failed", "skipped"} /\ issued[b].async => ~Succeeded(b)

OutcomeTruth ==
  /\ \A b \in DOMAIN issued : Truth(b, settled[b])
  /\ pc = "answer" => LET b == ring[AnswerSlot].batch IN
       b = Len(issued) /\ status[AnswerSlot] # "unset" /\ Truth(b, status[AnswerSlot])

(* gl.h: once a batch of a domain fails, its later batches complete without executing
   until engine reset.  No batch is recorded successful after one of its domain in
   the same enabling of the queue was recorded failed. *)
DomainStaysFailed ==
  \A a, b \in DOMAIN issued :
    /\ a < b /\ issued[a].dom = issued[b].dom /\ issued[a].dom # NoDomain
    /\ issued[a].queue = issued[b].queue /\ settled[a] \in Error
    => settled[b] # "none"

Reported(b) == b \in told \/ \E i \in 1..TableSlots : faults[i] # NoFault /\ faults[i].batch = b
ClosedFor(b) == clientGen[ClientOf[issued[b].dom]] = -2

(* docs/architecture.md: a failed asynchronous batch is reported.  A failure the
   driver recorded is in the fault table or was told, itself or as an earlier
   failure of its stream, unless its client has closed. *)
FailureReported ==
  \A b \in DOMAIN issued :
    issued[b].async /\ settled[b] \in Error /\ ~ClosedFor(b)
    => \E a \in 1..b : issued[a].dom = issued[b].dom /\ Reported(a)

(* ... and only once, and only when it did fail or was lost to an engine reset: no
   fault waits in the table for a batch that was already told, or twice. *)
ReportedOnce ==
  \A i \in 1..TableSlots : faults[i] # NoFault =>
    /\ faults[i].batch \notin told
    /\ settled[faults[i].batch] = faults[i].error
    /\ \A j \in 1..TableSlots : faults[j] # NoFault /\ i # j => faults[i].dom # faults[j].dom

(* A failed stream stays failed and its client learns of it, once: nothing of it is
   executed later, nothing is swallowed by a close or a reap in between, and nothing
   is told twice. *)
FailuresTold == DomainStaysFailed /\ FailureReported /\ ReportedOnce

(* Every batch published on a live queue is settled or still owned: when a request
   begins on a current queue, each batch of that queue is recorded or is one of the
   entries between Reaped and Produced. *)
NoSilentLoss ==
  pc = "idle" => \A b \in DOMAIN issued :
    issued[b].live /\ settled[b] = "unset" =>
      active /\ issued[b].queue = qGeneration /\ issued[b].index \in reaped..produced-1

(* No batch is lost or overwritten on its way: what was published stays as it was
   until the device and then the driver are done with it, and each is settled in
   the end. *)
BatchesKept == NoSilentLoss /\ PublishedIntact

(* queue.rs: a failed READBACK or RETURN stops the guest before its completion becomes
   visible.  Where the engine executed or ordered the batch, a running guest never
   records its failure. *)
CoherentStops ==
  \A b \in DOMAIN issued :
    issued[b].coherent /\ Executed(b) => settled[b] # "failed"

(* The contract of gl.h.  What was published is read off the ring history of the
   enabled queue, an outcome off the page until it is reaped and off the driver's
   record afterwards. *)
BatchAt(i) ==
  CHOOSE b \in DOMAIN issued : issued[b].live /\ issued[b].queue = generation /\ issued[b].index = i
SentDomains ==
  IF qActive THEN [i \in 1..pgProduced |-> issued[BatchAt(i - 1)].dom] ELSE <<>>
WrittenOutcomes ==
  IF qActive THEN [i \in 1..completed |-> IF i <= reaped THEN settled[BatchAt(i - 1)]
                                          ELSE status[SlotOf(i - 1)]]
  ELSE <<>>

Contract == INSTANCE GlContract
  WITH Failures <- Error, up <- qActive, sent <- SentDomains, outcomes <- WrittenOutcomes

(* The transport implements the contract: completion in entry order, at most Depth
   unfinished, nothing of a failed domain succeeds, and a reset discards the rest. *)
ImplementsContract == Contract!Spec

(* The watchdog is for a dead host: with a live one every request returns. *)
RequestReturns == (pc # "idle") ~> (pc = "idle" \/ halted)

(* Every published entry completes, or its queue is reset. *)
PublishedCompletes ==
  \A n \in 1..MaxBatches : (pgActive /\ pgProduced >= n) ~> (pgCompleted >= n \/ ~pgActive \/ halted)

=============================================================================
