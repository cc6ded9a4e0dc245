------------------------------ MODULE GlDevice ------------------------------
(***************************************************************************)
(* The device side of the queued GL transport,                             *)
(* crates/dreamgpu-host/src/queue.rs.  Its handlers run under QEMU's global*)
(* lock, so one handler runs at a time (dpc); the guest's processors run   *)
(* meanwhile, so a handler is one step per access to the shared page.      *)
(*                                                                         *)
(* The adapter that calls these handlers is not part of this repository.   *)
(* What it does is modelled from queue.rs's contracts and the tests that   *)
(* drive it: it serves a doorbell with `consume', polls the engine, passes *)
(* completions of the current generation to `complete' while entries are   *)
(* unfinished, and calls `consume' again afterwards.                       *)
(***************************************************************************)
EXTENDS GlPage

CONSTANT
  Refusals    \* an allocation of the engine may fail, refusing one marker

(* The engine's completion ring holds a completion of every unfinished entry
   (submission.rs: DG_GL_QUEUE_DEPTH is 16, DONE is 64). *)
ASSUME DeviceConstants == Refusals \in BOOLEAN /\ Depth <= DoneSlots

VARIABLES
  qActive,     \* the queue is enabled
  consumed,    \* entries consumed in this generation
  completed,   \* entries completed in this generation
  entries,     \* consumed, unfinished entries, oldest first
  qFaults,     \* domains that failed since the last reset, oldest first
  dpc,         \* where the running handler is
  handler,     \* the handler that runs: "consume" or "complete"
  published,   \* the PRODUCED word that `consume' read
  credit,      \* at most one: the completion `complete' was called with
  finishing,   \* at most one: the entry being finished
  armed        \* the WAIT word that the wait check read

deviceVars == <<qActive, consumed, completed, entries, qFaults, dpc, handler,
                published, credit, finishing, armed>>

QueueEntry == [batch : Batches \cup {0}, slot : Slots, dom : Domains \cup {NoDomain},
               query : BOOLEAN, coherent : BOOLEAN, error : Outcome, engine : BOOLEAN]

DeviceInit ==
  /\ qActive = FALSE /\ consumed = 0 /\ completed = 0 /\ entries = <<>>
  /\ qFaults = <<>> /\ dpc = "idle" /\ handler = "consume" /\ published = 0
  /\ credit = {} /\ finishing = {} /\ armed = "none"

-----------------------------------------------------------------------------
Restart == consumed' = 0 /\ completed' = 0

(* dreamgpu_queue_enable: the QUEUE_CONTROL write for generation g.  An idle
   queue of the current generation starts over; anything else is refused. *)
EnableQueue(g) ==
  IF g = generation /\ entries = <<>>
  THEN /\ qActive' = TRUE /\ pgActive' = TRUE /\ pgGeneration' = g
       /\ Restart /\ pgConsumed' = 0 /\ pgCompleted' = 0
  ELSE UNCHANGED <<qActive, pgActive, pgGeneration, consumed, completed,
                   pgConsumed, pgCompleted>>

(* dreamgpu_queue_consume begins: read PRODUCED; a driver that overwrote
   entries it did not own stops the queue. *)
ConsumeBegin ==
  /\ dpc = "idle" /\ doorbell
  /\ doorbell' = FALSE
  /\ IF ~qActive
     THEN UNCHANGED <<qActive, pgActive, dpc, handler, published>>
     ELSE IF pgProduced - consumed \in 0..Depth /\ pgProduced - completed \in 0..Depth
     THEN /\ dpc' = "take" /\ handler' = "consume" /\ published' = pgProduced
          /\ UNCHANGED <<qActive, pgActive>>
     ELSE /\ qActive' = FALSE /\ pgActive' = FALSE
          /\ UNCHANGED <<dpc, handler, published>>
  /\ UNCHANGED <<engineVars, pgGeneration, pgConsumed, pgCompleted, pgProduced, pgWait,
                 pgTarget, ring, status, buffer, irq, generation, halted, consumed,
                 completed, entries, qFaults, credit, finishing, armed>>

(* What the checks before execution say of an entry: its domain has failed, its
   generation is stale, or its records are accepted or rejected.  A driver's entry has
   no reserved word set (DgGlQueuePublish), a legal size and a buffer of the driver's
   that can be read: what the device refuses before it has looked through the records
   does not occur here. *)
Verdicts(e) ==
  IF Faulted(qFaults, e.dom) THEN {"skipped"}
  ELSE IF e.gen # generation THEN {"generation"}
  ELSE {"failed"} \cup (IF Accepts THEN {"none"} ELSE {})

(* A READBACK or RETURN is recognised before its records are validated, so an entry
   with one that fails is known to have it; one that is skipped or stale is not. *)
Consumed(e, error, engine) ==
  [batch |-> buffer[e.buffer], slot |-> SlotOf(consumed), dom |-> e.dom,
   query |-> e.query /\ error = "none",
   coherent |-> e.coherent /\ error \in {"none", "failed"},
   error |-> error, engine |-> engine]

(* The engine batch of an entry, or the marker that only completes with error.
   The command bytes are copied here. *)
EngineBatch(e, error) ==
  [batch |-> buffer[e.buffer], gen |-> generation, dom |-> e.dom, error |-> error]

(* Faulty variant: a rejected entry never waits for its turn. *)
NeverBehind == FALSE

(* Earlier entries are unfinished: a rejected one has to wait for its turn. *)
Behind == entries # <<>>

(* One entry of the consume loop.  A rejected entry completes at once when it is
   alone; otherwise it waits for its turn, behind a marker in the engine. *)
ConsumeEntry ==
  /\ dpc = "take" /\ consumed # published /\ Len(entries) < Depth
  /\ consumed' = consumed + 1
  /\ LET e == ring[SlotOf(consumed)] IN
     \E error \in Verdicts(e) :
       \/ /\ error = "none" \/ Behind
          /\ Submit(EngineBatch(e, error))
          /\ entries' = Append(entries, Consumed(e, error, TRUE))
          /\ UNCHANGED <<dpc, finishing>>
       \/ /\ error # "none" /\ Behind /\ (Refusals \/ ~Accepts)
          /\ entries' = Append(entries, Consumed(e, error, FALSE))
          /\ UNCHANGED <<engineVars, dpc, finishing>>
       \/ /\ error # "none" /\ ~Behind
          /\ finishing' = {[entry |-> Consumed(e, error, FALSE), error |-> error]}
          /\ dpc' = "finish"
          /\ UNCHANGED <<engineVars, entries>>
  /\ UNCHANGED <<pageVars, wireVars, qActive, completed, qFaults, handler, published,
                 credit, armed>>

(* The loop ends when everything published is consumed, the ring is full, or
   the snapshot budget (PENDING_BYTES) is spent, which needs an unfinished
   entry; then CONSUMED is written. *)
ConsumeEnd ==
  /\ dpc = "take"
  /\ consumed = published \/ entries # <<>>
  /\ pgConsumed' = consumed
  /\ dpc' = "fence"
  /\ UNCHANGED <<engineVars, wireVars, pgActive, pgGeneration, pgCompleted, pgProduced,
                 pgWait, pgTarget, ring, status, buffer, qActive, consumed, completed,
                 entries, qFaults, handler, published, credit, finishing, armed>>

(* Faulty variant: a completion of an earlier generation is credited too. *)
WantedOfAnyGeneration(c) == ~c.reset /\ entries # <<>>

Wanted(c) == ~c.reset /\ c.gen = generation /\ entries # <<>>

(* The main loop polls a completion: dreamgpu_queue_complete begins for one of
   the current generation while entries are unfinished; others are dropped. *)
CompleteBegin ==
  /\ dpc = "idle"
  /\ Poll
  /\ IF Wanted(Head(done))
     THEN credit' = {Head(done)} /\ dpc' = "drain" /\ handler' = "complete"
     ELSE UNCHANGED <<credit, dpc, handler>>
  /\ UNCHANGED <<pageVars, wireVars, qActive, consumed, completed, entries, qFaults,
                 published, finishing, armed>>

Pop(error) ==
  /\ entries' = Tail(entries)
  /\ finishing' = {[entry |-> Head(entries), error |-> error]}
  /\ dpc' = "finish"

(* drain_unowned: an entry no engine took completes once it is the oldest. *)
DrainUnowned ==
  /\ dpc = "drain" /\ entries # <<>> /\ ~Head(entries).engine
  /\ Pop(Head(entries).error)
  /\ UNCHANGED <<engineVars, pageVars, wireVars, qActive, consumed, completed, qFaults,
                 handler, published, credit, armed>>

(* Faulty variant: a failed READBACK or RETURN completes like any other. *)
StopsNever(c, e) == FALSE

StopsGuest(c, e) == c.error # "none" /\ e.coherent

(* Credit the completion to the oldest entry.  A failed READBACK or RETURN stops
   the guest first; a query result that cannot be written is a failure. *)
CreditOldest ==
  /\ dpc = "drain" /\ entries # <<>> /\ Head(entries).engine
  /\ \E c \in credit :
       /\ halted' = (halted \/ StopsGuest(c, Head(entries)))
       /\ \E error \in {c.error} \cup
                       (IF c.error = "none" /\ Head(entries).query THEN {"failed"} ELSE {}) :
            Pop(error)
  /\ credit' = {}
  /\ UNCHANGED <<engineVars, pageVars, doorbell, irq, generation, qActive, consumed,
                 completed, qFaults, handler, published, armed>>

(* Faulty variant: entries are drained before the completion only. *)
DrainedOnce == credit = {}

Drained == entries # <<>> => Head(entries).engine /\ credit = {}

(* The last drain is done; a completion that found no entry ends the handler
   without looking at WAIT. *)
CompleteEnd ==
  /\ dpc = "drain" /\ Drained
  /\ dpc' = IF credit = {} THEN "fence" ELSE "idle"
  /\ credit' = {}
  /\ UNCHANGED <<engineVars, pageVars, wireVars, qActive, consumed, completed, entries,
                 qFaults, handler, published, finishing, armed>>

(* `finish': write the entry's STATUS, remember the domain of a failure ... *)
FinishStatus ==
  /\ dpc = "finish"
  /\ \E f \in finishing :
       /\ status' = [status EXCEPT ![f.entry.slot] = f.error]
       /\ qFaults' = IF f.error # "none" THEN Fault(qFaults, f.entry.dom) ELSE qFaults
  /\ dpc' = "count"
  /\ UNCHANGED <<engineVars, wireVars, pgActive, pgGeneration, pgConsumed, pgCompleted,
                 pgProduced, pgWait, pgTarget, ring, buffer, qActive, consumed, completed,
                 entries, handler, published, credit, finishing, armed>>

(* ... fence, then count the completion. *)
FinishCount ==
  /\ dpc = "count"
  /\ completed' = completed + 1 /\ pgCompleted' = completed + 1
  /\ finishing' = {}
  /\ dpc' = IF handler = "consume" THEN "take" ELSE "drain"
  /\ UNCHANGED <<engineVars, wireVars, pgActive, pgGeneration, pgConsumed, pgProduced,
                 pgWait, pgTarget, ring, status, buffer, qActive, consumed, entries, qFaults,
                 handler, published, credit, armed>>

(* wait_satisfied, after the fence: read which counter is armed ... *)
ReadWait ==
  /\ dpc = "fence"
  /\ IF qActive THEN dpc' = "compare" /\ armed' = pgWait
                ELSE dpc' = "idle" /\ UNCHANGED armed
  /\ UNCHANGED <<engineVars, pageVars, wireVars, qActive, consumed, completed, entries,
                 qFaults, handler, published, credit, finishing>>

(* ... and the target it is armed for; interrupt when it is reached.  After a
   completion the adapter serves the queue once more. *)
DeviceCounter(which) == IF which = "completed" THEN completed ELSE consumed

(* Faulty variants: the wait holds one count late; nothing is served again. *)
SatisfiedLate(which) == which \in Counters /\ DeviceCounter(which) > pgTarget[which]
NotAgain == doorbell

Satisfied(which) == which \in Counters /\ DeviceCounter(which) >= pgTarget[which]

Again == doorbell \/ handler = "complete"

CompareWait ==
  /\ dpc = "compare"
  /\ irq' = (irq \/ Satisfied(armed))
  /\ doorbell' = Again
  /\ dpc' = "idle" /\ armed' = "none"
  /\ UNCHANGED <<engineVars, pageVars, generation, halted, qActive, consumed, completed,
                 entries, qFaults, handler, published, credit, finishing>>

ResetAdmitted == dpc = "idle" /\ ~halted

(* The device's engine reset: a new generation, the engine's and the queue's
   reset, and STATE cleared before the register write returns.  A latched
   coherence fault refuses it. *)
DeviceReset ==
  /\ ResetAdmitted /\ generation < MaxGeneration
  /\ generation' = generation + 1
  /\ ResetEngine(generation + 1)
  /\ qActive' = FALSE /\ pgActive' = (pgActive /\ ~qActive)
  /\ entries' = <<>> /\ qFaults' = <<>>
  /\ UNCHANGED <<pgGeneration, pgConsumed, pgCompleted, pgProduced, pgWait, pgTarget, ring,
                 status, buffer, doorbell, irq, halted, consumed, completed, dpc, handler,
                 published, credit, finishing, armed>>

(* The render worker runs beside the device; a stopped guest keeps it going. *)
EngineStep == Worker /\ UNCHANGED <<pageVars, wireVars, deviceVars>>

Device ==
  \/ ConsumeBegin \/ ConsumeEntry \/ ConsumeEnd
  \/ CompleteBegin \/ DrainUnowned \/ CreditOldest \/ CompleteEnd
  \/ FinishStatus \/ FinishCount \/ ReadWait \/ CompareWait
=============================================================================
