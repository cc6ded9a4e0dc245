------------------------------ MODULE GlDriver ------------------------------
(***************************************************************************)
(* The guest side of the queued GL transport: guest/include/dg-gl-queue.h, *)
(* called by the NT miniport, guest/nt/miniport/transport.cpp.  Every call *)
(* holds the driver's GL mutex, so one request is in the driver at a time  *)
(* (pc).  Its shared accesses interleave with the device and the engine,   *)
(* so each step makes at most one load or one group of stores that the     *)
(* code separates with a fence.                                            *)
(***************************************************************************)
EXTENDS GlPage, FaultTable

CONSTANTS
  Clients,        \* processes with a driver token
  ClientOf,       \* the client of each domain
  Kinds,          \* bound: the kinds of requests that are made
  Impatient       \* the 2 s watchdog may fire although the host is still working

ASSUME DriverConstants ==
  ClientOf \in [Domains -> Clients] /\ Impatient \in BOOLEAN
  /\ Kinds \subseteq {"open", "submit", "close", "kernel"}

VARIABLES
  active,        \* the driver believes its queue is enabled
  qGeneration,   \* ... for this engine generation
  produced,      \* entries published in this generation
  reaped,        \* entries whose outcome the driver has recorded
  owners,        \* the request behind each entry slot
  faults,        \* the table of unreported failures
  glFaulted,     \* a watchdog fired: the driver has stopped
  clientGen,     \* generation each client was opened in; -1 before, -2 closed
  pc, call,      \* where the request in the driver is, and what it asks for
  ensureFor,     \* where QueueEnsure returns to
  reapFor,       \* where Reap returns to
  upTo,          \* the COMPLETED word Reap read, or the register QueueEnsure read
  waitFor,       \* the counter, target and purpose of WaitFor
  waited,        \* its result
  event,         \* the completion event
  issued,        \* auxiliary: every batch written to the ring, in order
  settled,       \* auxiliary: the outcome the driver recorded for each batch
  told           \* auxiliary: batches named by a DEFERRED reply

queueVars  == <<active, qGeneration, produced, reaped>>
clientVars == <<glFaulted, clientGen>>
localVars  == <<call, ensureFor, reapFor, upTo, waitFor, waited>>
driverVars == <<queueVars, clientVars, localVars, owners, faults, pc, event, issued,
                settled, told>>

(* What most steps of the driver leave alone. *)
PageUntouched == UNCHANGED <<pageVars, wireVars>>

Owner   == [batch : Batches \cup {0}, dom : Domains \cup {NoDomain}, async : BOOLEAN]
NoOwner == [batch |-> 0, dom |-> NoDomain, async |-> FALSE]
NoCall  == [kind |-> "none", client |-> {}, dom |-> NoDomain, async |-> FALSE,
            coherent |-> FALSE, gen |-> 0]
NoWait  == [which |-> "completed", target |-> 0, use |-> "entry"]

DomainsOf(client) == {d \in Domains : ClientOf[d] = client}

DriverInit ==
  /\ active = FALSE /\ qGeneration = 0 /\ produced = 0 /\ reaped = 0
  /\ owners = [s \in Slots |-> NoOwner]
  /\ faults = [i \in 1..TableSlots |-> NoFault]
  /\ glFaulted = FALSE /\ clientGen = [c \in Clients |-> -1]
  /\ pc = "idle" /\ call = NoCall /\ ensureFor = "admit" /\ reapFor = "admit"
  /\ upTo = 0 /\ waitFor = NoWait /\ waited = "reached" /\ event = FALSE
  /\ issued = <<>> /\ settled = [b \in Batches |-> "unset"] /\ told = {}

(* DgGlQueueCurrent: no engine reset since the queue was enabled. *)
Current == active /\ pgActive /\ pgGeneration = qGeneration

(* CurrentGeneration: from the page, or else from the register. *)
CurrentGeneration == IF Current THEN qGeneration ELSE generation

At(label) == pc = label /\ ~halted

-----------------------------------------------------------------------------
ClientDomains == UNION {DomainsOf(c) : c \in call.client}

(* A request returns to its caller and releases the mutex. *)
Return ==
  /\ pc' = "idle" /\ call' = NoCall /\ waitFor' = NoWait /\ waited' = "reached"
  /\ upTo' = 0 /\ ensureFor' = "admit" /\ reapFor' = "admit"

(* It returns with this fault table; closing a client, whatever came of its
   last batch, drops what the client was not told. *)
Leave(table) ==
  /\ Return
  /\ IF call.kind = "close"
     THEN /\ faults' = DropFaults(table, ClientDomains)
          /\ clientGen' = [c \in Clients |-> IF c \in call.client THEN -2 ELSE clientGen[c]]
     ELSE faults' = table /\ UNCHANGED clientGen

(* A request enters: a client opens, submits to a stream (with or without waiting)
   or closes, or the display driver submits records of its own. *)
CanIssue == Len(issued) < MaxBatches
Open == {c \in Clients : clientGen[c] >= 0}

OpenCalls   == {[NoCall EXCEPT !.kind = "open", !.client = {c}] :
                  c \in {k \in Clients : clientGen[k] = -1}}
SubmitCalls == UNION {{[NoCall EXCEPT !.kind = "submit", !.client = {ClientOf[d]}, !.dom = d,
                                      !.async = a] : a \in BOOLEAN} :
                        d \in {e \in Domains : ClientOf[e] \in Open}}
CloseCalls  == {[NoCall EXCEPT !.kind = "close", !.client = {c}] : c \in Open}
KernelCalls == {[NoCall EXCEPT !.kind = "kernel", !.coherent = x] : x \in BOOLEAN}

Requests == OpenCalls \cup (IF CanIssue THEN SubmitCalls \cup CloseCalls \cup KernelCalls ELSE {})

Request ==
  /\ At("idle")
  /\ call' \in {r \in Requests : r.kind \in Kinds}
  /\ pc' = "ensure"
  /\ ensureFor' = IF call'.kind \in {"open", "submit"} THEN "admit" ELSE "buffer"
  /\ PageUntouched
  /\ UNCHANGED <<queueVars, clientVars, owners, faults, reapFor, upTo, waitFor, waited, event,
                 issued, settled, told>>

(* QueueEnsure: nothing to do while the queue is current; else record what was
   lost, read GENERATION, and enable the queue for it. *)
Ensure ==
  /\ At("ensure")
  /\ IF Current THEN pc' = ensureFor /\ UNCHANGED reapFor
                ELSE pc' = "reap" /\ reapFor' = "register"
  /\ PageUntouched
  /\ UNCHANGED <<queueVars, clientVars, owners, faults, call, ensureFor, upTo, waitFor, waited,
                 event, issued, settled, told>>

ReadGeneration ==
  /\ At("register")
  /\ upTo' = generation
  /\ pc' = "stores"
  /\ PageUntouched
  /\ UNCHANGED <<queueVars, clientVars, owners, faults, call, ensureFor, reapFor, waitFor, waited,
                 event, issued, settled, told>>

(* DgGlQueueEnable: blank the guest words and the owners ... *)
EnableStores ==
  /\ At("stores")
  /\ pgProduced' = 0 /\ pgWait' = "none" /\ pgTarget' = [c \in Counters |-> 0]
  /\ owners' = [s \in Slots |-> NoOwner]
  /\ pc' = "control"
  /\ UNCHANGED <<deviceWords, ring, status, buffer, wireVars>>
  /\ UNCHANGED <<queueVars, clientVars, faults, localVars, event, issued, settled, told>>

(* ... write QUEUE_CONTROL, which the device serves before the processor goes
   on (EnableQueue is the other half of this step) ... *)
WriteControl ==
  /\ At("control")
  /\ pc' = "enabled"
  /\ UNCHANGED <<pgProduced, pgWait, pgTarget, ring, status, buffer, wireVars>>
  /\ UNCHANGED <<queueVars, clientVars, localVars, owners, faults, event, issued, settled, told>>

(* ... and read it back.  A page that is not current is not used. *)
Enabled(control) ==
  /\ At("enabled")
  /\ IF control
     THEN /\ qGeneration' = upTo /\ produced' = 0 /\ reaped' = 0
          /\ active' = (pgActive /\ pgGeneration = upTo)
     ELSE UNCHANGED queueVars
  /\ pc' = ensureFor /\ upTo' = 0
  /\ PageUntouched
  /\ UNCHANGED <<clientVars, owners, faults, call, ensureFor, reapFor, waitFor, waited, event,
                 issued, settled, told>>

-----------------------------------------------------------------------------
CompletedWord == pgCompleted

(* DgGlQueueReap begins: a queue that is no longer current has lost its
   unreaped entries; otherwise read COMPLETED, never beyond what was published. *)
ReapBegin ==
  /\ At("reap")
  /\ IF Current
     THEN /\ upTo' = IF CompletedWord - reaped \in 0..(produced - reaped)
                     THEN CompletedWord ELSE produced
          /\ pc' = "reaping"
     ELSE /\ pc' = IF active THEN "lose" ELSE reapFor
          /\ UNCHANGED upTo
  /\ PageUntouched
  /\ UNCHANGED <<queueVars, clientVars, owners, faults, call, ensureFor, reapFor, waitFor, waited,
                 event, issued, settled, told>>

FaultOf(owner, error) == [dom |-> owner.dom, error |-> error, batch |-> owner.batch]

(* The outcome of an entry: a failure of an asynchronous request with a stream
   is kept for its client. *)
Record(owner, outcome) ==
  /\ faults' = IF outcome \in Error /\ owner.async /\ owner.dom # NoDomain
               THEN AddFault(faults, FaultOf(owner, outcome)) ELSE faults
  /\ settled' = [settled EXCEPT ![owner.batch] = outcome]
  /\ reaped' = reaped + 1

(* Reap one completed entry. *)
ReapOne ==
  /\ At("reaping")
  /\ LET s == SlotOf(reaped) IN
     IF reaped # upTo
     THEN Record(owners[s], status[s]) /\ UNCHANGED <<pc, upTo>>
     ELSE pc' = reapFor /\ upTo' = 0 /\ UNCHANGED <<reaped, faults, settled>>
  /\ PageUntouched
  /\ UNCHANGED <<active, qGeneration, produced, clientVars, owners, call, ensureFor, reapFor,
                 waitFor, waited, event, issued, told>>

(* DgGlQueueLose, one unreaped entry at a time: it fails with the generation. *)
LoseOne ==
  /\ At("lose")
  /\ IF reaped # produced
     THEN Record(owners[SlotOf(reaped)], "generation") /\ UNCHANGED <<active, pc>>
     ELSE active' = FALSE /\ pc' = reapFor /\ UNCHANGED <<reaped, faults, settled>>
  /\ PageUntouched
  /\ UNCHANGED <<qGeneration, produced, clientVars, localVars, owners, event, issued, told>>

-----------------------------------------------------------------------------
(* The escape reads the generation it answers with; a stopped driver refuses it.
   OPEN makes a client of that generation; SUBMIT first reaps, to report what
   failed before. *)
Admit ==
  /\ At("admit")
  /\ \/ glFaulted /\ Return /\ UNCHANGED clientGen
     \/ /\ ~glFaulted /\ call.kind = "open" /\ Return
        /\ clientGen' = [c \in Clients |-> IF c \in call.client THEN CurrentGeneration
                                           ELSE clientGen[c]]
     \/ /\ ~glFaulted /\ call.kind # "open"
        /\ call' = [call EXCEPT !.gen = CurrentGeneration]
        /\ pc' = "reap" /\ reapFor' = "report"
        /\ UNCHANGED <<clientGen, ensureFor, upTo, waitFor, waited>>
  /\ PageUntouched
  /\ UNCHANGED <<queueVars, glFaulted, owners, faults, event, issued, settled, told>>

(* DG_ESCAPE_DEFERRED: an unreported failure of any stream of this client is
   reported instead of running the request. *)
Defer(domains) ==
  LET i == TakeSlot(faults, domains) IN
    /\ told' = told \cup {faults[i].batch}
    /\ faults' = WithoutSlot(faults, i)

Report ==
  /\ At("report")
  /\ IF FaultsIn(faults, ClientDomains) # {}
     THEN Defer(ClientDomains) /\ Return
     ELSE /\ pc' = "ensure" /\ ensureFor' = "buffer"
          /\ UNCHANGED <<faults, told, call, reapFor, upTo, waitFor, waited>>
  /\ PageUntouched
  /\ UNCHANGED <<queueVars, clientVars, owners, event, issued, settled>>

-----------------------------------------------------------------------------
(* GlBuild: without a current queue the register transport serves the request;
   else DgGlQueueBuffer reaps and waits for an entry and for a buffer. *)
BufferBegin ==
  /\ At("buffer")
  /\ IF Current THEN /\ pc' = "reap" /\ reapFor' = "claim"
                     /\ UNCHANGED <<call, ensureFor, upTo, waitFor, waited, faults, clientGen>>
                ELSE Leave(faults)
  /\ PageUntouched
  /\ UNCHANGED <<queueVars, glFaulted, owners, event, issued, settled, told>>

WaitOn(which, target, use) ==
  waitFor' = [which |-> which, target |-> target, use |-> use] /\ pc' = "wait"

(* Faulty variant: a buffer is reused one batch early. *)
BufferTargetLate == produced - Buffers

Full         == produced - reaped >= Depth
BufferTarget == produced - Buffers + 1

(* A queue lost before any wait: nothing is submitted. *)
Claim ==
  /\ At("claim")
  /\ IF ~active THEN Leave(faults)
     ELSE /\ IF Full
             THEN WaitOn("completed", produced - Depth + 1, "slot")
             ELSE pc' = "claimBuffer" /\ UNCHANGED waitFor
          /\ UNCHANGED <<call, ensureFor, reapFor, upTo, waited, faults, clientGen>>
  /\ PageUntouched
  /\ UNCHANGED <<queueVars, glFaulted, owners, event, issued, settled, told>>

ClaimBuffer ==
  /\ At("claimBuffer")
  /\ IF Holds("consumed", BufferTarget)
     THEN pc' = "fill" /\ UNCHANGED waitFor
     ELSE WaitOn("consumed", BufferTarget, "buffer")
  /\ PageUntouched
  /\ UNCHANGED <<queueVars, clientVars, owners, faults, call, ensureFor, reapFor, upTo, waited,
                 event, issued, settled, told>>

-----------------------------------------------------------------------------
(* DgGlQueueWaitFor.  Its result goes through Reap, except that a free buffer
   is used at once. *)
WaitResult(result) ==
  /\ waited' = result
  /\ IF waitFor.use = "buffer" /\ result = "reached"
     THEN pc' = "fill" /\ UNCHANGED reapFor
     ELSE pc' = "reap" /\ reapFor' = "waited"

(* Look ... *)
WaitLook ==
  /\ At("wait")
  /\ IF ~Current \/ Holds(waitFor.which, waitFor.target)
     THEN WaitResult(IF Current THEN "reached" ELSE "lost")
     ELSE pc' = "arm" /\ UNCHANGED <<waited, reapFor>>
  /\ PageUntouched
  /\ UNCHANGED <<queueVars, clientVars, owners, faults, call, ensureFor, upTo, waitFor, event,
                 issued, settled, told>>

(* ... then arm: reset the event, store the target and WAIT. *)
WaitArm ==
  /\ At("arm")
  /\ event' = FALSE
  /\ pgTarget' = [pgTarget EXCEPT ![waitFor.which] = waitFor.target]
  /\ pgWait' = waitFor.which
  /\ pc' = "recheck"
  /\ UNCHANGED <<deviceWords, pgProduced, ring, status, buffer, wireVars>>
  /\ UNCHANGED <<queueVars, clientVars, localVars, owners, faults, issued, settled, told>>

Disarm(label) ==
  /\ pgWait' = "none" /\ pc' = label
  /\ UNCHANGED <<deviceWords, pgProduced, pgTarget, ring, status, buffer, wireVars>>

(* Faulty variant: the counter is not looked at again. *)
RecheckLostOnly == ~Current

Recheck == Holds(waitFor.which, waitFor.target) \/ ~Current

(* After the fence, look again before sleeping. *)
WaitRecheck ==
  /\ At("recheck")
  /\ IF Recheck
     THEN Disarm("wait")
     ELSE pc' = "asleep" /\ PageUntouched
  /\ UNCHANGED <<queueVars, clientVars, localVars, owners, faults, event, issued, settled, told>>

Wake ==
  /\ At("asleep") /\ event
  /\ Disarm("wait")
  /\ UNCHANGED <<queueVars, clientVars, localVars, owners, faults, event, issued, settled, told>>

TimedOut == IF ~Current THEN "lost"
            ELSE IF Holds(waitFor.which, waitFor.target) THEN "reached" ELSE "timeout"

(* The watchdog ends the sleep; an impatient one although work goes on. *)
Watchdog ==
  /\ At("asleep") /\ ~event
  /\ Impatient \/ ~Current
  /\ WaitResult(TimedOut)
  /\ pgWait' = "none"
  /\ UNCHANGED <<deviceWords, pgProduced, pgTarget, ring, status, buffer, wireVars>>
  /\ UNCHANGED <<queueVars, clientVars, owners, faults, call, ensureFor, upTo, waitFor, event,
                 issued, settled, told>>

(* After the wait and its Reap: go on, or return that the outcome is unknown,
   a watchdog stopping the driver. *)
Waited ==
  /\ At("waited")
  /\ IF waited = "reached"
     THEN /\ pc' = IF waitFor.use = "slot" THEN "claimBuffer" ELSE "answer"
          /\ UNCHANGED <<localVars, faults, clientVars>>
     ELSE glFaulted' = (glFaulted \/ waited = "timeout") /\ Leave(faults)
  /\ PageUntouched
  /\ UNCHANGED <<queueVars, owners, event, issued, settled, told>>

-----------------------------------------------------------------------------
(* Copy the batch into its buffer and validate it: a client's records must name
   the generation it was opened in.  A stopped driver, or one whose batch is
   invalid, goes no further; else write the entry's words. *)
RequestOwner(batch) == [batch |-> batch, dom |-> call.dom, async |-> call.async]

RequestEntry(batch, gen) ==
  [batch |-> batch, buffer |-> BufferOf(produced), gen |-> gen, dom |-> call.dom,
   query |-> call.kind = "submit" /\ ~call.async, coherent |-> call.coherent]

Stamp == IF call.kind = "submit" THEN call.gen ELSE CurrentGeneration

Valid == call.kind = "submit" => \A c \in call.client : clientGen[c] = call.gen

Fill ==
  LET batch == Len(issued) + 1
      slot  == SlotOf(produced) IN
  /\ At("fill")
  /\ IF Valid /\ ~glFaulted
     THEN /\ buffer' = [buffer EXCEPT ![BufferOf(produced)] = batch]
          /\ ring'   = [ring EXCEPT ![slot] = RequestEntry(batch, Stamp)]
          /\ status' = [status EXCEPT ![slot] = "unset"]
          /\ owners' = [owners EXCEPT ![slot] = RequestOwner(batch)]
          /\ issued' = Append(issued, [dom |-> call.dom, async |-> call.async,
                         coherent |-> call.coherent, queue |-> qGeneration, live |-> active,
                         index |-> produced])
          /\ pc' = "publish" /\ UNCHANGED <<localVars, faults, clientGen>>
     ELSE /\ buffer' = [buffer EXCEPT ![BufferOf(produced)] = 0]
          /\ Leave(faults) /\ UNCHANGED <<ring, status, owners, issued>>
  /\ UNCHANGED <<deviceWords, pgProduced, pgWait, pgTarget, wireVars>>
  /\ UNCHANGED <<queueVars, glFaulted, event, settled, told>>

(* After the fence, PRODUCED ... *)
Publish ==
  /\ At("publish")
  /\ produced' = produced + 1 /\ pgProduced' = produced + 1
  /\ pc' = "ring"
  /\ UNCHANGED <<deviceWords, pgWait, pgTarget, ring, status, buffer, wireVars>>
  /\ UNCHANGED <<active, qGeneration, reaped, clientVars, localVars, owners, faults, event,
                 issued, settled, told>>

(* ... and the doorbell.  An asynchronous request returns, a synchronous one
   waits for its entry. *)
Ring ==
  /\ At("ring")
  /\ doorbell' = TRUE
  /\ IF call.async THEN Return
     ELSE WaitOn("completed", produced, "entry")
          /\ UNCHANGED <<call, ensureFor, reapFor, upTo, waited>>
  /\ UNCHANGED <<pageVars, irq, generation, halted>>
  /\ UNCHANGED <<queueVars, clientVars, owners, faults, event, issued, settled, told>>

(* Faulty variant: the outcome of the entry after it. *)
AnswerSlotNext == SlotOf(waitFor.target)

(* DgGlQueueWaitEntry reads the outcome.  A skipped entry is answered with the
   failure of its stream it was skipped for, once. *)
AnswerSlot == SlotOf(waitFor.target - 1)

SkippedFor == call.kind = "submit" /\ status[AnswerSlot] = "skipped"

Answer ==
  /\ At("answer")
  /\ IF SkippedFor /\ FaultsIn(faults, {call.dom}) # {}
     THEN Defer({call.dom}) /\ Return /\ UNCHANGED clientGen
     ELSE Leave(faults) /\ UNCHANGED told
  /\ PageUntouched
  /\ UNCHANGED <<queueVars, glFaulted, owners, event, issued, settled>>

(* The interrupt's deferred procedure sets the event. *)
Interrupt ==
  /\ irq
  /\ irq' = FALSE /\ event' = TRUE
  /\ UNCHANGED <<pageVars, doorbell, generation, halted>>
  /\ UNCHANGED <<queueVars, clientVars, localVars, owners, faults, pc, issued, settled, told>>
=============================================================================
