----------------------------- MODULE Submission -----------------------------
(***************************************************************************)
(* The render engine's batch queue, crates/dreamgpu-host/src/submission.rs *)
(* Batches wait in `pending', one of them runs on the render worker, and   *)
(* their completions wait in `done' until the device's main loop polls     *)
(* them.  A reset drops what has not started, and is acknowledged by the   *)
(* worker with the ticket it copied before it sent the reset packet.       *)
(*                                                                         *)
(* The module is used twice: alone, under an environment that submits any  *)
(* batch (EngineSpec), and as the engine of the queued transport, where    *)
(* the device of GlDevice is that environment.                             *)
(***************************************************************************)
EXTENDS Integers, Sequences, FiniteSets

CONSTANTS
  Pending,        \* batches the engine holds before they start (PENDING)
  DoneSlots,      \* completions it holds before they are polled (DONE)
  FaultSlots,     \* failed domains it remembers (FAULTED)
  Domains,        \* fault domains: a client's stream
  NoDomain,       \* a batch outside every domain (client or stream zero)
  MaxBatches,     \* bound: batches submitted in one behaviour
  MaxGeneration   \* bound: engine resets in one behaviour

ASSUME EngineConstants ==
  /\ Pending \in Nat \ {0} /\ DoneSlots \in Nat \ {0} /\ FaultSlots \in Nat \ {0}
  /\ MaxBatches \in Nat /\ MaxGeneration \in Nat
  /\ NoDomain \notin Domains

VARIABLES
  pending,     \* accepted batches, oldest first
  running,     \* at most one batch, taken by the render worker
  done,        \* completions not yet polled, oldest first
  engFaults,   \* domains that failed since the last reset, oldest first
  reset,       \* an engine reset has not been acknowledged yet
  ticket,      \* generation that reset asked for
  packets,     \* at most one generation: the reset packet the worker is sending
  history      \* auxiliary: every completion ever pushed, in order

engineVars == <<pending, running, done, engFaults, reset, ticket, packets, history>>

Error       == {"failed", "skipped", "generation"}
Outcome     == Error \cup {"none"}
Generations == 0..MaxGeneration
Batches     == 1..MaxBatches

Batch == [batch : Batches, gen : Generations, dom : Domains \cup {NoDomain},
          error : Outcome]
Completion == [batch : Batches \cup {0}, gen : Generations,
               dom : Domains \cup {NoDomain}, error : Outcome, reset : BOOLEAN]

-----------------------------------------------------------------------------
Entries(list) == {list[i] : i \in DOMAIN list}

(* The domain list, a ring that forgets its oldest domain when it is full. *)
Faulted(list, dom) == dom # NoDomain /\ dom \in Entries(list)

(* Faulty variant: a full list forgets the new domain. *)
FaultKeepsOldest(list, dom) ==
  IF dom = NoDomain \/ dom \in Entries(list) \/ Len(list) = FaultSlots THEN list
  ELSE Append(list, dom)

Fault(list, dom) ==
  IF dom = NoDomain \/ dom \in Entries(list) THEN list
  ELSE IF Len(list) < FaultSlots THEN Append(list, dom)
  ELSE Append(Tail(list), dom)

(* Faulty variant: the ring grows without bound. *)
PushUnbounded(c) == done' = Append(done, c) /\ history' = Append(history, c)

(* Push a completion; the ring drops its oldest one when it is full. *)
PushDone(c) ==
  /\ done' = IF Len(done) < DoneSlots THEN Append(done, c) ELSE Append(Tail(done), c)
  /\ history' = Append(history, c)

-----------------------------------------------------------------------------
EngineInit ==
  /\ pending = <<>> /\ running = {} /\ done = <<>> /\ engFaults = <<>>
  /\ reset = FALSE /\ ticket = 0 /\ packets = {} /\ history = <<>>

Accepts == Len(pending) < Pending

(* Faulty variant: a new batch overtakes those that wait. *)
SubmitFirst(b) ==
  /\ Accepts
  /\ pending' = <<b>> \o pending
  /\ UNCHANGED <<running, done, engFaults, reset, ticket, packets, history>>

(* Accept a batch, or an error that only has to complete in its turn. *)
Submit(b) ==
  /\ Accepts
  /\ pending' = Append(pending, b)
  /\ UNCHANGED <<running, done, engFaults, reset, ticket, packets, history>>

(* Faulty variant: a batch starts before a pending reset is acknowledged. *)
CanTakeAnyTime == running = {} /\ pending # <<>>

CanTake  == ~reset /\ running = {} /\ pending # <<>>
Skips(b) == b.error = "none" /\ Faulted(engFaults, b.dom)

(* The worker takes the oldest batch, marking it skipped when its domain has
   already failed.  A pending reset is processed first. *)
Take ==
  /\ CanTake
  /\ LET b == Head(pending) IN
       running' = {IF Skips(b) THEN [b EXCEPT !.error = "skipped"] ELSE b}
  /\ pending' = Tail(pending)
  /\ UNCHANGED <<done, engFaults, reset, ticket, packets, history>>

(* What running a batch can return: its preset error, or success, a failure of
   a record, or the cancellation it observes between two records. *)
RunResults(b) ==
  IF b.error # "none" THEN {b.error}
  ELSE {"none", "failed"} \cup (IF reset THEN {"generation"} ELSE {})

(* The worker finishes its batch.  A failure under a pending reset belongs to
   the discarded generation and is not remembered. *)
Complete(result) ==
  \E b \in running :
    /\ result \in RunResults(b)
    /\ engFaults' = IF result # "none" /\ ~reset THEN Fault(engFaults, b.dom)
                    ELSE engFaults
    /\ PushDone([batch |-> b.batch, gen |-> b.gen, dom |-> b.dom,
                 error |-> result, reset |-> FALSE])
    /\ running' = {}
    /\ UNCHANGED <<pending, reset, ticket, packets>>

(* Reset for generation g: everything that has not started is dropped. *)
ResetEngine(g) ==
  /\ reset' = TRUE /\ ticket' = g
  /\ pending' = <<>> /\ engFaults' = <<>>
  /\ UNCHANGED <<running, done, packets, history>>

(* The worker, between batches, copies the ticket before it sends the packet
   without the engine mutex. *)
ResetSnapshot ==
  /\ reset /\ running = {} /\ packets = {}
  /\ packets' = {ticket}
  /\ UNCHANGED <<pending, running, done, engFaults, reset, ticket, history>>

(* Faulty variant: only the packet of the reset before it acknowledges. *)
AcknowledgesPrevious(g) == reset /\ g + 1 = ticket

Acknowledges(g) == reset /\ g = ticket

(* Faulty variant: the acknowledgement, and not the reset, drops what waits. *)
ResetDoneDrops ==
  \E g \in packets :
    /\ packets' = {}
    /\ IF Acknowledges(g)
       THEN /\ reset' = FALSE /\ pending' = <<>>
            /\ PushDone([batch |-> 0, gen |-> g, dom |-> NoDomain,
                         error |-> "none", reset |-> TRUE])
       ELSE UNCHANGED <<pending, reset, done, history>>
    /\ UNCHANGED <<running, engFaults, ticket>>

(* The packet is out.  Only the ticket that was sent acknowledges the reset; a
   superseding reset stays pending. *)
ResetDone ==
  \E g \in packets :
    /\ packets' = {}
    /\ IF Acknowledges(g)
       THEN /\ reset' = FALSE
            /\ PushDone([batch |-> 0, gen |-> g, dom |-> NoDomain,
                         error |-> "none", reset |-> TRUE])
       ELSE UNCHANGED <<reset, done, history>>
    /\ UNCHANGED <<pending, running, engFaults, ticket>>

(* The device's main loop takes the oldest completion. *)
Poll ==
  /\ done # <<>>
  /\ done' = Tail(done)
  /\ UNCHANGED <<pending, running, engFaults, reset, ticket, packets, history>>

Worker == Take \/ (\E r \in Outcome : Complete(r)) \/ ResetSnapshot \/ ResetDone

-----------------------------------------------------------------------------
AtMostOne(S) == \A x, y \in S : x = y

(* Every variable of the engine has its type, and no ring or list is over its size. *)
EngineTypeOK ==
  /\ pending \in Seq(Batch) /\ Len(pending) <= Pending
  /\ running \in SUBSET Batch /\ AtMostOne(running)
  /\ done \in Seq(Completion) /\ Len(done) <= DoneSlots
  /\ engFaults \in Seq(Domains) /\ Len(engFaults) <= FaultSlots
  /\ reset \in BOOLEAN /\ ticket \in Generations
  /\ packets \in SUBSET Generations /\ AtMostOne(packets)
  /\ history \in Seq(Completion)
=============================================================================
