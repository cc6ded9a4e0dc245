------------------------------- MODULE Engine -------------------------------
(***************************************************************************)
(* The batch queue of Submission under the device's main loop: it submits  *)
(* batches of the current generation, polls completions, and resets the    *)
(* engine whenever it likes.  The device keeps at most Pending batches     *)
(* unfinished, those whose completion it has not polled included           *)
(* (DG_GL_QUEUE_DEPTH bounds the entries of GlDevice).                     *)
(***************************************************************************)
EXTENDS Submission

VARIABLES
  generation,   \* the engine generation register
  submitted,    \* auxiliary: the batches accepted so far, in order
  polled        \* auxiliary: how many completions of `history' were polled or dropped

vars == <<engineVars, generation, submitted, polled>>

Init == EngineInit /\ generation = 0 /\ submitted = <<>> /\ polled = 0

OfGeneration(list) == SelectSeq(list, LAMBDA c : c.gen = generation)
Batched(list)      == SelectSeq(list, LAMBDA c : c.batch # 0)

Unfinished ==
  Len(OfGeneration(pending)) + Cardinality({b \in running : b.gen = generation})
  + Len(Batched(OfGeneration(done)))

(* A batch to execute, or the marker of one the device rejected. *)
SubmitNext ==
  /\ Len(submitted) < MaxBatches /\ Unfinished < Pending
  /\ \E dom \in Domains \cup {NoDomain}, error \in {"none", "failed"} :
       LET b == [batch |-> Len(submitted) + 1, gen |-> generation, dom |-> dom, error |-> error] IN
       Submit(b) /\ submitted' = Append(submitted, b)
  /\ UNCHANGED <<generation, polled>>

PollNext == Poll /\ polled' = polled + 1 /\ UNCHANGED <<generation, submitted>>

ResetNext ==
  /\ generation < MaxGeneration
  /\ generation' = generation + 1
  /\ ResetEngine(generation + 1)
  /\ UNCHANGED <<submitted, polled>>

(* A push onto a full ring drops the oldest completion. *)
WorkerNext ==
  /\ Worker
  /\ polled' = Len(history') - Len(done')
  /\ UNCHANGED <<generation, submitted>>

Quiet == pending = <<>> /\ running = {} /\ ~reset /\ packets = {} /\ UNCHANGED vars

Next == SubmitNext \/ PollNext \/ ResetNext \/ WorkerNext \/ Quiet

Spec == Init /\ [][Next]_vars

(* The render worker and the main loop keep running. *)
FairSpec == Spec /\ WF_vars(WorkerNext) /\ WF_vars(PollNext)

-----------------------------------------------------------------------------
(* Every variable has its type. *)
TypeOK ==
  /\ EngineTypeOK
  /\ generation \in Generations /\ submitted \in Seq(Batch) /\ polled \in 0..Len(history)

Positions(b) == {i \in DOMAIN history : history[i].batch = b}

(* submission.rs, dreamgpu_submission_submit: "Batches execute in submission order."
   Completions appear in submission order, each batch at most once. *)
CompletesInOrder ==
  \A i, j \in DOMAIN history :
    i < j /\ history[i].batch # 0 /\ history[j].batch # 0 => history[i].batch < history[j].batch

(* An accepted batch completes or was discarded by a reset: none of the current
   generation is lost between the queue, the worker and the completions. *)
NothingLost ==
  \A b \in DOMAIN submitted : submitted[b].gen = generation =>
    \/ Positions(b) # {}
    \/ \E r \in running : r.batch = b
    \/ \E i \in DOMAIN pending : pending[i].batch = b

(* The acknowledgement of a reset separates generations in the completion stream:
   what comes after it is of its generation or a later one, and what comes before it
   is older. *)
AckSeparates ==
  \A i, j \in DOMAIN history : i < j =>
    /\ history[i].reset => history[j].gen >= history[i].gen
    /\ history[j].reset => history[i].gen < history[j].gen

(* The failure that puts a domain on the list: the first of its generation. *)
FirstFailure(i) ==
  /\ history[i].error # "none"
  /\ \A k \in 1..i - 1 :
       history[k].dom = history[i].dom /\ history[k].gen = history[i].gen => history[k].error = "none"

(* The other domains that failed from then on. *)
OthersFailed(i, j) ==
  {history[k].dom : k \in {n \in i..j : history[n].error # "none"}} \ {history[i].dom, NoDomain}

(* gl.h: once a batch of a domain fails, its later batches of that generation do not
   execute, until FaultSlots other domains have failed since (submission.rs, fault: the
   list forgets its oldest domain, also one whose batches still arrive). *)
DomainStaysFailed ==
  \A i, j \in DOMAIN history :
    /\ i < j /\ history[i].dom # NoDomain /\ FirstFailure(i)
    /\ history[j].dom = history[i].dom /\ history[j].gen = history[i].gen
    /\ Cardinality(OthersFailed(i, j)) < FaultSlots
    => history[j].error # "none"

(* A reset is acknowledged, however many resets supersede one another, and every
   accepted batch completes or is discarded by one (dreamgpu_submission_reset_done,
   dreamgpu_submission_take). *)
Answered ==
  /\ \A g \in 1..MaxGeneration :
       (reset /\ ticket = g) ~> (\E i \in DOMAIN history : history[i].reset /\ history[i].gen >= g)
  /\ \A b \in 1..MaxBatches :
       (b \in DOMAIN submitted) ~>
         (b \in DOMAIN submitted /\ (Positions(b) # {} \/ submitted[b].gen # generation))
=============================================================================
