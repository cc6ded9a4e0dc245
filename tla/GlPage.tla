------------------------------- MODULE GlPage -------------------------------
(***************************************************************************)
(* What the guest driver and the device share: the queue page and its      *)
(* entries (guest/include/gl.h, DG_GL_REG_QUEUE), the command buffers, and *)
(* the wires between them (doorbell, interrupt, GENERATION register).      *)
(*                                                                         *)
(* Counters count the entries of one engine generation and are unbounded   *)
(* here: their 32-bit wrap is not modelled.                                *)
(***************************************************************************)
EXTENDS Submission

CONSTANTS
  Depth,      \* entries of the ring (DG_GL_QUEUE_DEPTH)
  Buffers     \* command buffers the driver owns (BufferCount), never fewer than two

ASSUME PageConstants == Depth \in Nat \ {0} /\ Buffers \in Nat \ {0, 1}

VARIABLES
  pgActive,      \* STATE is DG_GL_QUEUE_ACTIVE          (device word)
  pgGeneration,  \* GENERATION                           (device word)
  pgConsumed,    \* CONSUMED                             (device word)
  pgCompleted,   \* COMPLETED                            (device word)
  pgProduced,    \* PRODUCED                             (guest word)
  pgWait,        \* WAIT: the counter armed, or "none"   (guest word)
  pgTarget,      \* WAIT_COMPLETED and WAIT_CONSUMED     (guest words)
  ring,          \* guest words of the entries
  status,        \* STATUS and ERROR of the entries
  buffer,        \* the batch whose bytes each command buffer holds
  doorbell,      \* QUEUE_DOORBELL was written and not served yet
  irq,           \* the completion interrupt is asserted
  generation,    \* the engine generation register
  halted         \* the device has stopped the guest

deviceWords == <<pgActive, pgGeneration, pgConsumed, pgCompleted>>
pageVars == <<deviceWords, pgProduced, pgWait, pgTarget, ring, status, buffer>>
wireVars == <<doorbell, irq, generation, halted>>

Counters == {"completed", "consumed"}
Slots    == 0..Depth-1
Status   == {"unset", "none"} \cup Error     \* "none": DONE without ERROR

(* The guest words of an entry.  Command bytes are named by their batch. *)
Entry == [batch : Batches \cup {0}, buffer : 0..Buffers-1, gen : Generations,
          dom : Domains \cup {NoDomain}, query : BOOLEAN, coherent : BOOLEAN]
BlankEntry == [batch |-> 0, buffer |-> 0, gen |-> 0, dom |-> NoDomain,
               query |-> FALSE, coherent |-> FALSE]

SlotOf(index)   == index % Depth
BufferOf(index) == index % Buffers

(* A device counter of the page. *)
Counter(which) == IF which = "completed" THEN pgCompleted ELSE pgConsumed
Holds(which, target) == Counter(which) >= target

PageInit ==
  /\ pgActive = FALSE /\ pgGeneration = 0 /\ pgConsumed = 0 /\ pgCompleted = 0
  /\ pgProduced = 0 /\ pgWait = "none" /\ pgTarget = [c \in Counters |-> 0]
  /\ ring = [s \in Slots |-> BlankEntry] /\ status = [s \in Slots |-> "unset"]
  /\ buffer = [b \in 0..Buffers-1 |-> 0]
  /\ doorbell = FALSE /\ irq = FALSE /\ generation = 0 /\ halted = FALSE
=============================================================================
