------------------------------ MODULE CpuExport ------------------------------
(***************************************************************************)
(* CPU allocations and the readback reply of worker.rs.  An allocation is  *)
(* claimed for one record of the ordered desktop stream and stays claimed  *)
(* until the consumer's release names the same epoch and sequence.  One    *)
(* readback waits at a time; its answer is matched by epoch, sequence and  *)
(* token, and a cancelled request's answer may still arrive.               *)
(***************************************************************************)
EXTENDS Wire

CONSTANT Sizes  \* byte sizes an allocation may be asked for

ASSUME CpuAssumption == Sizes \subseteq Nat \ {0}

VARIABLES cpu,    \* CPU -> CpuSlot
          reply   \* struct Reply; fd is the sequence the descriptor answers, 0 for none

EmptyCpu == [published |-> FALSE, epoch |-> 0, sequence |-> 0, bytes |-> 0]
NoReply == [pending |-> FALSE, ready |-> FALSE, epoch |-> 0, sequence |-> 0, fd |-> 0]

CpuInit == cpu = [c \in CPU |-> EmptyCpu] /\ reply = NoReply

(* Faulty variant: an allocation is claimed whoever owns it.                 *)
UnclaimedAny == CPU

Unclaimed == {c \in CPU : ~cpu[c].published}

(* dreamgpu_cpu_claim takes the first free allocation; dreamgpu_cpu_storage  *)
(* keeps its memory unless the size changed.                                 *)
CpuClaim(c, epoch, sequence, bytes) ==
    /\ c \in Unclaimed /\ \A o \in Unclaimed : c[2] <= o[2]
    /\ cpu' = [cpu EXCEPT ![c] = [published |-> TRUE, epoch |-> epoch,
                                  sequence |-> sequence, bytes |-> bytes]]

(* New memory was needed and could not be had: the claim is given back.      *)
CpuStorageFails(c, bytes) ==
    /\ c \in Unclaimed /\ \A o \in Unclaimed : c[2] <= o[2]
    /\ cpu[c].bytes # bytes
    /\ cpu' = [cpu EXCEPT ![c].bytes = 0]

CpuReleased(s, r) ==
    IF s.published /\ s.epoch = r.epoch /\ s.sequence = r.generation
      THEN [s EXCEPT !.published = FALSE] ELSE s
CpuRelease(r) == cpu' = [cpu EXCEPT ![r.index] = CpuReleased(@, r)]

-----------------------------------------------------------------------------
(* The reply of the one readback in progress.                                *)

ReplyBegin(epoch, sequence) ==
    /\ ~reply.pending
    /\ reply' = [pending |-> TRUE, ready |-> FALSE, epoch |-> epoch,
                 sequence |-> sequence, fd |-> reply.fd]

Matches(r) == r.epoch = reply.epoch /\ r.sequence = reply.sequence

(* An answer is stored, ignored as that of the last, cancelled request, or   *)
(* rejected; only a stored one gives up its descriptor.                      *)
Receipt(r) ==
    CASE ~reply.pending /\ Matches(r) -> "ignored"
      [] ~reply.pending \/ reply.ready \/ ~Matches(r) -> "rejected"
      [] OTHER -> "stored"

ReplyReceive(r) ==
    reply' = IF Receipt(r) = "stored"
               THEN [reply EXCEPT !.ready = TRUE, !.fd = IF r.ok THEN r.sequence ELSE 0]
               ELSE reply

(* The outcome dreamgpu_reply_finish reports, and then dreamgpu_reply_layout *)
(* on the packet it hands over.                                              *)
Outcome(cancelled, failed) ==
    CASE cancelled -> "generation"
      [] ~reply.ready \/ failed -> "transport"
      [] reply.fd = 0 -> "desktop"
      [] OTHER -> "ok"

ReplyFinish ==
    /\ reply.pending
    /\ reply' = [reply EXCEPT !.pending = FALSE, !.ready = FALSE, !.fd = 0]
=============================================================================
