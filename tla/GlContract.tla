----------------------------- MODULE GlContract -----------------------------
(***************************************************************************)
(* What the queued transport promises (guest/include/gl.h, the comment on  *)
(* DG_GL_REG_QUEUE): while a queue is up, published batches complete in    *)
(* entry order, at most Depth are unfinished, a batch of a failed domain   *)
(* does not succeed, and a reset discards the rest without completion.     *)
(***************************************************************************)
EXTENDS Integers, Sequences

CONSTANTS
  Depth,      \* entries of the ring (DG_GL_QUEUE_DEPTH)
  Domains,    \* fault domains
  NoDomain,   \* a batch outside every domain
  Failures    \* the errors a batch can complete with

VARIABLES
  up,         \* the queue is enabled
  sent,       \* the domain of each batch published since
  outcomes    \* the outcome of each completed batch, in entry order

contractVars == <<up, sent, outcomes>>

Init == up = FALSE /\ sent = <<>> /\ outcomes = <<>>

Enable == ~up /\ up' = TRUE /\ UNCHANGED <<sent, outcomes>>

Publish(dom) ==
  /\ up /\ Len(sent) - Len(outcomes) < Depth
  /\ sent' = Append(sent, dom)
  /\ UNCHANGED <<up, outcomes>>

HasFailed(dom) ==
  dom # NoDomain /\ \E i \in DOMAIN outcomes : sent[i] = dom /\ outcomes[i] \in Failures

Finish(outcome) ==
  /\ up /\ Len(outcomes) < Len(sent)
  /\ outcome = "none" => ~HasFailed(sent[Len(outcomes) + 1])
  /\ outcomes' = Append(outcomes, outcome)
  /\ UNCHANGED <<up, sent>>

Reset == up /\ up' = FALSE /\ sent' = <<>> /\ outcomes' = <<>>

Next ==
  \/ Enable \/ Reset
  \/ \E dom \in Domains \cup {NoDomain} : Publish(dom)
  \/ \E outcome \in Failures \cup {"none"} : Finish(outcome)

Spec == Init /\ [][Next]_contractVars
=============================================================================
