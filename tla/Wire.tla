-------------------------------- MODULE Wire --------------------------------
(***************************************************************************)
(* Names the two sides of the native transport share (transport.h and      *)
(* transport/wire.rs): drawables, the indices of image slots and of CPU    *)
(* allocations, image identities, and the records that travel.             *)
(***************************************************************************)
EXTENDS Integers, Sequences, FiniteSets, SequencesExt

CONSTANTS Drawable,     \* names of drawables: (client, drawable) pairs
          MaxDrawables, \* records of the registry     (DG_GL_MAX_DRAWABLES)
          ExportSlots,  \* image slots of one drawable  (DG_GL_EXPORT_SLOTS)
          CpuSlots      \* CPU allocations, indexed from CPU_SLOT_BASE

ASSUME WireAssumption ==
    /\ IsFiniteSet(Drawable) /\ ExportSlots \in Nat \ {0} /\ CpuSlots \in Nat
    /\ MaxDrawables \in Nat

(* A guest may use more names than there are records.  A slot is called by    *)
(* the name that used it: a record that goes to another name is, here,        *)
(* another set of slots, and what keeps the number of slots is Bound.         *)
Index == Drawable \X (1..ExportSlots)
Bound == MaxDrawables * ExportSlots
CPU == {"cpu"} \X (1..CpuSlots)

(* An index names one buffer: those of CPU allocations start above the last  *)
(* one of an image slot.                                                     *)
ASSUME IndexAssumption == "cpu" \notin Drawable /\ Drawable \cap CPU = {}

Image == {"frame", "window", "retained"}
CpuKinds == {"seed", "patch", "return"}

(* Image identities are <<epoch, generation>>, ordered as pairs.             *)
Zero == <<0, 0>>
a \preceq b == a[1] < b[1] \/ (a[1] = b[1] /\ a[2] <= b[2])
Later(a, b) == IF a \preceq b THEN b ELSE a
Latest(S) == CHOOSE m \in S : \A s \in S : s \preceq m

(* The lease a record names: its drawable and its wire Slot.                 *)
Lease(m) == [d |-> m.d, index |-> m.index, epoch |-> m.epoch, generation |-> m.generation]
Id(lease) == <<lease.epoch, lease.generation>>

ReleaseOf(lease) == [kind |-> "release", index |-> lease.index, epoch |-> lease.epoch,
                     generation |-> lease.generation]

(* An ordered desktop record.                                                *)
Record(kind, epoch, sequence) ==
    [kind |-> kind, epoch |-> epoch, sequence |-> sequence, d |-> "none", lease |-> "none",
     final |-> FALSE, anchor |-> Zero, revision |-> 0]
Detached(op) == op.kind = "discard" /\ op.epoch = 0
=============================================================================
