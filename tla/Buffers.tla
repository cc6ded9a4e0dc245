------------------------------- MODULE Buffers -------------------------------
(***************************************************************************)
(* Buffer objects, crates/dreamgpu-host/src/buffer.rs, and the admission   *)
(* of the draws that read them.  The host keeps a copy of what native GL   *)
(* has, and bounds of the indices in it, to bound all a draw reads.        *)
(*                                                                         *)
(* A byte is a bit here, an index is one or two of them, and an attribute  *)
(* is one byte, tightly packed.                                            *)
(***************************************************************************)
EXTENDS Integers, Sequences, FiniteSets, FiniteSetsExt, SequencesExt

CONSTANTS BufferNames,   \* names, 1..n
          MaxBuffers,    \* DG_GL_MAX_BUFFERS
          BufferBytes,   \* DG_GL_MAX_BUFFER_BYTES
          BufferBudget   \* the shared budget: an object, the table or a byte is a unit

ASSUME BuffersAssumption == {BufferNames, MaxBuffers, BufferBytes, BufferBudget} \subseteq Nat \ {0}

VARIABLES table,     \* whether the share group has its buffer table
          buffers,   \* its objects, with what native GL has
          charged    \* what is charged for them

bufferVars == <<table, buffers, charged>>

BuffersInit == table = FALSE /\ buffers = <<>> /\ charged = 0

Stores == SeqOf({0, 1}, BufferBytes)

-----------------------------------------------------------------------------
(* The values of a store, of each width, and bounds of them.  A write of     *)
(* start..end-1 raises the bounds by the values that it touches, whole or in *)
(* part; the faulty variant takes the values that it writes whole.           *)

IndexValue(store, at, width) ==
    IF width = 1 THEN store[at + 1] ELSE store[at + 1] + 2 * store[at + 2]
Aligned(store, width) == {at \in 0..(Len(store) - width) : at % width = 0}

TouchedWhole(store, width, start, end) ==
    {at \in Aligned(store, width) : start <= at /\ at + width <= end}
TouchedBy(store, width, start, end) ==
    {at \in Aligned(store, width) : start < at + width /\ at < end}
NoBounds == [w \in {1, 2} |-> 0]
Raised(bounds, store, start, end) ==
    [w \in {1, 2} |-> Max({bounds[w]} \union
        {IndexValue(store, at, w) : at \in TouchedBy(store, w, start, end)})]

Filled(store) == [data |-> store, native |-> store,
                  bounds |-> Raised(NoBounds, store, 0, Len(store))]
Emptied == Filled(<<>>)

-----------------------------------------------------------------------------
(* BufferData: the table and the object are made on first use.  The old      *)
(* store goes before the new one is charged, unless it has the same size.    *)
(* What is left charged when native GL refuses the store; the faulty variant *)
(* forgets that a store of the same size was charged before.                 *)
LeftKeeping(before, kept) == before
Left(before, kept) == before - kept

Refusals == {"none", "table", "object", "errors", "store", "native"}
(* Of a store that is refused only the size matters.                         *)
Given(refused) == IF refused = "none" THEN Stores ELSE {[k \in 1..n |-> 0] : n \in 0..BufferBytes}

BufferData == \E n \in 1..BufferNames, refused \in Refusals : \E store \in Given(refused) :
    LET paid == IF table THEN charged ELSE charged + 1
        known == n \in DOMAIN buffers
        old == IF known THEN buffers[n] ELSE Emptied
        kept == IF Len(old.data) = Len(store) THEN Len(store) ELSE 0
        made == IF known THEN paid ELSE paid + 1
        freed == made - (Len(old.data) - kept)
        total == freed + Len(store) - kept
        Becomes(b, cost) == /\ table' = TRUE
                            /\ buffers' = [m \in DOMAIN buffers \union {n} |->
                                                IF m = n THEN b ELSE buffers[m]]
                            /\ charged' = cost
    IN IF ~table /\ (refused = "table" \/ paid > BufferBudget)
       THEN UNCHANGED bufferVars
       ELSE IF ~known /\ (\/ refused = "object" \/ made > BufferBudget
                          \/ Cardinality(DOMAIN buffers) >= MaxBuffers)
       THEN table' = TRUE /\ charged' = paid /\ UNCHANGED buffers
       ELSE IF refused = "errors" THEN Becomes(old, made)
       ELSE IF kept < Len(store) /\ (refused = "store" \/ total > BufferBudget)
       THEN Becomes(Emptied, freed)
       ELSE IF refused = "native" THEN Becomes(Emptied, Left(total, Len(store)))
       ELSE Becomes(Filled(store), total)

(* BufferSubData of a range of an object; native GL has no reason to refuse. *)
BufferSubData == \E n \in DOMAIN buffers, store \in Stores, offset \in 0..BufferBytes :
    LET b == buffers[n]
        end == offset + Len(store)
        Written(s) == [k \in DOMAIN s |->
                            IF k \in (offset + 1)..end THEN store[k - offset] ELSE s[k]]
    IN /\ store # <<>> /\ end <= Len(b.data)
       /\ buffers' = [buffers EXCEPT ![n] =
                        [data |-> Written(b.data), native |-> Written(b.native),
                         bounds |-> Raised(b.bounds, Written(b.data), offset, end)]]
       /\ UNCHANGED <<table, charged>>

DeleteBuffer == \E n \in DOMAIN buffers :
    /\ buffers' = [m \in DOMAIN buffers \ {n} |-> buffers[m]]
    /\ charged' = charged - Len(buffers[n].data) - 1
    /\ UNCHANGED table

(* The last context of the share group goes.                                 *)
ReleaseBuffers == table /\ table' = FALSE /\ buffers' = <<>> /\ charged' = 0

BuffersNext == BufferData \/ BufferSubData \/ DeleteBuffer \/ ReleaseBuffers

-----------------------------------------------------------------------------
(* Admission of a draw from buffers there are: an array draw of first..last  *)
(* when element is 0, else count indices from an element buffer; attributes  *)
(* from a buffer at offset, and, when vertices # 0, from client data for     *)
(* base..base+vertices-1.                                                    *)

Draws == [element : {0} \union DOMAIN buffers, width : {1, 2}, at : 0..BufferBytes, count : 1..2,
          attribute : DOMAIN buffers, offset : 0..1, base : 0..1, vertices : 0..2]

ElementEnd(d) == d.at + d.count * d.width
IndicesOf(d, store) ==
    IF d.element = 0 THEN d.base..(d.base + d.count - 1)
    ELSE {IndexValue(store, d.at + k * d.width, d.width) : k \in 0..(d.count - 1)}

(* Every attribute fits when the one at the highest index does.              *)
Fits(d, high) == d.offset + high + 1 <= Len(buffers[d.attribute].data)

(* resolve: an element buffer whose bound fits is not scanned.               *)
DrawAdmitted(d) ==
    /\ d.at % d.width = 0 /\ (d.element = 0 => d.at = 0 /\ d.width = 1)
    /\ d.element # 0 => ElementEnd(d) <= Len(buffers[d.element].data)
    /\ \/ d.element # 0 /\ d.vertices = 0 /\ Fits(d, buffers[d.element].bounds[d.width])
       \/ LET v == IndicesOf(d, IF d.element = 0 THEN <<>> ELSE buffers[d.element].data)
          IN /\ d.vertices # 0 => v \subseteq d.base..(d.base + d.vertices - 1)
             /\ Fits(d, Max(v))

-----------------------------------------------------------------------------
BuffersTypeOK ==
    /\ table \in BOOLEAN /\ charged \in 0..BufferBudget
    /\ DOMAIN buffers \subseteq 1..BufferNames
    /\ \A n \in DOMAIN buffers :
          buffers[n] \in [data : Stores, native : Stores, bounds : [{1, 2} -> 0..3]]

(* What is charged is what there is, whichever step of a replacement failed. *)
BuffersAccounted ==
    charged = (IF table THEN 1 ELSE 0)
              + MapThenSumSet(LAMBDA n : 1 + Len(buffers[n].data), DOMAIN buffers)

(* buffer.rs 41-44: however partial writes overlap values of other widths,   *)
(* the bounds stay above every value native GL can fetch.                    *)
BoundsCover == \A n \in DOMAIN buffers : \A w \in {1, 2} :
    \A at \in Aligned(buffers[n].native, w) :
        IndexValue(buffers[n].native, at, w) <= buffers[n].bounds[w]

(* A draw that is admitted reads no index and no attribute beyond what       *)
(* native GL and the client data have, be it admitted by bound or by scan.   *)
DrawsBounded == \A d \in {x \in Draws : DrawAdmitted(x)} :
    LET elements == IF d.element = 0 THEN <<>> ELSE buffers[d.element].native
    IN /\ d.element # 0 => ElementEnd(d) <= Len(elements)
       /\ \A v \in IndicesOf(d, elements) :
             /\ d.offset + v < Len(buffers[d.attribute].native)
             /\ d.vertices # 0 => v \in d.base..(d.base + d.vertices - 1)

(* What index bounds promise the draws that rely on them.                    *)
BoundsSound == BoundsCover /\ DrawsBounded
=============================================================================
