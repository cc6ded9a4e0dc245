------------------------------- MODULE Registry -------------------------------
(***************************************************************************)
(* The registry of native contexts and drawables,                          *)
(* crates/dreamgpu-host/src/gl.rs: the records of a batch name a client, a *)
(* context and a drawable; commands find the native objects by a search or *)
(* by the cache of the batch, and run with the drawable the context was    *)
(* last made current with.  A size is a number of units of the byte        *)
(* budget.                                                                 *)
(***************************************************************************)
EXTENDS Integers, FiniteSets, FiniteSetsExt

CONSTANTS GlClients,     \* clients of the host renderer
          GlSlots,       \* MAX
          Sizes,         \* sizes of drawables
          ByteLimit,     \* 0x20000000, in units
          MaxEpoch       \* u64::MAX: bound on drawables created

ASSUME RegistryAssumption ==
    /\ {GlSlots, ByteLimit, MaxEpoch} \subseteq Nat \ {0} /\ Sizes \subseteq Nat \ {0}

VARIABLES contexts,    \* Resources.contexts: slot -> record
          drawables,   \* Resources.drawables
          next_epoch,  \* Resources.next_epoch
          lookup,      \* the cache of the batch
          world        \* native objects, and the images exported under slot and epoch

registryVars == <<contexts, drawables, next_epoch, lookup, world>>

GlSlot == 0..(GlSlots - 1)
GlIds == 1..2
NoContext == [client |-> 0, id |-> 0, drawable |-> 0, native |-> 0]
NoDrawable == [client |-> 0, id |-> 0, size |-> 0, epoch |-> 0, native |-> 0]
NoLookup == [key |-> {}, ci |-> 0, di |-> 0]

RegistryInit ==
    /\ contexts = [i \in GlSlot |-> NoContext] /\ drawables = [i \in GlSlot |-> NoDrawable]
    /\ next_epoch = 0 /\ lookup = NoLookup
    /\ world = [contexts |-> {}, drawables |-> {}, exported |-> {}]

(* context and drawable: the first slot with a native object of that name.   *)
Named(records, client, id) ==
    {i \in GlSlot : records[i].native # 0 /\ records[i].client = client /\ records[i].id = id}
FirstOf(slots) == CHOOSE i \in slots : \A j \in slots : i <= j
Empty(records) == {i \in GlSlot : records[i].native = 0}

(* A native object has an identity of its own; those of drawables are never  *)
(* used twice, to tell a drawable from its successor in the slot.            *)
ContextNative == CHOOSE n \in 1..(GlSlots + 1) : n \notin world.contexts
DrawableNative == next_epoch + 1

(* Records that are not commands forget the cache before their callback.     *)
(* The faulty variant keeps it.                                              *)
InvalidatesNot(l) == l
Invalidates(l) == NoLookup

-----------------------------------------------------------------------------

(* An operation that is refused, for what it names or by native GL, has      *)
(* forgotten the cache all the same.                                         *)
Refused ==
    /\ lookup' = Invalidates(lookup)
    /\ UNCHANGED <<contexts, drawables, next_epoch, world>>

(* Operations 1 and 3.                                                       *)
CreateContext == \E client \in GlClients, id \in GlIds, share \in 0..2 :
    LET slot == FirstOf(Empty(contexts))
    IN /\ Named(contexts, client, id) = {} /\ Empty(contexts) # {}
       /\ share = 0 \/ Named(contexts, client, share) # {}
       /\ contexts' = [contexts EXCEPT ![slot] =
              [client |-> client, id |-> id, drawable |-> 0, native |-> ContextNative]]
       /\ world' = [world EXCEPT !.contexts = @ \union {ContextNative}]
       /\ lookup' = Invalidates(lookup)
       /\ UNCHANGED <<drawables, next_epoch>>

Bytes == MapThenSumSet(LAMBDA i : drawables[i].size, GlSlot)
FitsBytes(size) == Bytes + size <= ByteLimit

(* A new drawable moves every drawable to a new epoch.                       *)
EpochsMoved(records) == [i \in GlSlot |-> [records[i] EXCEPT !.epoch = next_epoch + 1]]

CreateDrawable == \E client \in GlClients, id \in GlIds, size \in Sizes :
    LET slot == FirstOf(Empty(drawables))
        new == [client |-> client, id |-> id, size |-> size, epoch |-> 0,
                native |-> DrawableNative]
    IN /\ Named(drawables, client, id) = {} /\ FitsBytes(size)
       /\ Empty(drawables) # {} /\ next_epoch < MaxEpoch
       /\ drawables' = EpochsMoved([drawables EXCEPT ![slot] = new])
       /\ next_epoch' = next_epoch + 1
       /\ world' = [world EXCEPT !.drawables = @ \union {DrawableNative}]
       /\ lookup' = Invalidates(lookup)
       /\ UNCHANGED contexts

(* Operations 2 and 4.                                                       *)
DestroyContext == \E client \in GlClients, id \in GlIds :
    LET slot == FirstOf(Named(contexts, client, id))
    IN /\ Named(contexts, client, id) # {}
       /\ contexts' = [contexts EXCEPT ![slot] = NoContext]
       /\ world' = [world EXCEPT !.contexts = @ \ {contexts[slot].native}]
       /\ lookup' = Invalidates(lookup)
       /\ UNCHANGED <<drawables, next_epoch>>

DestroyDrawable == \E client \in GlClients, id \in GlIds :
    LET slot == FirstOf(Named(drawables, client, id))
    IN /\ Named(drawables, client, id) # {}
       /\ drawables' = [drawables EXCEPT ![slot] = NoDrawable]
       /\ world' = [world EXCEPT !.drawables = @ \ {drawables[slot].native}]
       /\ lookup' = Invalidates(lookup)
       /\ UNCHANGED <<contexts, next_epoch>>

(* Operation 8 for a client, and dreamgpu_gl_close_client, which closes all  *)
(* of them for client 0.                                                     *)
Close == \E client \in GlClients \union {0} :
    LET hers(records) == {i \in GlSlot : /\ records[i].native # 0
                                         /\ client \in {0, records[i].client}}
    IN /\ contexts' = [i \in GlSlot |-> IF i \in hers(contexts) THEN NoContext ELSE contexts[i]]
       /\ drawables' = [i \in GlSlot |-> IF i \in hers(drawables) THEN NoDrawable
                                         ELSE drawables[i]]
       /\ world' = [world EXCEPT
             !.contexts = @ \ {contexts[i].native : i \in hers(contexts)},
             !.drawables = @ \ {drawables[i].native : i \in hers(drawables)}]
       /\ lookup' = Invalidates(lookup)
       /\ UNCHANGED next_epoch

(* Operation 5: the context is associated with the drawable by its name.     *)
MakeCurrent == \E client \in GlClients, id, drawable \in GlIds :
    /\ Named(contexts, client, id) # {} /\ Named(drawables, client, drawable) # {}
    /\ contexts' = [contexts EXCEPT ![FirstOf(Named(contexts, client, id))].drawable = drawable]
    /\ lookup' = Invalidates(lookup)
    /\ UNCHANGED <<drawables, next_epoch, world>>

(* Operations 6, 10 and 11.  "asked" is the drawable the record names, 0 for *)
(* the one of the context.                                                   *)

Associated(client, ci) == Named(drawables, client, contexts[ci].drawable)
Asks(asked, di) == asked \in {0, drawables[di].id}

GlCommand == \E client \in GlClients, id \in GlIds, asked \in 0..2 :
    LET key == <<client, id, asked>>
        cached == key \in lookup.key
        ci == IF cached THEN lookup.ci ELSE FirstOf(Named(contexts, client, id))
        di == IF cached THEN lookup.di ELSE FirstOf(Associated(client, ci))
        found == cached \/ (Named(contexts, client, id) # {} /\ Associated(client, ci) # {})
        runs == found /\ Asks(asked, di)
    IN /\ lookup' = IF runs THEN [key |-> {key}, ci |-> ci, di |-> di]
                    ELSE IF cached THEN lookup ELSE NoLookup
       /\ UNCHANGED <<contexts, drawables, next_epoch, world>>

(* Operation 7: the drawable is exported under its slot and epoch.           *)
PresentRecord == \E client \in GlClients, id \in GlIds, asked \in 0..2 :
    LET ci == FirstOf(Named(contexts, client, id))
        di == FirstOf(Associated(client, ci))
    IN /\ Named(contexts, client, id) # {} /\ Associated(client, ci) # {} /\ Asks(asked, di)
       /\ world' = [world EXCEPT
             !.exported = @ \union {<<di, drawables[di].epoch, drawables[di].native>>}]
       /\ lookup' = Invalidates(lookup)
       /\ UNCHANGED <<contexts, drawables, next_epoch>>

(* The next batch starts with an empty cache.                                *)
NextBatch == lookup' = NoLookup
             /\ UNCHANGED <<contexts, drawables, next_epoch, world>>

RegistryNext ==
    \/ Refused \/ CreateContext \/ CreateDrawable \/ DestroyContext \/ DestroyDrawable \/ Close
    \/ MakeCurrent \/ GlCommand \/ PresentRecord \/ NextBatch

-----------------------------------------------------------------------------
(* Properties.                                                               *)

RegistryTypeOK ==
    /\ next_epoch \in 0..MaxEpoch
    /\ \A i \in GlSlot : contexts[i].id \in 0..2 /\ drawables[i].epoch <= next_epoch
    /\ Cardinality(lookup.key) <= 1

(* The registry holds exactly the native objects that exist, each name once  *)
(* per client, within the memory limit.                                      *)
RegistryOwns ==
    /\ world.contexts = {contexts[i].native : i \in GlSlot} \ {0}
    /\ world.drawables = {drawables[i].native : i \in GlSlot} \ {0}
    /\ \A c \in GlClients, n \in GlIds :
         Cardinality(Named(contexts, c, n)) <= 1 /\ Cardinality(Named(drawables, c, n)) <= 1
    /\ Bytes <= ByteLimit

(* The cache of a batch never says otherwise than the search: a command runs *)
(* with the live context it names and the live drawable of the same client   *)
(* that context is associated with, which is the one it names if it names    *)
(* one.                                                                      *)
CacheCurrent == \A key \in lookup.key :
    /\ Named(contexts, key[1], key[2]) = {lookup.ci}
    /\ Associated(key[1], lookup.ci) = {lookup.di}
    /\ Asks(key[3], lookup.di)

(* Two drawables are never exported under the same slot and epoch, also when *)
(* the slot is used again: a late message about the old one cannot be taken  *)
(* for the new one.                                                          *)
EpochsFresh == \A a, b \in world.exported : a[1] = b[1] /\ a[2] = b[2] => a[3] = b[3]

(* What the registry and its cache promise the commands of a batch.          *)
RegistrySound == RegistryOwns /\ CacheCurrent /\ EpochsFresh
=============================================================================
