----------------------------- MODULE FaultTable -----------------------------
(***************************************************************************)
(* The guest driver's table of failed batches whose request has already    *)
(* returned (Faults of DG_GL_QUEUE, guest/include/dg-gl-queue.h).  A fault *)
(* names the stream it belongs to; a free slot holds NoFault.              *)
(***************************************************************************)
EXTENDS Integers

CONSTANTS
  TableSlots,   \* slots of the table (DG_GL_QUEUE_FAULTS)
  NoFault       \* a free slot

ASSUME TableConstants == TableSlots \in Nat

FreeSlots(table) == {i \in 1..TableSlots : table[i] = NoFault}
Lowest(S) == CHOOSE i \in S : \A j \in S : i <= j

Reports(table, dom) == \E i \in 1..TableSlots : table[i] # NoFault /\ table[i].dom = dom

(* Keep the first failure of each stream; a full table drops the report. *)
AddFault(table, fault) ==
  IF Reports(table, fault.dom) \/ FreeSlots(table) = {} THEN table
  ELSE [table EXCEPT ![Lowest(FreeSlots(table))] = fault]

(* The slots a client's next request may take from: of any of its streams, or
   of one stream only. *)
FaultsIn(table, domains) == {i \in 1..TableSlots : table[i] # NoFault /\ table[i].dom \in domains}

TakeSlot(table, domains) == Lowest(FaultsIn(table, domains))

(* Faulty variant: a reported fault stays in the table. *)
KeepSlot(table, i) == table

WithoutSlot(table, i) == [table EXCEPT ![i] = NoFault]

DropFaults(table, domains) ==
  [i \in 1..TableSlots |-> IF i \in FaultsIn(table, domains) THEN NoFault ELSE table[i]]
=============================================================================
