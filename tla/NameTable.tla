------------------------------ MODULE NameTable ------------------------------
(***************************************************************************)
(* The open-addressing name tables of crates/dreamgpu-host: textures,      *)
(* buffers, programs, display lists, queries and fences keep their names   *)
(* in the same kind of table, twice as large as the names it may hold.  A  *)
(* name is searched from its home slot on; a deletion shifts the names     *)
(* behind the hole back, so that no search ends too early.                 *)
(*                                                                         *)
(* The home slots are chosen at the start: a behaviour for every way the   *)
(* hash may spread the names over the slots near the end of the table,     *)
(* where chains wrap.                                                      *)
(***************************************************************************)
EXTENDS Integers, FiniteSets, Sequences, SequencesExt

CONSTANTS TableNames,   \* names 1..n
          TableSlots,   \* SLOTS
          TableLimit,   \* names at most
          Homes         \* slots names hash to

ASSUME TableAssumption ==
    /\ {TableNames, TableLimit} \subseteq Nat \ {0}
    /\ TableSlots = 2 * TableLimit /\ Homes \subseteq 0..(TableSlots - 1)

VARIABLES home,     \* hash
          slots,    \* slot -> name, 0 for none
          members   \* history: the names put in and not taken out

tableVars == <<home, slots, members>>

TableSlot == 0..(TableSlots - 1)
TableInit ==
    /\ home \in [1..TableNames -> Homes]
    /\ slots = [s \in TableSlot |-> 0] /\ members = {}

Probe(n, k) == (home[n] + k) % TableSlots
Distance(from, to) == (to - from) % TableSlots

(* locate: the first slot of the chain that holds the name or nothing.       *)
Locate(t, n) ==
    LET stops == {k \in TableSlot : t[Probe(n, k)] \in {n, 0}}
    IN Probe(n, CHOOSE k \in stops : \A j \in stops : k <= j)
Found(t, n) == t[Locate(t, n)] = n

(* One step of the shift: the name at the slot moves into the hole when the  *)
(* hole lies on its chain.  Faulty variant: it always moves.                 *)
FillsAlways(hole, at, n) == TRUE
Fills(hole, at, n) == Distance(home[n], hole) < Distance(home[n], at)

Shift(index, c, step) ==
    LET at == (index + step) % TableSlots
        n == c.table[at]
    IN IF c.ended \/ n = 0 THEN [c EXCEPT !.ended = TRUE]
       ELSE IF Fills(c.hole, at, n)
         THEN [table |-> [c.table EXCEPT ![c.hole] = n, ![at] = 0], hole |-> at, ended |-> FALSE]
       ELSE c

Removed(t, index) ==
    FoldLeft(LAMBDA c, k : Shift(index, c, k),
             [table |-> [t EXCEPT ![index] = 0], hole |-> index, ended |-> FALSE],
             [k \in 1..(TableSlots - 1) |-> k]).table

InsertName == \E n \in 1..TableNames :
    /\ ~Found(slots, n) /\ Cardinality(members) < TableLimit
    /\ slots' = [slots EXCEPT ![Locate(slots, n)] = n]
    /\ members' = members \union {n}
    /\ UNCHANGED home

RemoveName == \E n \in 1..TableNames :
    /\ Found(slots, n)
    /\ slots' = Removed(slots, Locate(slots, n))
    /\ members' = members \ {n}
    /\ UNCHANGED home

(* DeleteLists: every slot is looked at again after a deletion, for a name   *)
(* may have moved into it.                                                   *)

Look(range, c) ==
    IF c.at \notin TableSlot THEN c
    ELSE IF c.table[c.at] \in range
      THEN [table |-> Removed(c.table, c.at), at |-> c.at]
    ELSE [table |-> c.table, at |-> c.at + 1]

Swept(t, range) ==
    FoldLeft(LAMBDA c, k : Look(range, c), [table |-> t, at |-> 0],
             [k \in 1..(TableSlots + TableLimit) |-> k]).table

RemoveRange == \E first, last \in 1..TableNames :
    /\ first <= last
    /\ slots' = Swept(slots, first..last)
    /\ members' = members \ (first..last)
    /\ UNCHANGED home

TableNext == InsertName \/ RemoveName \/ RemoveRange

-----------------------------------------------------------------------------
(* Properties.                                                               *)

(* The table holds exactly the names put in and not taken out, each once.    *)
TableHoldsNames ==
    /\ {slots[s] : s \in TableSlot} \ {0} = members
    /\ Cardinality({s \in TableSlot : slots[s] # 0}) = Cardinality(members)

(* Every name put in is found by its search, whatever was deleted before it  *)
(* in its chain.                                                             *)
TableFindsNames == \A n \in members : Found(slots, n)

(* The table is the set of its names.                                        *)
NamesFound == TableHoldsNames /\ TableFindsNames
=============================================================================
