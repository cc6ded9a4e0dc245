---------------------------- MODULE InstallStore ----------------------------
(***************************************************************************)
(* The store of the guest installer (tools/setup): the journal of every    *)
(* generation, the preparation receipts, the private copies and the public *)
(* files and registry values they are about.                               *)
(*                                                                         *)
(* An image is a value: Absent, the one Windows had, one of a payload, one *)
(* of somebody else, or a copy cut short.  Files reach the disk with the   *)
(* call that writes them, registry values when they are flushed.           *)
(***************************************************************************)
EXTENDS Naturals, Sequences, FiniteSets

CONSTANTS
  Items,          \* public destinations, 1..n in the order of the plan
  Files,          \* those that are files; the others are registry values
  Native,         \* what each held before the first installation
  Replaced,       \* the items whose payload an upgrade changes
  MaxGeneration   \* bound of the model

ASSUME StoreConstants ==
    /\ Items = 1..Cardinality(Items) /\ Items # {}
    /\ Files \subseteq Items /\ Replaced \subseteq Items
    /\ Native \in [Items -> {"none", "windows", "first"}]
    /\ MaxGeneration \in Nat \ {0}

Absent == "none"
Torn == "torn"
Generations == 1..MaxGeneration
Unprepared == [gen |-> 0]

VARIABLES
  log,       \* the last journal appended for each generation
  receipt,   \* the preparation receipt of each generation
  public,    \* what programs see at each destination
  flushed,   \* what a power loss leaves there
  slots      \* private files of each generation and entry, by suffix

storeVars == <<log, receipt, public, flushed, slots>>

Suffix == {"before", "new", "restore"}
StoreInit ==
    /\ log = [g \in Generations |-> Unprepared]
    /\ receipt = [g \in Generations |-> Unprepared]
    /\ public = Native /\ flushed = Native
    /\ slots = [g \in Generations |-> [n \in Items |-> [s \in Suffix |-> Absent]]]

(* load: the last append is that of the newest generation.                   *)
Published == {g \in Generations : log[g] # Unprepared}
Newest == IF Published = {} THEN Unprepared
          ELSE log[CHOOSE g \in Published : \A h \in Published : h <= g]

Persist(j) == log' = [log EXCEPT ![j.gen] = j]

From(e, undo) == IF undo THEN e.desired ELSE e.before
To(e, undo) == IF undo THEN e.before ELSE e.desired
Reached(e, undo) == public[e.item] = To(e, undo)
Waits(e, undo) == public[e.item] = From(e, undo)
AllReached(j, undo) == \A n \in DOMAIN j.items : Reached(j.items[n], undo)

-----------------------------------------------------------------------------
(* Plans.                                                                    *)

Payload(intent, i) == IF intent = "upgrade" /\ i \in Replaced THEN "second" ELSE "first"

(* inherit: what the predecessor left is what must be found.                 *)
Left(e, restored) == IF restored THEN e.before ELSE e.desired
Settled(e, restored) == e.phase \in {IF restored THEN "restored" ELSE "applied", "borrowed"}
Inherits(before, prior, restored) == Settled(prior, restored) /\ before = Left(prior, restored)

Priors(previous, i) ==
    IF previous = Unprepared THEN {}
    ELSE {e \in {previous.items[n] : n \in DOMAIN previous.items} : e.item = i}

(* One item of prepare_generation, captured from what is there now.          *)
Captured(g, i, desired, previous) ==
    LET before == public[i]
        own == [item |-> i, before |-> before, desired |-> desired, original |-> before,
                og |-> g, oi |-> i, phase |-> IF before = desired THEN "borrowed" ELSE "prepared"]
    IN IF Priors(previous, i) = {} THEN own
       ELSE LET p == CHOOSE e \in Priors(previous, i) : TRUE
            IN [own EXCEPT !.original = p.original, !.og = p.og, !.oi = p.oi,
                  !.phase = IF before = desired /\ p.phase = "borrowed" THEN "borrowed"
                            ELSE "prepared"]

CanCapture(previous) ==
    \A i \in Items : \A p \in Priors(previous, i) :
        Inherits(public[i], p, previous.state = "failed")

SystemPlan(g, intent, previous) ==
    [gen |-> g, state |-> "staged", uninstall |-> FALSE,
     items |-> [i \in Items |-> Captured(g, i, Payload(intent, i), previous)]]

(* uninstall_plan: back to the originals, in the opposite order.             *)
Removed(e, restored) ==
    LET before == IF restored THEN e.before ELSE e.desired
    IN [e EXCEPT !.before = before, !.desired = e.original,
                 !.phase = IF before = e.original THEN "borrowed" ELSE "prepared"]
UninstallPlan(j) ==
    [gen |-> j.gen + 1, state |-> "staged", uninstall |-> TRUE,
     items |-> [n \in DOMAIN j.items |->
                  Removed(j.items[Len(j.items) + 1 - n], j.state = "failed")]]

(* restored_parent: a rolled-back generation and the one it went back to.    *)
RestoredParent(child, parent) ==
    /\ child.state = "failed" /\ ~child.uninstall /\ ~parent.uninstall
    /\ parent.state \in {"activated", "failed"}
    /\ \A n \in DOMAIN child.items :
         LET e == child.items[n]
         IN /\ e.phase \in {"restored", "borrowed"}
            /\ \A p \in Priors(parent, e.item) :
                 /\ Inherits(e.before, p, parent.state = "failed")
                 /\ e.original = p.original /\ e.og = p.og /\ e.oi = p.oi

(* assess_uninstall walks the rolled-back generations to an installed one.   *)
Ancestors(j) == {g \in 1..j.gen - 1 :
    /\ log[g].state = "activated"
    /\ \A h \in g + 1..j.gen : RestoredParent(log[h], log[h - 1])}
Assessed(j) ==
    /\ ~j.uninstall /\ j.state \in {"activated", "failed"}
    /\ AllReached(j, j.state = "failed")
    /\ j.state = "failed" => Ancestors(j) # {}

(* next_system_generation: whose successor the new generation is.            *)
FirstOfItsKind(j) ==
    \A n \in DOMAIN j.items : LET e == j.items[n]
                              IN e.og = j.gen /\ e.oi = n /\ e.before = e.original
Succeeds(j) ==
    /\ AllReached(j, j.state = "failed")
    /\ \/ j.state = "activated" /\ ~j.uninstall
       \/ j.state = "removed" /\ j.uninstall
       \/ j.state = "failed" /\ (Assessed(j) \/ FirstOfItsKind(j))
Predecessor(j) ==
    IF j.state = "activated" \/ (j.state = "failed" /\ Assessed(j)) THEN j ELSE Unprepared

-----------------------------------------------------------------------------
(* prepare_generation and publish_preparation.                               *)

(* What the digest of a receipt binds: the mode and the journal before it.   *)
Intent(plan, previous) ==
    [removal |-> plan.uninstall, of |-> IF plan.uninstall THEN plan ELSE previous]

(* A receipt is kept only for the very plan it was written for.              *)
WriteReceipt(plan, previous) ==
    /\ receipt[plan.gen] = Unprepared
    /\ receipt' = [receipt EXCEPT ![plan.gen] = [gen |-> plan.gen, plan |-> plan,
                                                 intent |-> Intent(plan, previous)]]
    /\ UNCHANGED <<log, public, flushed, slots>>
ReceiptFits(plan, previous) ==
    /\ receipt[plan.gen] # Unprepared /\ receipt[plan.gen].intent = Intent(plan, previous)
    /\ AllReached(receipt[plan.gen].plan, TRUE)

(* backup_before: a copy cut short is discarded and made again.              *)
ToBackUpOnce(j, n) ==   \* faulty: any copy found is taken for a good one
    LET e == j.items[n]
    IN e.item \in Files /\ e.before # Absent /\ slots[j.gen][n]["before"] = Absent
ToBackUp(j, n) ==
    LET e == j.items[n]
    IN e.item \in Files /\ e.before # Absent /\ slots[j.gen][n]["before"] # e.before
BackUp(j, n) ==
    /\ Waits(j.items[n], FALSE)
    /\ \E copy \in {Torn, j.items[n].before} :
         slots' = [slots EXCEPT ![j.gen][n]["before"] = copy]
    /\ UNCHANGED <<log, receipt, public, flushed>>

(* file_payload: the bytes of one entry, laid ready under a private name. An *)
(* unfinished copy is neither used nor replaced.                             *)
Suffixed(undo) == IF undo THEN "restore" ELSE "new"
Source(j, n, undo) ==
    LET e == j.items[n]
    IN IF undo THEN slots[j.gen][n]["before"]
       ELSE IF j.uninstall THEN slots[e.og][e.oi]["before"] ELSE e.desired
PayloadReady(j, n, undo) ==
    LET to == To(j.items[n], undo)
    IN to = Absent \/ slots[j.gen][n][Suffixed(undo)] = to
LayPayload(j, n, undo) ==
    /\ slots[j.gen][n][Suffixed(undo)] = Absent
    /\ Source(j, n, undo) = To(j.items[n], undo)
    /\ \E copy \in {Torn, To(j.items[n], undo)} :
         slots' = [slots EXCEPT ![j.gen][n][Suffixed(undo)] = copy]
    /\ UNCHANGED <<log, receipt, public, flushed>>

-----------------------------------------------------------------------------
(* Registry values.                                                          *)

SetValue(e, undo) ==
    /\ public' = [public EXCEPT ![e.item] = To(e, undo)]
    /\ UNCHANGED <<log, receipt, flushed, slots>>
FlushValue(i) ==
    /\ flushed' = [flushed EXCEPT ![i] = public[i]]
    /\ UNCHANGED <<log, receipt, public, slots>>
=============================================================================
