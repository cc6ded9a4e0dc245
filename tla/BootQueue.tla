----------------------------- MODULE BootQueue ------------------------------
(***************************************************************************)
(* The transaction of boot-time renames (tools/setup/boot-queue.h): which  *)
(* entries of a generation Windows is to rename at the next start, kept in *)
(* a record of the installer and in the one queue of the operating system, *)
(* which other installers use as well and which has no lock.               *)
(***************************************************************************)
EXTENDS InstallStore, SequencesExt

CONSTANT Protected   \* files Windows replaces only with AllowProtectedRenames

ASSUME QueueConstants == Protected \subseteq Files

VARIABLES
  boot,    \* record of each generation and direction: [phase, entries, completed]
  os,      \* PendingFileRenameOperations and AllowProtectedRenames, as read now
  kept     \* the same as a power loss leaves them

queueVars == <<boot, os, kept>>

NoRecord == [phase |-> "none", entries |-> {}, completed |-> {}]
NoQueue == [queue |-> <<>>, grant |-> FALSE]
Other == [gen |-> 0, undo |-> FALSE, n |-> 0]   \* a rename of somebody else

QueueInit ==
    /\ boot = [g \in Generations |-> [undo \in BOOLEAN |-> NoRecord]]
    /\ os = NoQueue /\ kept = NoQueue

Record(j, undo) == boot[j.gen][undo]
SaveRecord(j, undo, r) == boot' = [boot EXCEPT ![j.gen][undo] = r]
SavePhase(j, undo, phase) == boot' = [boot EXCEPT ![j.gen][undo].phase = phase]

(* RuntimeBootStore::prepare: the files of the journal that are not there yet. *)
Moves(j, undo) == {n \in DOMAIN j.items :
    LET e == j.items[n]
    IN e.item \in Files /\ e.phase # "borrowed" /\ e.before # e.desired}
Pending(j, undo) == {n \in Moves(j, undo) : ~Reached(j.items[n], undo)}

Remaining(r) == r.entries \ r.completed
Needed(j, r) == \E n \in Remaining(r) : j.items[n].item \in Protected

(* expected: the remaining entries in order, as far as they were appended.   *)
Entries(j, undo, S) == [k \in 1..Cardinality(S) |->
    [gen |-> j.gen, undo |-> undo,
     n |-> CHOOSE n \in S : Cardinality({m \in S : m < n}) = k - 1]]
Wanted(j, undo) == Entries(j, undo, Remaining(Record(j, undo)))

(* inventory: an entry is done when its bytes are in place and its source is *)
(* gone, and untouched when both are as they were.                           *)
SourceGone(j, undo, n) ==
    To(j.items[n], undo) = Absent \/ slots[j.gen][n][Suffixed(undo)] = Absent
Done(j, undo, n) == Reached(j.items[n], undo) /\ SourceGone(j, undo, n)
Untouched(j, undo, n) == Waits(j.items[n], undo) /\ PayloadReady(j, n, undo)

NowDone(j, undo) == {n \in Record(j, undo).entries : Done(j, undo, n)}
InventoriedLoose(j, undo) ==   \* faulty: what is not done yet is not looked at
    LET r == Record(j, undo)
    IN /\ r.completed \subseteq NowDone(j, undo)
       /\ os.queue # <<>> => NowDone(j, undo) = r.completed
Inventoried(j, undo) ==
    LET r == Record(j, undo)
    IN /\ \A n \in r.entries : Done(j, undo, n) \/ (n \notin r.completed /\ Untouched(j, undo, n))
       /\ os.queue # <<>> => NowDone(j, undo) = r.completed

(* read: the queue is one this record can have written, and nothing else.    *)
Grantable == {"arming", "queued", "cancelling"}
Readable(j, undo) ==
    LET r == Record(j, undo)
    IN /\ os.grant => r.phase \in Grantable
       /\ Inventoried(j, undo)
       /\ IsPrefix(os.queue, Entries(j, undo, r.entries \ NowDone(j, undo)))

SaveInventory(j, undo) ==
    /\ Readable(j, undo)
    /\ boot' = [boot EXCEPT ![j.gen][undo].completed = NowDone(j, undo)]
    /\ UNCHANGED <<os, kept>>

-----------------------------------------------------------------------------
(* resume, step by step.                                                     *)

Prepare(j, undo) ==
    /\ Record(j, undo) = NoRecord
    /\ \A n \in Moves(j, undo) : Reached(j.items[n], undo) \/ Untouched(j, undo, n)
    /\ SaveRecord(j, undo, [phase |-> "prepared", entries |-> Pending(j, undo), completed |-> {}])
    /\ UNCHANGED <<os, kept>>

Register(j, undo) ==
    /\ Record(j, undo).phase = "prepared" /\ os = NoQueue
    /\ \A n \in Record(j, undo).entries : Untouched(j, undo, n)
    /\ SavePhase(j, undo, "registering") /\ UNCHANGED <<os, kept>>

Enqueue(j, undo) ==
    /\ ~os.grant /\ Inventoried(j, undo)
    /\ Len(os.queue) < Len(Wanted(j, undo)) /\ IsPrefix(os.queue, Wanted(j, undo))
    /\ os' = [os EXCEPT !.queue = Append(@, Wanted(j, undo)[Len(@) + 1])]
    /\ UNCHANGED <<boot, kept>>

Flush == kept' = os /\ UNCHANGED <<boot, os>>

Appended(j, undo) == os.queue = Wanted(j, undo)
Arm(j, undo) ==
    /\ Appended(j, undo) /\ ~os.grant /\ Needed(j, Record(j, undo))
    /\ SavePhase(j, undo, "arming") /\ UNCHANGED <<os, kept>>
Grant(j, undo) ==
    /\ Appended(j, undo) /\ Record(j, undo).phase = "arming" /\ ~os.grant
    /\ os' = [os EXCEPT !.grant = TRUE] /\ UNCHANGED <<boot, kept>>
Queued(j, undo) ==
    /\ Appended(j, undo) /\ os.grant = Needed(j, Record(j, undo))
    /\ SavePhase(j, undo, "queued") /\ UNCHANGED <<os, kept>>
Complete(j, undo) ==
    /\ Remaining(Record(j, undo)) = {} /\ os = NoQueue
    /\ SavePhase(j, undo, "complete") /\ UNCHANGED <<os, kept>>

(* cancel, step by step.                                                     *)
Cancelling(j) ==
    /\ Readable(j, FALSE) /\ SavePhase(j, FALSE, "cancelling") /\ UNCHANGED <<os, kept>>
Revoke(j) ==
    /\ os.grant /\ Appended(j, FALSE)
    /\ os' = [os EXCEPT !.grant = FALSE] /\ UNCHANGED <<boot, kept>>
Dequeue ==
    /\ ~os.grant /\ os.queue # <<>>
    /\ os' = [os EXCEPT !.queue = <<>>] /\ UNCHANGED <<boot, kept>>
Cancelled(j) ==
    /\ os = NoQueue
    /\ SavePhase(j, FALSE, "cancelled") /\ UNCHANGED <<os, kept>>

-----------------------------------------------------------------------------
(* The start of Windows (external): it renames the entries in order, over    *)
(* whatever is there, skips those whose source is gone or whose target is    *)
(* protected without the grant, and empties the queue at the end.            *)
Item(e) == log[e.gen].items[e.n]
Startable(e) ==
    /\ e # Other /\ (Item(e).item \in Protected => os.grant)
    /\ (To(Item(e), e.undo) # Absent => slots[e.gen][e.n][Suffixed(e.undo)] # Absent)
RenameAtStart(e) ==
    IF Startable(e)
    THEN LET to == To(Item(e), e.undo)
             moved == IF to = Absent THEN Absent ELSE slots[e.gen][e.n][Suffixed(e.undo)]
         IN /\ public' = [public EXCEPT ![Item(e).item] = moved]
            /\ flushed' = [flushed EXCEPT ![Item(e).item] = moved]
            /\ slots' = IF to = Absent THEN slots
                        ELSE [slots EXCEPT ![e.gen][e.n][Suffixed(e.undo)] = Absent]
    ELSE UNCHANGED <<public, flushed, slots>>
=============================================================================
