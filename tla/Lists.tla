-------------------------------- MODULE Lists --------------------------------
(***************************************************************************)
(* Display lists, crates/dreamgpu-host/src/lists.rs: commands recorded     *)
(* between NewList and EndList, published whole or not at all, and         *)
(* replayed through the callbacks ordinary commands use, with bounds on    *)
(* nesting and on the commands one record may cost.  Memory is counted in  *)
(* units: the namespace, the recording state, a node and a pixel are one   *)
(* each.                                                                   *)
(***************************************************************************)
EXTENDS PixelImage, SequencesExt

CONSTANTS ListNames,    \* names 1..n; the largest stands for u32::MAX
          MaxLists,     \* NAMES
          Nesting,      \* NESTING
          Work,         \* WORK
          MaxIssued,    \* bound on commands between NewList and EndList
          MaxListImages     \* bound on image identities

ASSUME ListsAssumption ==
    {ListNames, MaxLists, Nesting, Work, MaxIssued, MaxListImages} \subseteq Nat \ {0}

VARIABLES use,        \* the commands this behaviour uses
          lists,      \* the namespace: there, next, and name -> nodes
          rec,        \* State of the context and its list_mode
          work,       \* image, bytes charged, in_begin, drawn, error and commands of the last call
          issued      \* history: commands since NewList; images drawn outside lists

listVars == <<use, lists, rec, work, issued>>

Uses == {"calls", "blocks", "images", "names"}
Idle == [there |-> FALSE, mode |-> "none", name |-> 0, begin |-> FALSE, failed |-> FALSE,
         nodes |-> <<>>, image |-> {}]
Rested(w) == [w EXCEPT !.drawn = <<>>, !.error = "none", !.cost = 0]
ListsInit ==
    /\ use \in Uses
    /\ lists = [there |-> FALSE, next |-> 1, names |-> <<>>]
    /\ rec = Idle
    /\ work = [image |-> EmptyImage(0), bytes |-> 0, in_begin |-> FALSE, drawn |-> <<>>,
               error |-> "none", cost |-> 0]
    /\ issued = [commands |-> <<>>, images |-> {}]

Plain(kind) == [kind |-> kind]
Call(names) == [kind |-> "call", names |-> names]
ErrorNode == Plain("error")

Fragments == {Fragment(i, 2, 0, 2, Only) : i \in 1..MaxListImages}
    \union {Fragment(1, 2, 0, 1, Only), Fragment(1, 2, 0, 1, {"first"}), Fragment(1, 2, 1, 0, {"abort"})}
    \union {Fragment(1, 2, at, 1, {"last"}) : at \in 0..1}
ListCommands ==
    CASE use = "calls" -> {Plain("draw"), Call(<<1>>), Call(<<2>>), Call(<<1, 1>>)}
      [] use = "blocks" -> {Plain("draw"), Plain("begin"), Plain("end"), Call(<<1>>)}
      [] use = "images" -> Fragments \union {Plain("draw"), Call(<<1>>)}
      [] use = "names" -> {}

-----------------------------------------------------------------------------
(* Recording: capture.                                                       *)

CanAllocate(bytes, n, refused) == bytes + n <= ImageLimit /\ ~refused

(* The image rules of a recording: the fragments of one image follow each    *)
(* other without a gap.  rec.image is the fragment state, a set of at most   *)
(* one.                                                                      *)
Follows(r, c) ==
    IF c.kind # "image" THEN r.image = {}
    ELSE /\ ValidFragment(c)
         /\ IF "first" \in c.flags THEN r.image = {}
            ELSE \E i \in r.image : i = [id |-> c.id, total |-> c.total, received |-> c.at]
ImageAfter(r, c) ==
    IF c.kind # "image" \/ c.flags \intersect {"last", "abort"} # {} THEN {}
    ELSE {[id |-> c.id, total |-> c.total, received |-> c.at + c.n]}

(* A recording that failed stays failed.  The faulty variant publishes what  *)
(* there was memory for.                                                     *)
FailsNot(r) == r
Fails(r) == [r EXCEPT !.failed = TRUE]

Appended(r, c, refused) ==
    IF r.failed THEN r
    ELSE IF ~CanAllocate(work.bytes, 1, refused) THEN Fails(r)
    ELSE [r EXCEPT !.nodes = Append(@, c)]

(* Begin within Begin and End without one are recorded as errors.            *)
Misplaced(r, c) == (c.kind = "begin" /\ r.begin) \/ (c.kind = "end" /\ ~r.begin)

Within(begin, c) == CASE c.kind = "begin" -> TRUE [] c.kind = "end" -> FALSE [] OTHER -> begin
Recorded(r, c, refused) ==
    IF Misplaced(r, c)
      THEN IF Follows(r, ErrorNode) THEN Appended(r, ErrorNode, refused) ELSE Fails(r)
    ELSE LET b == [r EXCEPT !.begin = Within(@, c)]
         IN IF ~Follows(r, c) THEN Fails(b)
            ELSE Appended([b EXCEPT !.image = ImageAfter(r, c)], c, refused)

Recording == rec.mode # "none"
Executes(c) ==
    ~Recording \/ (rec.mode = "execute" /\ ~Misplaced(rec, c) /\ Follows(rec, c))

-----------------------------------------------------------------------------
(* Replay.                                                                   *)

AllowedInBegin(c) == c.kind \in {"end", "error", "call"}

(* One command that is no call, at its depth in the replay.                  *)
Executed(w, c, depth, refused) ==
    IF c.kind = "error" \/ (w.in_begin /\ ~AllowedInBegin(c)) THEN w
    ELSE IF c.kind # "image"
      THEN [Interleaved(w) EXCEPT !.in_begin = IF w.image.active THEN @ ELSE Within(@, c)]
    ELSE IF depth > 0 /\ "first" \in c.flags
      THEN IF w.image.active THEN Fail(w, "context")
           ELSE Streamed([w EXCEPT !.image.last_id = 0], c, refused)
    ELSE Streamed(w, c, refused)

Works == [image : [active : BOOLEAN, total : Nat, received : Nat, id : Nat, last_id : Nat],
          bytes : Int, in_begin : BOOLEAN, error : STRING, cost : Nat,
          drawn : Seq([id : Nat, total : Nat, received : Nat])]
Replayable == [kind : {"draw", "begin", "end", "error"}]
    \union [kind : {"call"}, names : Seq(Nat)] \union Fragments

(* A command at its depth in the replay: a call performs the nodes of one    *)
(* list after the other, until the first error or the limit of the work.     *)
Performed[w \in Works, c \in Replayable, depth \in 0..Nesting, refused \in BOOLEAN] ==
    LET Node(v, d) ==
          IF v.error # "none" \/ v.cost >= Work THEN v
          ELSE Performed[[v EXCEPT !.cost = @ + 1], d, depth + 1, refused]
        List(v, name) ==
          IF v.error # "none" \/ depth = Nesting \/ name \notin DOMAIN lists.names THEN v
          ELSE FoldLeft(Node, v, lists.names[name])
    IN IF c.kind = "call" THEN FoldLeft(List, w, c.names) ELSE Executed(w, c, depth, refused)

(* dreamgpu_list_dispatch after the recording: a call replays images as      *)
(* transactions of its own, and the identity the guest used last remains.    *)
KeepsRetired(w, before) == [w EXCEPT !.image.last_id = before.image.last_id]

Dispatched(w, c, refused) ==
    LET v == Performed[w, c, 0, refused]
    IN IF c.kind # "call" THEN v
       ELSE KeepsRetired(IF v.image.active THEN Released(v) ELSE v, w)

Dispatch == \E c \in ListCommands, refused \in BOOLEAN :
    LET w == IF c.kind = "call" THEN Interleaved(Rested(work)) ELSE Rested(work)
        r == IF Recording THEN Recorded(rec, c, refused) ELSE rec
        more == Len(r.nodes) - Len(rec.nodes)
        v == IF Executes(c) THEN Dispatched([w EXCEPT !.bytes = @ + more], c, refused)
             ELSE [w EXCEPT !.bytes = @ + more]
    IN /\ Len(issued.commands) < MaxIssued
       /\ IF w.error # "none" THEN work' = w /\ UNCHANGED <<rec, issued>>
          ELSE /\ rec' = r /\ work' = v
               /\ issued' = [commands |-> IF Recording
                                            THEN Append(issued.commands,
                                                        IF Misplaced(rec, c) THEN ErrorNode ELSE c)
                                            ELSE <<>>,
                             images |-> issued.images \union
                               (IF c.kind = "call" THEN {} ELSE {d.id : d \in Range(v.drawn)})]
       /\ UNCHANGED <<use, lists>>

-----------------------------------------------------------------------------
(* Queries.                                                                  *)

(* namespace, made on first use.                                             *)
WithNamespace(refused) ==
    IF lists.there THEN [lists |-> lists, bytes |-> work.bytes]
    ELSE IF CanAllocate(work.bytes, 1, refused)
      THEN [lists |-> [lists EXCEPT !.there = TRUE], bytes |-> work.bytes + 1]
    ELSE [lists |-> lists, bytes |-> work.bytes]
Sized(bytes) == [Rested(work) EXCEPT !.bytes = bytes]

NewList == \E name \in {n \in 1..2 : use = "calls" \/ n = 1}, mode \in {"compile", "execute"}, refused \in BOOLEAN :
    LET n == WithNamespace(refused)
        opens == n.lists.there /\ ~Recording /\ (rec.there \/ CanAllocate(n.bytes, 1, refused))
    IN /\ lists' = n.lists
       /\ work' = Sized(n.bytes + (IF opens /\ ~rec.there THEN 1 ELSE 0))
       /\ rec' = IF opens THEN [rec EXCEPT !.there = TRUE, !.mode = mode, !.name = name] ELSE rec
       /\ issued' = IF opens THEN [issued EXCEPT !.commands = <<>>] ELSE issued
       /\ UNCHANGED use

WithList(f, n, v) == [m \in DOMAIN f \union {n} |-> IF m = n THEN v ELSE f[m]]
Nodes(n) == IF n \in DOMAIN lists.names THEN Len(lists.names[n]) ELSE 0

(* EndList within a block is refused; else the recording ends, and replaces  *)
(* the list unless it failed.                                                *)
EndList ==
    LET publishes == /\ ~rec.failed /\ rec.image = {}
                     /\ rec.name \in DOMAIN lists.names
                          \/ Cardinality(DOMAIN lists.names) < MaxLists
    IN /\ Recording /\ ~rec.begin
       /\ rec' = [Idle EXCEPT !.there = TRUE]
       /\ lists' = IF publishes THEN [lists EXCEPT !.names = WithList(@, rec.name, rec.nodes)]
                   ELSE lists
       /\ work' = Sized(work.bytes - (IF publishes THEN Nodes(rec.name) ELSE Len(rec.nodes)))
       /\ issued' = [issued EXCEPT !.commands = <<>>]
       /\ UNCHANGED use

Ranges == {r \in (1..ListNames) \X (1..ListNames) : use = "names" \/ r \in {<<1, 1>>, <<1, 2>>}}
DeleteLists == \E r \in Ranges, refused \in {b \in BOOLEAN : ~b \/ ~lists.there} :
    LET made == WithNamespace(refused)
        gone == {n \in DOMAIN lists.names : n >= r[1] /\ n < r[1] + r[2]}
    IN /\ lists' = [made.lists EXCEPT !.names = [n \in DOMAIN @ \ gone |-> @[n]]]
       /\ work' = Sized(made.bytes - FoldLeft(LAMBDA s, n : s + Nodes(n), 0, SetToSeq(gone)))
       /\ UNCHANGED <<use, rec, issued>>

(* GenLists: the first run of unused names from "next" on, starting over at  *)
(* 1 behind the last name.                                                   *)
StartFor(start, n) == IF start + n > ListNames + 1 THEN 1 ELSE start
Run(start, n) == start..(start + n - 1)

(* A try per name in use and one to start over.                              *)
FirstRun[start \in Nat, n \in Nat, tries \in Nat] ==
    LET s == StartFor(start, n)
        used == Run(s, n) \intersect DOMAIN lists.names
    IN IF used = {} THEN s
       ELSE IF tries = 0 THEN 0
       ELSE FirstRun[(CHOOSE u \in used : \A v \in used : u <= v) + 1, n, tries - 1]

GenLists == \E n \in 1..2, refused \in BOOLEAN :
    LET made == WithNamespace(refused)
        first == FirstRun[lists.next, n, MaxLists + 1]
    IN /\ use = "names"
       /\ IF ~made.lists.there \/ n > MaxLists - Cardinality(DOMAIN lists.names) \/ first = 0
            THEN lists' = made.lists
          ELSE lists' = [made.lists EXCEPT
                 !.names = [m \in DOMAIN @ \union Run(first, n) |->
                              IF m \in Run(first, n) THEN <<>> ELSE @[m]],
                 !.next = IF first + n > ListNames THEN 1 ELSE first + n]
       /\ work' = Sized(made.bytes)
       /\ UNCHANGED <<use, rec, issued>>

(* The context goes; the namespace goes with its last context.               *)
ReleaseLists ==
    /\ rec.there \/ lists.there
    /\ rec' = Idle
    /\ lists' = [there |-> FALSE, next |-> 1, names |-> <<>>]
    /\ LET w == Released(Rested(work))
           nodes == FoldLeft(LAMBDA s, n : s + Nodes(n), 0, SetToSeq(DOMAIN lists.names))
       IN work' = [w EXCEPT !.in_begin = FALSE, !.image = EmptyImage(0),
                            !.bytes = @ - nodes - Len(rec.nodes) - (IF rec.there THEN 1 ELSE 0)
                                        - (IF lists.there THEN 1 ELSE 0)]
    /\ issued' = [commands |-> <<>>, images |-> {}]
    /\ UNCHANGED use

ListsNext ==
    \/ Dispatch \/ NewList \/ EndList \/ DeleteLists \/ GenLists \/ ReleaseLists

-----------------------------------------------------------------------------
(* Properties.                                                               *)

ListsTypeOK ==
    /\ DOMAIN lists.names \subseteq 1..ListNames /\ Cardinality(DOMAIN lists.names) <= MaxLists
    /\ work.bytes \in 0..ImageLimit /\ Len(rec.nodes) <= MaxIssued
    /\ work.image.received <= work.image.total

(* Memory is charged for exactly the namespace, the recording, the nodes of  *)
(* both and the image under way, whatever failed.                            *)
ListsAccounted ==
    work.bytes = (IF lists.there THEN 1 ELSE 0) + (IF rec.there THEN 1 ELSE 0) + Len(rec.nodes)
                 + FoldLeft(LAMBDA s, n : s + Nodes(n), 0, SetToSeq(DOMAIN lists.names))
                 + (IF work.image.active THEN work.image.total ELSE 0)

(* A list that EndList publishes holds every command issued since NewList,   *)
(* in their order: a recording that ran out of memory or broke off an image  *)
(* leaves the old list instead.                                              *)
PublishedWhole == [][ \A n \in DOMAIN lists'.names :
    (lists'.names[n] # <<>> /\ ~(n \in DOMAIN lists.names /\ lists.names[n] = lists'.names[n]))
        => lists'.names[n] = issued.commands ]_listVars

(* Replaying a published list never fails the guest's record, except for     *)
(* memory: what recording let through, the callbacks accept.                 *)
ReplayAccepted == [][ \A c \in {Call(<<n>>) : n \in DOMAIN lists.names} :
    Dispatched(Rested(work), c, FALSE).error \in {"none", "limit"} \/ work.image.active ]_listVars

(* Native GL gets whole images: no raster is drawn from memory the guest did *)
(* not fill.                                                                 *)
ImagesWhole == \A d \in Range(work.drawn) : d.received = d.total

(* An image the guest sends is drawn at most once, even when its fragments   *)
(* are sent again; only replays of a list draw it again.                     *)
ImagesOnce == [][ \A d \in Range(work'.drawn) :
    d.id \notin issued.images \/ work'.cost > 0 ]_listVars

(* What recording and replaying promise the guest and native GL.             *)
ListsSound == PublishedWhole /\ ReplayAccepted /\ ImagesOnce /\ []ImagesWhole
=============================================================================
