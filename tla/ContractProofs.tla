--------------------------- MODULE ContractProofs ---------------------------
(***************************************************************************)
(* Outcomes, for every depth, number of clients, streams, batches and      *)
(* resets: a completion is credited to the entry it belongs to, although   *)
(* the device never compares identities, and what the driver records and   *)
(* answers is what happened to that very batch.                            *)
(*                                                                         *)
(* Then the contract, as long as no fault list has to forget a stream: a   *)
(* stream that failed stays failed, its failure is told once, and the      *)
(* queued transport implements GlContract.                                 *)
(***************************************************************************)
EXTENDS GlQueueProofs, FiniteSetTheorems, SequenceTheorems

-----------------------------------------------------------------------------
(* The inductive invariant.  What the engine holds is of this generation, except while
   a reset is pending: then what runs, and every completion, is older.     *)

InFlight(b) == \E x \in running \cup Entries(pending) : x.batch = b
Seen(b) == InFlight(b) \/ Executed(b)

GenerationInv ==
  /\ ticket = generation /\ (packets # {} => reset /\ running = {})
  /\ \A b \in Entries(pending) : b.gen = generation
  /\ \A r \in running : r.gen = generation <=> ~reset
  /\ \A c \in Entries(done) : Ours(c) => ~reset
  /\ \A c \in credit : Ours(c)
  /\ \A x \in Entries(done) \cup running : x.gen <= generation

(* A batch has one completion, after it was in flight. *)
HistoryInv ==
  /\ \A c \in Entries(history) : c.batch = 0 <=> c.reset
  /\ credit \cup Entries(done) \subseteq Entries(history)
  /\ \A x, y \in Entries(history) : ~x.reset /\ x.batch = y.batch => x = y
  /\ \A b \in Batches : InFlight(b) => ~Executed(b)
  /\ \A b \in Batches : Seen(b) => b \in DOMAIN issued

(* What is true of batch b once it is finished with this outcome, and stays true: it is
   not in flight any more. *)
Fate(b, outcome) ==
  /\ outcome = "none" => Succeeded(b)
  /\ outcome \in {"failed", "skipped"} /\ issued[b].async => ~Succeeded(b)
  /\ outcome = "failed" /\ issued[b].coherent => halted \/ ~Executed(b)
  /\ outcome \in {"none", "failed", "skipped"} => ~InFlight(b)

(* Batch b was published as entry i of the enabled queue. *)
EntryIs(b, i) ==
  /\ b \in DOMAIN issued /\ issued[b].live /\ issued[b].queue = generation /\ issued[b].index = i

(* Each unfinished entry is the batch published there; what no engine took has not been
   executed, and the marker of a rejected entry comes back with its error. *)
TakenAs(e, i) ==
  /\ EntryIs(e.batch, i)
  /\ e.query => ~issued[e.batch].async /\ ~issued[e.batch].coherent
  /\ issued[e.batch].coherent => e.coherent \/ e.error \in {"skipped", "generation"}
  /\ ~e.engine => e.error # "none" /\ ~Seen(e.batch)
  /\ e.engine /\ e.error # "none" => \A x \in Held : x.batch = e.batch => x.error = e.error

TakenInv == \A k \in DOMAIN entries : TakenAs(entries[k], completed + InHand + k - 1)

FinishInv ==
  /\ \A f \in finishing : EntryIs(f.entry.batch, completed) /\ Fate(f.entry.batch, f.error)
  /\ dpc = "count" => \A f \in finishing : status[SlotOf(completed)] = f.error

(* The engine has seen nothing as young as an entry that is still to be consumed. *)
YoungInv ==
  qActive => \A b \in DOMAIN issued :
    issued[b].live /\ issued[b].queue = generation /\ issued[b].index >= consumed
    => \A x \in Batches : Seen(x) => x < b

(* Correspondence: the order, and the entries the engine took. *)
Ahead(list, x, y) == \E i, j \in DOMAIN list : i < j /\ list[i] = x /\ list[j] = y

LineInv ==
  /\ \A x, y \in Entries(pending) : Ahead(pending, x, y) => x.batch < y.batch
  /\ \A x, y \in Entries(done) : Ahead(done, x, y) /\ Ours(x) => Ours(y) /\ x.batch < y.batch
  /\ \A c \in credit, x \in Entries(done) \cup running \cup Entries(pending) :
       Ours(x) => c.batch < x.batch
  /\ \A c \in Entries(done), b \in running \cup Entries(pending) : Ours(c) => c.batch < b.batch
  /\ \A r \in running, b \in Entries(pending) : r.batch < b.batch

OwnInv ==
  /\ \A e \in Entries(entries) : e.engine => \E x \in Held : x.batch = e.batch
  /\ \A x \in Held : \E e \in Entries(entries) : e.engine /\ e.batch = x.batch

EngineInv == GenerationInv /\ HistoryInv /\ LineInv /\ OwnInv /\ TakenInv /\ YoungInv

(* What the driver recorded, and what it is going to record, is true. *)
FateInv ==
  /\ \A b \in Batches : settled[b] # "unset" =>
       /\ b \in DOMAIN issued /\ Fate(b, settled[b])
       /\ settled[b] = "failed" /\ issued[b].coherent => ~Executed(b)
       /\ active /\ OfQueue(b) => issued[b].index < reaped
  /\ active /\ qActive => \A b \in DOMAIN issued :
       OfQueue(b) /\ issued[b].index \in reaped..completed - 1
       => Fate(b, status[SlotOf(issued[b].index)])
  /\ pc = "reaping" => \A b \in DOMAIN issued :
       OfQueue(b) /\ issued[b].index \in reaped..upTo - 1
       => Fate(b, status[SlotOf(issued[b].index)])

(* A synchronous request waits for the entry it wrote, and finds its outcome there. *)
AnswerInv ==
  /\ active /\ (pc = "ring" \/ (Waiting /\ waitFor.use = "entry")) =>
       /\ reaped < produced /\ issued # <<>>
       /\ OfQueue(Len(issued)) /\ issued[Len(issued)].index = produced - 1
  /\ Reached("entry") /\ (Reaping \/ pc \in {"waited", "answer"}) =>
       /\ issued # <<>> /\ produced > 0 /\ waitFor.target = produced
       /\ ring[SlotOf(produced - 1)].batch = Len(issued)
       /\ status[SlotOf(produced - 1)] # "unset"
       /\ Fate(Len(issued), status[SlotOf(produced - 1)])
       /\ active /\ qActive => completed >= produced

OutcomeInv == EngineInv /\ FinishInv /\ FateInv /\ AnswerInv

-----------------------------------------------------------------------------
(* Lists. *)
LEMMA AppendEntries ==
  ASSUME NEW S, NEW s \in Seq(S), NEW x \in S
  PROVE  /\ Entries(Append(s, x)) = Entries(s) \cup {x}
         /\ \A a, b : Ahead(Append(s, x), a, b) => Ahead(s, a, b) \/ (a \in Entries(s) /\ b = x)
<1> DEFINE t == Append(s, x)
<1>1. /\ DOMAIN t = 1..Len(s) + 1 /\ DOMAIN s = 1..Len(s) /\ Len(s) \in Nat
      /\ \A i \in DOMAIN s : t[i] = s[i]
      /\ t[Len(s) + 1] = x
  OBVIOUS
<1> HIDE DEF t
<1>2. DOMAIN t = DOMAIN s \cup {Len(s) + 1}
  BY <1>1
<1>3. Entries(t) = Entries(s) \cup {x}
  BY <1>1, <1>2 DEF Entries
<1>4. ASSUME NEW a, NEW b, Ahead(t, a, b)
      PROVE  Ahead(s, a, b) \/ (a \in Entries(s) /\ b = x)
  <2>1. PICK i, j \in DOMAIN t : i < j /\ t[i] = a /\ t[j] = b
    BY <1>4 DEF Ahead
  <2>2. i \in DOMAIN s
    BY <1>1, <2>1
  <2>3. CASE j \in DOMAIN s
    BY <1>1, <2>1, <2>2, <2>3 DEF Ahead
  <2>4. CASE j = Len(s) + 1
    BY <1>1, <2>1, <2>2, <2>4 DEF Entries
  <2>5. QED
    BY <1>2, <2>3, <2>4
<1>5. QED
  BY <1>3, <1>4 DEF t

LEMMA TailEntries ==
  ASSUME NEW S, NEW s \in Seq(S), s # <<>>
  PROVE  /\ Entries(s) = {Head(s)} \cup Entries(Tail(s)) /\ Head(s) \in S
         /\ Tail(s) \in Seq(S) /\ Len(Tail(s)) = Len(s) - 1 /\ Len(s) \in Nat \ {0}
         /\ \A a, b : Ahead(Tail(s), a, b) => Ahead(s, a, b)
         /\ \A b \in Entries(Tail(s)) : Ahead(s, Head(s), b)
<1> DEFINE t == Tail(s)
<1>1. /\ Head(s) = s[1] /\ Head(s) \in S /\ t \in Seq(S) /\ Len(t) = Len(s) - 1
      /\ DOMAIN s = 1..Len(s) /\ DOMAIN t = 1..Len(s) - 1 /\ Len(s) \in Nat \ {0}
      /\ \A i \in DOMAIN t : t[i] = s[i + 1]
  OBVIOUS
<1> HIDE DEF t
<1>2. \A i \in DOMAIN t : i + 1 \in DOMAIN s
  BY <1>1
<1>3. Entries(t) \subseteq Entries(s) /\ s[1] \in Entries(s)
  BY <1>1, <1>2 DEF Entries
<1>4. ASSUME NEW i \in DOMAIN s PROVE s[i] \in {s[1]} \cup Entries(t)
  <2>1. CASE i = 1
    BY <2>1
  <2>2. CASE i # 1
    <3>1. i - 1 \in DOMAIN t /\ t[i - 1] = s[i]
      BY <1>1, <2>2
    <3>2. QED
      BY <3>1 DEF Entries
  <2>3. QED
    BY <2>1, <2>2
<1>5. Entries(s) \subseteq {s[1]} \cup Entries(t)
  BY <1>4 DEF Entries
<1>6. ASSUME NEW a, NEW b, Ahead(t, a, b)
      PROVE  Ahead(s, a, b)
  <2>1. PICK i, j \in DOMAIN t : i < j /\ t[i] = a /\ t[j] = b
    BY <1>6 DEF Ahead
  <2>2. i + 1 \in DOMAIN s /\ j + 1 \in DOMAIN s /\ i + 1 < j + 1 /\ s[i + 1] = a /\ s[j + 1] = b
    BY <1>1, <1>2, <2>1
  <2>3. QED
    BY <2>2 DEF Ahead
<1>7. ASSUME NEW b \in Entries(t)
      PROVE  Ahead(s, s[1], b)
  <2>1. PICK j \in DOMAIN t : t[j] = b
    BY DEF Entries
  <2>2. j + 1 \in DOMAIN s /\ 1 \in DOMAIN s /\ 1 < j + 1 /\ s[j + 1] = b
    BY <1>1, <1>2, <2>1
  <2>3. QED
    BY <2>2 DEF Ahead
<1>8. QED
  BY <1>1, <1>3, <1>5, <1>6, <1>7 DEF t

-----------------------------------------------------------------------------
(* The engine's operations, as the invariant sees them. *)
LEMMA EngineNumbers ==
  ASSUME PageInv
  PROVE  /\ \A x \in running \cup Entries(pending) :
              x \in Batch /\ x.batch \in Batches /\ x.batch \in Nat \ {0} /\ x.gen \in Nat
         /\ \A c \in Entries(done) \cup Entries(history) \cup credit :
              /\ c \in Completion /\ c.batch \in Nat /\ c.gen \in Nat
              /\ c.batch # 0 => c.batch \in Batches
         /\ generation \in Nat
<1>1. Batches \subseteq Nat \ {0} /\ Generations \subseteq Nat
  BY EngineConstants DEF EngineConstants, Batches, Generations
<1>2. /\ history \in Seq(Completion) /\ done \in Seq(Completion) /\ pending \in Seq(Batch)
      /\ running \subseteq Batch /\ credit \subseteq Completion /\ generation \in Generations
  BY DEF PageInv, TypeOK, EngineTypeOK, DeviceTypeOK, PageTypeOK
<1>3. /\ Entries(history) \subseteq Completion /\ Entries(done) \subseteq Completion
      /\ Entries(pending) \subseteq Batch
  BY <1>2 DEF Entries
<1>4. ASSUME NEW x \in Batch
      PROVE  x.batch \in Batches /\ x.batch \in Nat \ {0} /\ x.gen \in Nat
  <2>1. x.batch \in Batches /\ x.gen \in Generations
    BY DEF Batch
  <2>2. QED
    BY <1>1, <2>1
<1>5. ASSUME NEW c \in Completion
      PROVE  c.batch \in Nat /\ c.gen \in Nat /\ (c.batch # 0 => c.batch \in Batches)
  <2>1. c.batch \in Batches \cup {0}
    BY DEF Completion
  <2>2. c.gen \in Nat
    BY <1>1 DEF Completion
  <2>3. Batches \cup {0} \subseteq Nat
    BY <1>1
  <2>4. c.batch \in Nat /\ (c.batch # 0 => c.batch \in Batches)
    BY <2>1, <2>3
  <2>5. QED
    BY <2>2, <2>4
<1>6. \A x \in running \cup Entries(pending) :
        x \in Batch /\ x.batch \in Batches /\ x.batch \in Nat \ {0} /\ x.gen \in Nat
  BY <1>2, <1>3, <1>4
<1>7. \A c \in Entries(done) \cup Entries(history) \cup credit :
        /\ c \in Completion /\ c.batch \in Nat /\ c.gen \in Nat
        /\ c.batch # 0 => c.batch \in Batches
  BY <1>2, <1>3, <1>5
<1>8. QED
  BY <1>1, <1>2, <1>6, <1>7

LEMMA TakeEffect ==
  ASSUME EngineTypeOK, Take
  PROVE  \E p, q :
           /\ Entries(pending) = {p} \cup Entries(pending') /\ running' = {q}
           /\ \A x, y : Ahead(pending', x, y) => Ahead(pending, x, y)
           /\ \A y \in Entries(pending') : Ahead(pending, p, y)
           /\ q.batch = p.batch /\ q.gen = p.gen /\ (q.error = p.error \/ p.error = "none")
           /\ ~reset /\ running = {} /\ UNCHANGED <<done, reset, ticket, packets, history>>
<1>1. /\ ~reset /\ running = {} /\ pending # <<>> /\ pending' = Tail(pending)
      /\ UNCHANGED <<done, reset, ticket, packets, history>>
  BY DEF Take, CanTake
<1> DEFINE p == Head(pending)
           q == IF Skips(p) THEN [p EXCEPT !.error = "skipped"] ELSE p
<1>2. pending \in Seq(Batch) /\ running' = {q}
  BY DEF EngineTypeOK, Take
<1>3. /\ Entries(pending) = {p} \cup Entries(pending') /\ p \in Batch
      /\ \A x, y : Ahead(pending', x, y) => Ahead(pending, x, y)
      /\ \A y \in Entries(pending') : Ahead(pending, p, y)
  BY <1>1, <1>2, TailEntries
<1>4. q.batch = p.batch /\ q.gen = p.gen /\ (q.error = p.error \/ p.error = "none")
  BY <1>3 DEF Skips, Batch
<1> HIDE DEF p, q
<1>5. QED
  BY <1>1, <1>2, <1>3, <1>4

LEMMA CompleteEffect ==
  ASSUME EngineTypeOK, NEW result \in Outcome, Complete(result)
  PROVE  \E b \in running, c \in Completion :
           /\ c.batch = b.batch /\ c.gen = b.gen /\ ~c.reset
           /\ c.error = b.error \/ b.error = "none"
           /\ PushDone(c) /\ running' = {} /\ UNCHANGED <<pending, reset, ticket, packets>>
<1>1. PICK b \in running :
        /\ result \in RunResults(b)
        /\ PushDone([batch |-> b.batch, gen |-> b.gen, dom |-> b.dom, error |-> result,
                     reset |-> FALSE])
        /\ running' = {} /\ UNCHANGED <<pending, reset, ticket, packets>>
  BY DEF Complete
<1> DEFINE c == [batch |-> b.batch, gen |-> b.gen, dom |-> b.dom, error |-> result, reset |-> FALSE]
<1>2. b \in Batch
  BY DEF EngineTypeOK
<1>3. /\ c \in Completion /\ c.batch = b.batch /\ c.gen = b.gen /\ ~c.reset
      /\ c.error = b.error \/ b.error = "none"
  BY <1>1, <1>2 DEF Batch, Completion, RunResults
<1> HIDE DEF c
<1>4. PushDone(c)
  BY <1>1 DEF c
<1>5. QED
  BY <1>1, <1>3, <1>4

(* A push appends to the history; on a full ring it drops the oldest completion. *)
LEMMA PushEffect ==
  ASSUME EngineTypeOK, NEW c \in Completion, PushDone(c)
  PROVE  /\ Entries(history') = Entries(history) \cup {c}
         /\ Entries(done') \subseteq Entries(done) \cup {c} /\ c \in Entries(done')
         /\ \A x, y : Ahead(done', x, y) => Ahead(done, x, y) \/ (x \in Entries(done) /\ y = c)
         /\ \/ Entries(done) \subseteq Entries(done')
            \/ /\ done # <<>> /\ Len(done) = DoneSlots
               /\ Entries(done) \subseteq Entries(done') \cup {Head(done)}
<1>1. history \in Seq(Completion) /\ done \in Seq(Completion) /\ Len(done) <= DoneSlots
  BY DEF EngineTypeOK
<1>2. Entries(history') = Entries(history) \cup {c}
  BY <1>1, AppendEntries DEF PushDone
<1>3. CASE Len(done) < DoneSlots
  <2>1. done' = Append(done, c)
    BY <1>3 DEF PushDone
  <2>2. QED
    BY <1>1, <1>2, <2>1, AppendEntries
<1>4. CASE ~(Len(done) < DoneSlots)
  <2>1. done' = Append(Tail(done), c) /\ Len(done) = DoneSlots /\ done # <<>>
    BY <1>1, <1>4, EngineConstants DEF PushDone, EngineConstants
  <2>2. /\ Entries(done) = {Head(done)} \cup Entries(Tail(done)) /\ Tail(done) \in Seq(Completion)
        /\ \A x, y : Ahead(Tail(done), x, y) => Ahead(done, x, y)
    BY <1>1, <2>1, TailEntries
  <2> DEFINE rest == Tail(done)
  <2>3. /\ Entries(Append(rest, c)) = Entries(rest) \cup {c}
        /\ \A x, y : Ahead(Append(rest, c), x, y) => Ahead(rest, x, y) \/ (x \in Entries(rest) /\ y = c)
    <3>1. rest \in Seq(Completion)
      BY <2>2
    <3> HIDE DEF rest
    <3>2. QED
      BY <3>1, AppendEntries
  <2>4. QED
    BY <1>2, <2>1, <2>2, <2>3
<1>5. QED
  BY <1>3, <1>4

LEMMA AckEffect ==
  ASSUME EngineTypeOK, ResetDone
  PROVE  /\ UNCHANGED <<pending, running, ticket>> /\ packets # {} /\ packets' = {}
         /\ \/ UNCHANGED <<reset, done, history>>
            \/ \E c \in Completion :
                 c.batch = 0 /\ c.reset /\ c.gen = ticket /\ PushDone(c) /\ ~reset'
<1>1. PICK g \in packets :
        /\ packets' = {} /\ UNCHANGED <<pending, running, ticket>>
        /\ IF Acknowledges(g)
           THEN /\ reset' = FALSE
                /\ PushDone([batch |-> 0, gen |-> g, dom |-> NoDomain,
                             error |-> "none", reset |-> TRUE])
           ELSE UNCHANGED <<reset, done, history>>
  BY DEF ResetDone
<1> DEFINE c == [batch |-> 0, gen |-> g, dom |-> NoDomain, error |-> "none", reset |-> TRUE]
<1>2. c \in Completion /\ c.batch = 0 /\ c.reset /\ c.gen = g
  BY DEF Completion, Outcome, EngineTypeOK
<1> HIDE DEF c
<1>3. CASE Acknowledges(g)
  <2>1. PushDone(c) /\ ~reset' /\ g = ticket
    BY <1>1, <1>3 DEF c, Acknowledges
  <2>2. QED
    BY <1>1, <1>2, <2>1
<1>4. CASE ~Acknowledges(g)
  BY <1>1, <1>4
<1>5. QED
  BY <1>3, <1>4

-----------------------------------------------------------------------------
(* What a step of the engine leaves as it is: the batches it holds, what it has seen,
   and what became of the batches that are not in flight. *)
HeldKept ==
  /\ \A y \in Held' : \E x \in Held : x.batch = y.batch /\ (y.error = x.error \/ x.error = "none")
  /\ \A x \in Held : \E y \in Held' : y.batch = x.batch

SeenKept == \A b \in Batches : Seen(b)' => Seen(b)

Settles(b) ==
  /\ Succeeded(b) => Succeeded(b)'
  /\ ~InFlight(b) => ~InFlight(b)' /\ (Executed(b)' => Executed(b)) /\ (Succeeded(b)' => Succeeded(b))

FateKept == \A b \in Batches : Settles(b)

LEMMA TakenKeeps ==
  ASSUME PageInv, NEW e, NEW i, TakenAs(e, i), HeldKept, SeenKept, UNCHANGED <<issued, generation>>
  PROVE  TakenAs(e, i)'
<1>1. /\ EntryIs(e.batch, i)
      /\ e.query => ~issued[e.batch].async /\ ~issued[e.batch].coherent
      /\ issued[e.batch].coherent => e.coherent \/ e.error \in {"skipped", "generation"}
      /\ ~e.engine => e.error # "none" /\ ~Seen(e.batch)
      /\ e.engine /\ e.error # "none" => \A x \in Held : x.batch = e.batch => x.error = e.error
  BY DEF TakenAs
<1>2. e.batch \in Batches
  BY <1>1, IssuedNumbers DEF EntryIs
<1>3. ~e.engine => ~Seen(e.batch)'
  BY <1>1, <1>2 DEF SeenKept
<1>4. EntryIs(e.batch, i)'
  BY <1>1 DEF EntryIs
<1>5. ASSUME e.engine, e.error # "none", NEW y \in Held', y.batch = e.batch
      PROVE  y.error = e.error
  <2>1. PICK x \in Held : x.batch = y.batch /\ (y.error = x.error \/ x.error = "none")
    BY DEF HeldKept
  <2>2. x.error = e.error
    BY <1>1, <1>5, <2>1
  <2>3. QED
    BY <1>5, <2>1, <2>2
<1>6. issued' = issued
  OBVIOUS
<1>7. QED
  BY <1>1, <1>3, <1>4, <1>5, <1>6 DEF TakenAs

LEMMA HeldTransfer ==
  ASSUME PageInv, OwnInv, TakenInv, YoungInv, HeldKept, SeenKept,
         UNCHANGED <<entries, issued, generation, completed, finishing, consumed, qActive>>
  PROVE  OwnInv' /\ TakenInv' /\ YoungInv'
<1>1. OwnInv'
  <2>1. ASSUME NEW e \in Entries(entries)', e.engine
        PROVE  \E x \in Held' : x.batch = e.batch
    <3>1. PICK x \in Held : x.batch = e.batch
      BY <2>1 DEF OwnInv, Entries
    <3>2. QED
      BY <3>1 DEF HeldKept
  <2>2. ASSUME NEW y \in Held'
        PROVE  \E e \in Entries(entries)' : e.engine /\ e.batch = y.batch
    <3>1. PICK x \in Held : x.batch = y.batch
      BY DEF HeldKept
    <3>2. PICK e \in Entries(entries) : e.engine /\ e.batch = x.batch
      BY DEF OwnInv
    <3>3. e \in Entries(entries)'
      BY DEF Entries
    <3>4. QED
      BY <3>1, <3>2, <3>3
  <2>3. QED
    BY <2>1, <2>2 DEF OwnInv
<1>2. TakenInv'
  <2> SUFFICES ASSUME NEW k \in DOMAIN entries, NEW e, NEW i, e = entries[k],
                      i = completed + InHand + k - 1
               PROVE  TakenAs(e, i)'
    BY DEF TakenInv, InHand
  <2>1. TakenAs(e, i)
    BY DEF TakenInv
  <2>2. QED
    BY <2>1, TakenKeeps
<1>3. YoungInv'
  BY DEF YoungInv, SeenKept
<1>4. QED
  BY <1>1, <1>2, <1>3

LEMMA TakeKeeps ==
  ASSUME PageInv, GenerationInv, HistoryInv, LineInv, Take, UNCHANGED <<credit, generation, issued>>
  PROVE  GenerationInv' /\ HistoryInv' /\ LineInv' /\ HeldKept /\ SeenKept /\ FateKept
<1>1. PICK p, q :
        /\ Entries(pending) = {p} \cup Entries(pending') /\ running' = {q}
        /\ \A x, y : Ahead(pending', x, y) => Ahead(pending, x, y)
        /\ \A y \in Entries(pending') : Ahead(pending, p, y)
        /\ q.batch = p.batch /\ q.gen = p.gen /\ (q.error = p.error \/ p.error = "none")
        /\ ~reset /\ running = {} /\ UNCHANGED <<done, reset, ticket, packets, history>>
  BY TakeEffect DEF PageInv, TypeOK
<1>2. p.gen = generation /\ p.batch # 0
  BY <1>1, EngineNumbers DEF GenerationInv
<1>3. generation <= generation
  BY EngineNumbers
<1>4. Entries(pending)' = Entries(pending') /\ Entries(done)' = Entries(done)
      /\ Entries(history)' = Entries(history)
  BY <1>1 DEF Entries
<1>5. \A b : (InFlight(b)' <=> InFlight(b)) /\ (Executed(b)' <=> Executed(b))
             /\ (Succeeded(b)' <=> Succeeded(b))
  BY <1>1, <1>4 DEF InFlight, Executed, Succeeded
<1>6. GenerationInv'
  BY <1>1, <1>2, <1>3, <1>4 DEF GenerationInv, Ours
<1>7. HistoryInv'
  <2>1. \A b \in Batches : InFlight(b)' => ~Executed(b)'
    BY <1>5 DEF HistoryInv
  <2>2. \A b \in Batches : Seen(b)' => b \in DOMAIN issued'
    BY <1>5 DEF HistoryInv, Seen
  <2>3. QED
    BY <1>1, <1>4, <2>1, <2>2 DEF HistoryInv
<1>8. LineInv'
  <2>1. \A x, y \in Entries(pending)' : Ahead(pending', x, y) => x.batch < y.batch
    BY <1>1, <1>4 DEF LineInv
  <2>2. \A x, y \in Entries(done)' : Ahead(done', x, y) /\ Ours(x)' => Ours(y)' /\ x.batch < y.batch
    BY <1>1, <1>4 DEF LineInv, Ours
  <2>3. \A c \in credit', x \in Entries(done)' \cup running' \cup Entries(pending)' :
          Ours(x)' => c.batch < x.batch
    BY <1>1, <1>2, <1>4 DEF LineInv, Ours
  <2>4. \A c \in Entries(done)', b \in running' \cup Entries(pending)' : Ours(c)' => c.batch < b.batch
    BY <1>1, <1>4 DEF LineInv, Ours
  <2>5. \A r \in running', b \in Entries(pending)' : r.batch < b.batch
    BY <1>1, <1>4 DEF LineInv
  <2>6. QED
    BY <2>1, <2>2, <2>3, <2>4, <2>5 DEF LineInv
<1>9. HeldKept
  <2>1. \A x : Ours(x)' <=> Ours(x)
    BY DEF Ours
  <2>2. Held = {x \in credit \cup Entries(done) \cup {p} \cup Entries(pending') : Ours(x)}
    BY <1>1 DEF Held
  <2>3. Held' = {x \in credit \cup Entries(done) \cup {q} \cup Entries(pending') : Ours(x)}
    BY <1>1, <1>4, <2>1 DEF Held
  <2>4. Ours(p) /\ Ours(q)
    BY <1>1, <1>2 DEF Ours
  <2>5. ASSUME NEW y \in Held'
        PROVE  \E x \in Held : x.batch = y.batch /\ (y.error = x.error \/ x.error = "none")
    <3>1. y = q \/ y \in Held
      BY <2>2, <2>3
    <3>2. p \in Held
      BY <2>2, <2>4
    <3>3. QED
      BY <1>1, <3>1, <3>2
  <2>6. ASSUME NEW x \in Held
        PROVE  \E y \in Held' : y.batch = x.batch
    <3>1. x = p \/ x \in Held'
      BY <2>2, <2>3
    <3>2. q \in Held'
      BY <2>3, <2>4
    <3>3. QED
      BY <1>1, <3>1, <3>2
  <2>7. QED
    BY <2>5, <2>6 DEF HeldKept
<1>10. SeenKept /\ FateKept
  BY <1>5 DEF SeenKept, FateKept, Settles, Seen
<1>11. QED
  BY <1>6, <1>7, <1>8, <1>9, <1>10

(* There is room for the completion of an entry: a full ring of completions holds an
   older one of another generation, or an acknowledgement. *)
LEMMA RoomForDone ==
  ASSUME PageInv, LineInv, OwnInv, NEW r \in running, Ours(r), done # <<>>, Len(done) = DoneSlots
  PROVE  ~Ours(Head(done))
<1> SUFFICES ASSUME Ours(Head(done)) PROVE FALSE
  OBVIOUS
<1>1. done \in Seq(Completion) /\ DoneSlots \in Nat \ {0} /\ Depth <= DoneSlots
  BY EngineConstants, DeviceConstants
     DEF EngineConstants, DeviceConstants, PageInv, TypeOK, EngineTypeOK
<1>2. DOMAIN done = 1..DoneSlots /\ 1 \in DOMAIN done /\ Head(done) = done[1]
  BY <1>1
<1>3. /\ completed \in Nat /\ consumed \in Nat /\ pgProduced \in Nat /\ Depth \in Nat
      /\ InHand \in {0, 1} /\ Len(entries) \in Nat
  BY PageNumbers
<1>4. \A i \in DOMAIN done : Ours(done[i])
  <2> SUFFICES ASSUME NEW i \in DOMAIN done, i # 1 PROVE Ours(done[i])
    BY <1>2
  <2>1. Ahead(done, done[1], done[i]) /\ done[1] \in Entries(done) /\ done[i] \in Entries(done)
    BY <1>1, <1>2 DEF Ahead, Entries
  <2>2. QED
    BY <1>2, <2>1 DEF LineInv
<1>5. \A i, j \in DOMAIN done : i < j => done[i].batch < done[j].batch
  BY <1>4 DEF LineInv, Ahead, Entries
<1>6. \A i \in DOMAIN done : done[i].batch < r.batch
  BY <1>4 DEF LineInv, Entries
<1> DEFINE n == DoneSlots + 1
           name == [i \in 1..n |-> IF i = n THEN r.batch ELSE done[i].batch]
<1>7. \A i \in 1..n : i # n => i \in DOMAIN done
  BY <1>1, <1>2
<1>8. \A i, j \in 1..n : i < j => name[i] < name[j]
  <2> SUFFICES ASSUME NEW i \in 1..n, NEW j \in 1..n, i < j PROVE name[i] < name[j]
    OBVIOUS
  <2>1. i # n /\ i \in DOMAIN done
    BY <1>1, <1>7
  <2>2. QED
    BY <1>5, <1>6, <1>7, <2>1
<1>9. \A i \in 1..n : name[i] \in Nat
  BY <1>7, EngineNumbers DEF Entries
<1>10. \A i \in 1..n : \E k \in DOMAIN entries : entries[k].batch = name[i]
  <2> SUFFICES ASSUME NEW i \in 1..n PROVE \E k \in DOMAIN entries : entries[k].batch = name[i]
    OBVIOUS
  <2>1. \E x \in Held : x.batch = name[i]
    <3>1. CASE i = n
      BY <3>1 DEF Held
    <3>2. CASE i # n
      BY <1>4, <1>7, <3>2 DEF Held, Entries
    <3>3. QED
      BY <3>1, <3>2
  <2>2. QED
    BY <2>1 DEF OwnInv, Entries
<1> DEFINE place == [i \in 1..n |-> CHOOSE k \in DOMAIN entries : entries[k].batch = name[i]]
<1>11. \A i \in 1..n : place[i] \in DOMAIN entries /\ entries[place[i]].batch = name[i]
  BY <1>10
<1>12. DOMAIN entries = 1..Len(entries)
  BY DEF PageInv, TypeOK, DeviceTypeOK
<1>13. place \in Injection(1..n, 1..Len(entries))
  <2>1. place \in [1..n -> 1..Len(entries)]
    BY <1>11, <1>12
  <2>2. \A i, j \in 1..n : place[i] = place[j] => i = j
    <3> SUFFICES ASSUME NEW i \in 1..n, NEW j \in 1..n, place[i] = place[j] PROVE i = j
      OBVIOUS
    <3>1. name[i] = name[j]
      BY <1>11
    <3> HIDE DEF name, place
    <3>2. ~(i < j) /\ ~(j < i)
      BY <1>8, <1>9, <3>1
    <3>3. QED
      BY <1>1, <3>2
  <2>3. QED
    BY <2>1, <2>2 DEF Injection, IsInjective
<1> HIDE DEF place, name
<1>14. Cardinality(1..n) <= Cardinality(1..Len(entries))
  BY <1>3, <1>13, FS_Injection, FS_Interval
<1>15. n <= Len(entries)
  <2> HIDE DEF n
  <2>1. ASSUME NEW m \in Nat PROVE Cardinality(1..m) = m
    BY FS_Interval
  <2>2. n \in Nat
    BY <1>1 DEF n
  <2>3. Cardinality(1..n) = n /\ Cardinality(1..Len(entries)) = Len(entries)
    BY <1>3, <2>1, <2>2
  <2>4. QED
    BY <1>14, <2>3
<1>16. entries # <<>>
  BY <1>1, <1>15
<1>17. Len(entries) <= Depth
  <2>1. consumed = completed + Len(entries) + InHand /\ consumed <= pgProduced
        /\ pgProduced - completed <= Depth
    BY <1>16 DEF PageInv, DeviceInv
  <2>2. QED
    BY <1>3, <2>1
<1>18. QED
  BY <1>1, <1>3, <1>15, <1>17

LEMMA CompleteKeeps ==
  ASSUME PageInv, GenerationInv, HistoryInv, LineInv, OwnInv, NEW result \in Outcome, Complete(result),
         UNCHANGED <<credit, generation, issued>>
  PROVE  GenerationInv' /\ HistoryInv' /\ LineInv' /\ HeldKept /\ SeenKept /\ FateKept
<1>1. PICK b \in running, c \in Completion :
        /\ c.batch = b.batch /\ c.gen = b.gen /\ ~c.reset
        /\ c.error = b.error \/ b.error = "none"
        /\ PushDone(c) /\ running' = {} /\ UNCHANGED <<pending, reset, ticket, packets>>
  BY CompleteEffect DEF PageInv, TypeOK
<1>2. running = {b}
  BY DEF PageInv, TypeOK, EngineTypeOK, AtMostOne
<1>3. /\ Entries(history') = Entries(history) \cup {c}
      /\ Entries(done') \subseteq Entries(done) \cup {c} /\ c \in Entries(done')
      /\ \A x, y : Ahead(done', x, y) => Ahead(done, x, y) \/ (x \in Entries(done) /\ y = c)
      /\ \/ Entries(done) \subseteq Entries(done')
         \/ /\ done # <<>> /\ Len(done) = DoneSlots
            /\ Entries(done) \subseteq Entries(done') \cup {Head(done)}
  BY <1>1, PushEffect DEF PageInv, TypeOK
<1>4. /\ Entries(history)' = Entries(history') /\ Entries(done)' = Entries(done')
      /\ Entries(pending)' = Entries(pending) /\ \A x : Ours(x)' <=> Ours(x)
  BY <1>1 DEF Entries, Ours
<1>5. b.batch # 0 /\ b.batch \in Batches /\ b.gen <= generation /\ InFlight(b.batch)
      /\ (b.gen = generation <=> ~reset)
  BY EngineNumbers DEF GenerationInv, InFlight
<1>6. \A y \in Entries(pending) : b.batch < y.batch
  BY DEF LineInv
<1>7. \A y \in Batches : InFlight(y) <=> (InFlight(y)' \/ y = b.batch)
  BY <1>1, <1>2, <1>4 DEF InFlight
<1>8. ~InFlight(b.batch)'
  <2>1. \A y \in Entries(pending) : y.batch \in Nat
    BY EngineNumbers
  <2>2. b.batch \in Nat
    BY EngineNumbers
  <2>3. QED
    BY <1>1, <1>4, <1>6, <2>1, <2>2 DEF InFlight
<1>9. /\ \A y : Executed(y)' <=> Executed(y) \/ y = b.batch
      /\ \A y : Succeeded(y) => Succeeded(y)'
      /\ \A y : y # b.batch => (Succeeded(y)' => Succeeded(y))
  BY <1>1, <1>3, <1>4 DEF Executed, Succeeded
<1>10. GenerationInv'
  BY <1>1, <1>3, <1>4, <1>5 DEF GenerationInv, Ours
<1>11. HistoryInv'
  <2>1. ~Executed(b.batch)
    BY <1>5 DEF HistoryInv
  <2>2. \A x \in Entries(history) : ~x.reset => x.batch # b.batch
    BY <2>1 DEF Executed
  <2>3. \A x \in Entries(history)' : x.batch = 0 <=> x.reset
    BY <1>1, <1>3, <1>4, <1>5 DEF HistoryInv
  <2>4. \A x, y \in Entries(history)' : ~x.reset /\ x.batch = y.batch => x = y
    <3> SUFFICES ASSUME NEW x \in Entries(history)', NEW y \in Entries(history)', ~x.reset,
                        x.batch = y.batch
                 PROVE  x = y
      OBVIOUS
    <3>1. ~y.reset
      BY <2>3
    <3>2. QED
      BY <1>1, <1>3, <1>4, <2>2, <3>1 DEF HistoryInv
  <2>5. \A y \in Batches : InFlight(y)' => ~Executed(y)'
    BY <1>7, <1>8, <1>9 DEF HistoryInv
  <2>6. \A y \in Batches : Seen(y)' => y \in DOMAIN issued'
    BY <1>5, <1>7, <1>9 DEF HistoryInv, Seen
  <2>7. credit' \cup Entries(done)' \subseteq Entries(history)'
    BY <1>3, <1>4 DEF HistoryInv
  <2>8. QED
    BY <2>3, <2>4, <2>5, <2>6, <2>7 DEF HistoryInv
<1>12. LineInv'
  <2>1. \A x, y \in Entries(pending)' : Ahead(pending', x, y) => x.batch < y.batch
    BY <1>1, <1>4 DEF LineInv
  <2>2. \A x, y \in Entries(done)' : Ahead(done', x, y) /\ Ours(x)' => Ours(y)' /\ x.batch < y.batch
    <3> SUFFICES ASSUME NEW x \in Entries(done)', NEW y \in Entries(done)', Ahead(done', x, y), Ours(x)
                 PROVE  Ours(y) /\ x.batch < y.batch
      BY <1>4
    <3>1. CASE Ahead(done, x, y)
      <4>1. x \in Entries(done) /\ y \in Entries(done)
        BY <3>1 DEF Ahead, Entries
      <4>2. QED
        BY <3>1, <4>1 DEF LineInv
    <3>2. CASE x \in Entries(done) /\ y = c
      <4>1. x.batch < b.batch /\ ~reset
        BY <3>2 DEF LineInv, GenerationInv
      <4>2. QED
        BY <1>1, <1>5, <3>2, <4>1 DEF Ours
    <3>3. QED
      BY <1>3, <3>1, <3>2
  <2>3. \A d \in credit', x \in Entries(done)' \cup running' \cup Entries(pending)' :
          Ours(x)' => d.batch < x.batch
    <3> SUFFICES ASSUME NEW d \in credit, NEW x \in Entries(done) \cup {c} \cup Entries(pending), Ours(x)
                 PROVE  d.batch < x.batch
      BY <1>1, <1>3, <1>4
    <3>1. CASE x = c
      BY <1>1, <1>5, <3>1 DEF LineInv, Ours
    <3>2. CASE x # c
      BY <3>2 DEF LineInv
    <3>3. QED
      BY <3>1, <3>2
  <2>4. \A d \in Entries(done)', x \in running' \cup Entries(pending)' : Ours(d)' => d.batch < x.batch
    BY <1>1, <1>3, <1>4, <1>6 DEF LineInv
  <2>5. \A x \in running', y \in Entries(pending)' : x.batch < y.batch
    BY <1>1
  <2>6. QED
    BY <2>1, <2>2, <2>3, <2>4, <2>5 DEF LineInv
<1>13. HeldKept
  <2>1. ASSUME NEW y \in Held'
        PROVE  \E x \in Held : x.batch = y.batch /\ (y.error = x.error \/ x.error = "none")
    <3>1. y \in credit \cup Entries(done) \cup {c} \cup Entries(pending) /\ Ours(y)
      BY <1>1, <1>3, <1>4 DEF Held
    <3>2. CASE y = c
      <4>1. Ours(b)
        BY <1>1, <3>1, <3>2 DEF Ours
      <4>2. b \in Held
        BY <4>1 DEF Held
      <4>3. QED
        BY <1>1, <3>2, <4>2
    <3>3. CASE y # c
      BY <3>1, <3>3 DEF Held
    <3>4. QED
      BY <3>2, <3>3
  <2>2. ASSUME NEW x \in Held
        PROVE  \E y \in Held' : y.batch = x.batch
    <3>1. x \in credit \cup Entries(done) \cup {b} \cup Entries(pending) /\ Ours(x)
      BY <1>2 DEF Held
    <3>2. CASE x = b
      <4>1. c \in Held'
        BY <1>1, <1>3, <1>4, <3>1, <3>2 DEF Held, Ours
      <4>2. QED
        BY <1>1, <3>2, <4>1
    <3>3. CASE x \in Entries(done) /\ x # b
      <4>1. x \in Entries(done')
        <5>1. CASE Entries(done) \subseteq Entries(done')
          BY <3>3, <5>1
        <5>2. CASE /\ done # <<>> /\ Len(done) = DoneSlots
                   /\ Entries(done) \subseteq Entries(done') \cup {Head(done)}
          <6>1. Ours(b)
            BY <1>5, <3>1, <3>3 DEF GenerationInv, Ours
          <6>2. ~Ours(Head(done))
            BY <5>2, <6>1, RoomForDone
          <6>3. QED
            BY <3>1, <3>3, <5>2, <6>2
        <5>3. QED
          BY <1>3, <5>1, <5>2
      <4>2. x \in Held'
        BY <1>4, <3>1, <4>1 DEF Held
      <4>3. QED
        BY <4>2
    <3>4. CASE x \in credit \cup Entries(pending)
      <4>1. x \in Held'
        BY <1>4, <3>1, <3>4 DEF Held
      <4>2. QED
        BY <4>1
    <3>5. QED
      BY <3>1, <3>2, <3>3, <3>4
  <2>3. QED
    BY <2>1, <2>2 DEF HeldKept
<1>14. SeenKept
  BY <1>5, <1>7, <1>9 DEF SeenKept, Seen
<1>15. FateKept
  BY <1>5, <1>7, <1>9 DEF FateKept, Settles
<1>16. QED
  BY <1>10, <1>11, <1>12, <1>13, <1>14, <1>15

LEMMA AckKeeps ==
  ASSUME PageInv, GenerationInv, HistoryInv, LineInv, ResetDone, UNCHANGED <<credit, generation, issued>>
  PROVE  GenerationInv' /\ HistoryInv' /\ LineInv' /\ HeldKept /\ SeenKept /\ FateKept
<1>1. /\ UNCHANGED <<pending, running, ticket>> /\ packets # {} /\ packets' = {}
      /\ \/ UNCHANGED <<reset, done, history>>
         \/ \E c \in Completion :
              c.batch = 0 /\ c.reset /\ c.gen = ticket /\ PushDone(c) /\ ~reset'
  BY AckEffect DEF PageInv, TypeOK
<1>2. reset /\ running = {}
  BY <1>1 DEF GenerationInv
<1>3. Entries(pending)' = Entries(pending) /\ \A x : Ours(x)' <=> Ours(x)
  BY <1>1 DEF Entries, Ours
<1>4. CASE UNCHANGED <<reset, done, history>>
  <2>1. Entries(done)' = Entries(done) /\ Entries(history)' = Entries(history)
    BY <1>4 DEF Entries
  <2>2. \A b : (InFlight(b)' <=> InFlight(b)) /\ (Executed(b)' <=> Executed(b))
               /\ (Succeeded(b)' <=> Succeeded(b))
    BY <1>1, <1>3, <2>1 DEF InFlight, Executed, Succeeded
  <2>3. Held' = Held
    BY <1>1, <1>3, <2>1 DEF Held
  <2>4. HeldKept /\ SeenKept /\ FateKept
    BY <2>2, <2>3 DEF HeldKept, SeenKept, FateKept, Settles, Seen
  <2>5. GenerationInv' /\ HistoryInv' /\ LineInv'
    BY <1>1, <1>2, <1>3, <1>4, <2>1, <2>2 DEF GenerationInv, HistoryInv, LineInv, Seen
  <2>6. QED
    BY <2>4, <2>5
<1>5. ASSUME NEW c \in Completion, c.batch = 0, c.reset, c.gen = ticket, PushDone(c), ~reset'
      PROVE  GenerationInv' /\ HistoryInv' /\ LineInv' /\ HeldKept /\ SeenKept /\ FateKept
  <2>1. /\ Entries(history') = Entries(history) \cup {c}
        /\ Entries(done') \subseteq Entries(done) \cup {c} /\ c \in Entries(done')
        /\ \A x, y : Ahead(done', x, y) => Ahead(done, x, y) \/ (x \in Entries(done) /\ y = c)
        /\ \/ Entries(done) \subseteq Entries(done')
           \/ /\ done # <<>> /\ Len(done) = DoneSlots
              /\ Entries(done) \subseteq Entries(done') \cup {Head(done)}
    BY <1>5, PushEffect DEF PageInv, TypeOK
  <2>2. Entries(history)' = Entries(history') /\ Entries(done)' = Entries(done')
    BY DEF Entries
  <2>3. c.gen = generation /\ ~Ours(c) /\ generation <= generation
    BY <1>5, EngineNumbers DEF GenerationInv, Ours
  <2>4. \A x \in Entries(done') : ~Ours(x)
    BY <1>2, <2>1, <2>3 DEF GenerationInv
  <2>5. \A b : (InFlight(b)' <=> InFlight(b)) /\ (Executed(b)' <=> Executed(b))
               /\ (Succeeded(b)' <=> Succeeded(b))
    BY <1>1, <1>3, <1>5, <2>1, <2>2 DEF InFlight, Executed, Succeeded
  <2>6. GenerationInv'
    BY <1>1, <1>2, <1>3, <1>5, <2>1, <2>2, <2>3, <2>4 DEF GenerationInv
  <2>7. HistoryInv'
    <3>1. \A x, y \in Entries(history)' : ~x.reset /\ x.batch = y.batch => x = y
      <4> SUFFICES ASSUME NEW x \in Entries(history)', NEW y \in Entries(history)', ~x.reset,
                          x.batch = y.batch
                   PROVE  x = y
        OBVIOUS
      <4>1. x \in Entries(history)
        BY <1>5, <2>1, <2>2
      <4>2. y \in Entries(history)
        BY <1>5, <2>1, <2>2, <4>1 DEF HistoryInv
      <4>3. QED
        BY <4>1, <4>2 DEF HistoryInv
    <3>2. \A x \in Entries(history)' : x.batch = 0 <=> x.reset
      BY <1>5, <2>1, <2>2 DEF HistoryInv
    <3>3. credit' \cup Entries(done)' \subseteq Entries(history)'
      BY <2>1, <2>2 DEF HistoryInv
    <3>4. QED
      BY <2>5, <3>1, <3>2, <3>3 DEF HistoryInv, Seen
  <2>8. LineInv'
    <3>1. \A x, y \in Entries(pending)' : Ahead(pending', x, y) => x.batch < y.batch
      BY <1>1, <1>3 DEF LineInv
    <3>2. \A x \in Entries(done)' : ~Ours(x)'
      BY <1>3, <2>2, <2>4
    <3>3. running' = {}
      BY <1>1, <1>2
    <3>4. \A d \in credit', x \in Entries(pending)' : Ours(x)' => d.batch < x.batch
      BY <1>3 DEF LineInv
    <3>5. QED
      BY <3>1, <3>2, <3>3, <3>4 DEF LineInv
  <2>9. HeldKept
    <3>1. Held = {x \in credit \cup Entries(pending) : Ours(x)}
      BY <1>2 DEF Held, GenerationInv
    <3>2. Held' = {x \in credit \cup Entries(pending) : Ours(x)}
      BY <1>1, <1>2, <1>3, <2>2, <2>4 DEF Held
    <3>3. QED
      BY <3>1, <3>2 DEF HeldKept
  <2>10. SeenKept /\ FateKept
    BY <2>5 DEF SeenKept, FateKept, Settles, Seen
  <2>11. QED
    BY <2>6, <2>7, <2>8, <2>9, <2>10
<1>6. QED
  BY <1>1, <1>4, <1>5

LEMMA SnapshotKeeps ==
  ASSUME GenerationInv, HistoryInv, LineInv, ResetSnapshot, UNCHANGED <<credit, generation, issued>>
  PROVE  GenerationInv' /\ HistoryInv' /\ LineInv' /\ HeldKept /\ SeenKept /\ FateKept
<1>1. UNCHANGED <<pending, running, done, reset, ticket, history>> /\ reset /\ running = {}
  BY DEF ResetSnapshot
<1>2. /\ Entries(pending)' = Entries(pending) /\ Entries(done)' = Entries(done)
      /\ Entries(history)' = Entries(history) /\ \A x : Ours(x)' <=> Ours(x)
  BY <1>1 DEF Entries, Ours
<1>3. \A b : (InFlight(b)' <=> InFlight(b)) /\ (Executed(b)' <=> Executed(b))
             /\ (Succeeded(b)' <=> Succeeded(b))
  BY <1>1, <1>2 DEF InFlight, Executed, Succeeded
<1>4. Held' = Held
  BY <1>1, <1>2 DEF Held
<1>5. HeldKept /\ SeenKept /\ FateKept
  BY <1>3, <1>4 DEF HeldKept, SeenKept, FateKept, Settles, Seen
<1>6. GenerationInv' /\ HistoryInv' /\ LineInv'
  BY <1>1, <1>2, <1>3 DEF GenerationInv, HistoryInv, LineInv, Seen
<1>7. QED
  BY <1>5, <1>6

LEMMA WorkerHolds ==
  ASSUME PageInv, EngineInv, Worker, UNCHANGED <<deviceVars, generation, issued>>
  PROVE  EngineInv' /\ FateKept
<1>1. UNCHANGED <<credit, entries, completed, finishing, consumed, qActive>>
  BY DEF deviceVars
<1>2. GenerationInv' /\ HistoryInv' /\ LineInv' /\ HeldKept /\ SeenKept /\ FateKept
  BY <1>1, TakeKeeps, CompleteKeeps, AckKeeps, SnapshotKeeps DEF EngineInv, Worker
<1>3. OwnInv' /\ TakenInv' /\ YoungInv'
  BY <1>1, <1>2, HeldTransfer DEF EngineInv
<1>4. QED
  BY <1>2, <1>3 DEF EngineInv

-----------------------------------------------------------------------------
(* What a step that leaves the engine alone, or only drops what it holds of the queue,
   keeps of the invariant. *)

LEMMA EngineStays ==
  ASSUME EngineInv, qActive' => qActive,
         UNCHANGED <<engineVars, credit, entries, completed, finishing, consumed, generation, issued>>
  PROVE  EngineInv' /\ FateKept
<1>1. UNCHANGED <<pending, running, done, reset, ticket, packets, history>>
  BY DEF engineVars
<1>2. GenerationInv'
  BY <1>1 DEF EngineInv, GenerationInv, Ours, Entries
<1>3. HistoryInv'
  BY <1>1 DEF EngineInv, HistoryInv, Seen, InFlight, Executed, Entries
<1>4. LineInv'
  BY <1>1 DEF EngineInv, LineInv, Ours, Entries, Ahead
<1>5. OwnInv'
  BY <1>1 DEF EngineInv, OwnInv, Held, Ours, Entries
<1>6. TakenInv'
  BY <1>1 DEF EngineInv, TakenInv, TakenAs, EntryIs, Seen, InFlight, Executed, Held, Ours, Entries, InHand
<1>7. YoungInv'
  BY <1>1 DEF EngineInv, YoungInv, Seen, InFlight, Executed, Entries
<1>8. FateKept
  BY <1>1 DEF FateKept, Settles, InFlight, Executed, Succeeded, Entries
<1>9. QED
  BY <1>2, <1>3, <1>4, <1>5, <1>6, <1>7, <1>8 DEF EngineInv

LEMMA FateKeeps ==
  ASSUME NEW b, Settles(b), issued'[b] = issued[b], halted => halted', NEW outcome, Fate(b, outcome)
  PROVE  Fate(b, outcome)'
BY DEF Fate, Settles

LEMMA FinishStays ==
  ASSUME PageInv, FinishInv, FateKept, halted => halted', dpc' = "count" => dpc = "count",
         UNCHANGED <<finishing, issued, generation, completed, status>>
  PROVE  FinishInv'
<1>1. ASSUME NEW f \in finishing
      PROVE  EntryIs(f.entry.batch, completed)' /\ Fate(f.entry.batch, f.error)'
  <2>1. EntryIs(f.entry.batch, completed) /\ Fate(f.entry.batch, f.error)
    BY DEF FinishInv
  <2>2. f.entry.batch \in Batches
    BY <2>1, IssuedNumbers DEF EntryIs
  <2>3. Fate(f.entry.batch, f.error)'
    BY <2>1, <2>2, FateKeeps DEF FateKept
  <2>4. EntryIs(f.entry.batch, completed)'
    BY <2>1 DEF EntryIs
  <2>5. QED
    BY <2>3, <2>4
<1>2. QED
  BY <1>1 DEF FinishInv

(* A batch of the live queue that is not completed. *)
Waits(b) ==
  /\ b \in DOMAIN issued /\ active /\ qActive /\ OfQueue(b)
  /\ issued[b].index \in completed..produced - 1

(* What the driver recorded and will record does not speak of such a batch. *)
LEMMA FateStays ==
  ASSUME PageInv, FateInv, AnswerInv, \A b \in Batches : Settles(b) \/ Waits(b),
         halted => halted', qActive' => qActive, UNCHANGED <<driverVars, status, ring, completed>>
  PROVE  FateInv' /\ AnswerInv'
<1>0. UNCHANGED <<active, qGeneration, produced, reaped, issued, settled, pc, reapFor, upTo, waitFor, waited>>
  BY DEF driverVars, queueVars, localVars
<1>1. /\ reaped \in Nat /\ completed \in Nat /\ produced \in Nat /\ upTo \in Nat
      /\ \A b \in DOMAIN issued : b \in Batches /\ issued[b].index \in Nat
  BY PageNumbers, IssuedNumbers
<1>2. /\ active /\ qActive => reaped <= completed
      /\ pc = "reaping" /\ qActive => upTo <= completed
  BY DEF PageInv, WindowInv
<1>3. ASSUME NEW b \in Batches, NEW o, o = settled[b], o # "unset"
      PROVE  /\ b \in DOMAIN issued /\ Fate(b, o)'
             /\ o = "failed" /\ issued[b].coherent => ~Executed(b)'
             /\ active /\ OfQueue(b) => issued[b].index < reaped
  <2>1. /\ b \in DOMAIN issued /\ Fate(b, o)
        /\ o = "failed" /\ issued[b].coherent => ~Executed(b)
        /\ active /\ OfQueue(b) => issued[b].index < reaped
    BY <1>3 DEF FateInv
  <2>2. ~Waits(b)
    BY <1>1, <1>2, <2>1 DEF Waits
  <2>3. Settles(b)
    BY <2>2
  <2>4. Fate(b, o)'
    BY <1>0, <2>1, <2>3, FateKeeps
  <2>5. o = "failed" /\ issued[b].coherent => ~Executed(b)'
    BY <2>1, <2>3 DEF Fate, Settles
  <2>6. QED
    BY <2>1, <2>4, <2>5
<1>4. ASSUME NEW b \in DOMAIN issued, OfQueue(b), NEW o, Fate(b, o), active,
             issued[b].index < completed
      PROVE  Fate(b, o)'
  <2>1. ~Waits(b)
    BY <1>1, <1>4 DEF Waits
  <2>2. QED
    BY <1>0, <1>1, <1>4, <2>1, FateKeeps
<1>5. FateInv'
  <2>1. \A b \in Batches : settled'[b] # "unset" =>
          /\ b \in DOMAIN issued' /\ Fate(b, settled[b])'
          /\ settled'[b] = "failed" /\ issued'[b].coherent => ~Executed(b)'
          /\ active' /\ OfQueue(b)' => issued'[b].index < reaped'
    BY <1>0, <1>3 DEF OfQueue, Fate
  <2>2. ASSUME active', qActive', NEW b \in DOMAIN issued, OfQueue(b), NEW o, o = status[SlotOf(issued[b].index)],
               issued[b].index \in reaped..completed - 1
        PROVE  Fate(b, o)'
    <3>1. Fate(b, o)
      BY <1>0, <2>2 DEF FateInv
    <3>2. QED
      BY <1>0, <1>1, <1>4, <2>2, <3>1
  <2>3. ASSUME pc = "reaping", NEW b \in DOMAIN issued, OfQueue(b), NEW o, o = status[SlotOf(issued[b].index)],
               issued[b].index \in reaped..upTo - 1
        PROVE  Fate(b, o)'
    <3>1. Fate(b, o)
      BY <2>3 DEF FateInv
    <3>2. ~Waits(b)
      BY <1>1, <1>2, <2>3 DEF Waits
    <3>3. QED
      BY <1>0, <1>1, <3>1, <3>2, FateKeeps
  <2>4. \A b : OfQueue(b)' <=> OfQueue(b)
    BY <1>0 DEF OfQueue
  <2>5. \A b : status'[SlotOf(issued'[b].index)] = status[SlotOf(issued[b].index)]
    BY <1>0
  <2>6. /\ active' /\ qActive' => \A b \in DOMAIN issued' :
             OfQueue(b)' /\ issued'[b].index \in reaped'..completed' - 1
             => Fate(b, status[SlotOf(issued[b].index)])'
        /\ pc' = "reaping" => \A b \in DOMAIN issued' :
             OfQueue(b)' /\ issued'[b].index \in reaped'..upTo' - 1
             => Fate(b, status[SlotOf(issued[b].index)])'
    BY <1>0, <2>2, <2>3, <2>4, <2>5
  <2>7. QED
    BY <2>1, <2>6 DEF FateInv
<1>6. AnswerInv'
  <2>1. ASSUME Reached("entry"), Reaping \/ pc \in {"waited", "answer"}
        PROVE  /\ issued # <<>> /\ produced > 0 /\ waitFor.target = produced
               /\ ring[SlotOf(produced - 1)].batch = Len(issued)
               /\ status[SlotOf(produced - 1)] # "unset"
               /\ Fate(Len(issued), status[SlotOf(produced - 1)])'
               /\ active /\ qActive' => completed >= produced
    <3>1. /\ issued # <<>> /\ produced > 0 /\ waitFor.target = produced
          /\ ring[SlotOf(produced - 1)].batch = Len(issued)
          /\ status[SlotOf(produced - 1)] # "unset"
          /\ Fate(Len(issued), status[SlotOf(produced - 1)])
          /\ active /\ qActive => completed >= produced
      BY <2>1 DEF AnswerInv
    <3>2. ASSUME NEW b, b = Len(issued), NEW o, o = status[SlotOf(produced - 1)]
          PROVE  Fate(b, o)'
      <4>1. b \in DOMAIN issued /\ b \in Batches /\ Fate(b, o)
        BY <3>1, <3>2, IssuedNumbers
      <4>2. ~Waits(b)
        BY <1>1, <3>1 DEF Waits
      <4>3. QED
        BY <1>0, <4>1, <4>2, FateKeeps
    <3>3. Len(issued') = Len(issued) /\ status'[SlotOf(produced' - 1)] = status[SlotOf(produced - 1)]
      BY <1>0
    <3>4. QED
      BY <3>1, <3>2, <3>3
  <2>2. /\ (Reached("entry")' <=> Reached("entry")) /\ (Reaping' <=> Reaping) /\ (Waiting' <=> Waiting)
        /\ (OfQueue(Len(issued)))' <=> OfQueue(Len(issued))
    BY <1>0 DEF Reached, Reaping, Waiting, OfQueue
  <2>3. QED
    BY <1>0, <2>1, <2>2 DEF AnswerInv, SlotOf
<1>7. QED
  BY <1>5, <1>6

-----------------------------------------------------------------------------
(* The driver. *)
LEMMA DriverStays ==
  ASSUME PageInv, EngineInv, FinishInv, UNCHANGED <<engineVars, deviceVars, generation, issued, halted, status>>
  PROVE  EngineInv' /\ FinishInv' /\ FateKept
<1>1. /\ UNCHANGED <<credit, entries, completed, finishing, consumed, dpc>>
      /\ qActive' => qActive
  BY DEF deviceVars
<1>2. EngineInv' /\ FateKept
  BY <1>1, EngineStays
<1>3. FinishInv'
  BY <1>1, <1>2, FinishStays
<1>4. QED
  BY <1>2, <1>3

(* A step that does not record anything. *)
LEMMA FateFrame ==
  ASSUME PageInv, FateInv, FateKept, pc' # "reaping", halted' = halted,
         active' => active, qActive' => qActive,
         UNCHANGED <<qGeneration, reaped, issued, settled, completed, status>>
  PROVE  FateInv'
<1>1. ASSUME NEW b \in DOMAIN issued, NEW o, Fate(b, o)
      PROVE  Fate(b, o)'
  BY <1>1, FateKeeps, IssuedNumbers DEF FateKept
<1>2. ASSUME NEW b \in Batches, NEW o, o = settled[b], o # "unset"
      PROVE  /\ b \in DOMAIN issued /\ Fate(b, o)'
             /\ o = "failed" /\ issued[b].coherent => ~Executed(b)'
             /\ active /\ OfQueue(b) => issued[b].index < reaped
  <2>1. /\ b \in DOMAIN issued /\ Fate(b, o)
        /\ o = "failed" /\ issued[b].coherent => ~Executed(b)
        /\ active /\ OfQueue(b) => issued[b].index < reaped
    BY <1>2 DEF FateInv
  <2>2. o = "failed" /\ issued[b].coherent => ~Executed(b)'
    BY <2>1 DEF Fate, FateKept, Settles
  <2>3. QED
    BY <1>1, <2>1, <2>2
<1>3. \A b \in Batches : settled'[b] # "unset" =>
        /\ b \in DOMAIN issued' /\ Fate(b, settled[b])'
        /\ settled'[b] = "failed" /\ issued'[b].coherent => ~Executed(b)'
        /\ active' /\ OfQueue(b)' => issued'[b].index < reaped'
  BY <1>2 DEF OfQueue, Fate
<1>4. ASSUME active, qActive, NEW b \in DOMAIN issued, OfQueue(b), NEW o,
             o = status[SlotOf(issued[b].index)], issued[b].index \in reaped..completed - 1
      PROVE  Fate(b, o)'
  <2>1. Fate(b, o)
    BY <1>4 DEF FateInv
  <2>2. QED
    BY <1>1, <2>1
<1>5. active' /\ qActive' => \A b \in DOMAIN issued' :
        OfQueue(b)' /\ issued'[b].index \in reaped'..completed' - 1
        => Fate(b, status[SlotOf(issued[b].index)])'
  BY <1>4 DEF OfQueue, Fate, SlotOf
<1>6. QED
  BY <1>3, <1>5 DEF FateInv

(* What a request waits for, while it does not write the ring. *)
LEMMA AnswerFrame ==
  ASSUME PageInv, AnswerInv, FateKept, halted' = halted,
         active' => active /\ UNCHANGED reaped, qActive' => qActive,
         UNCHANGED <<qGeneration, produced, issued, status, ring, completed>>,
         active /\ (pc' = "ring" \/ (Waiting' /\ waitFor'.use = "entry")) =>
           pc = "ring" \/ (Waiting /\ waitFor.use = "entry"),
         Reached("entry")' /\ (Reaping' \/ pc' \in {"waited", "answer"}) =>
              /\ Reached("entry") /\ (Reaping \/ pc \in {"waited", "answer"})
              /\ waitFor' = waitFor
  PROVE  AnswerInv'
<1>1. ASSUME Reached("entry")', Reaping' \/ pc' \in {"waited", "answer"}
      PROVE  /\ issued # <<>> /\ produced > 0 /\ waitFor.target = produced
             /\ ring[SlotOf(produced - 1)].batch = Len(issued)
             /\ status[SlotOf(produced - 1)] # "unset"
             /\ Fate(Len(issued), status[SlotOf(produced - 1)])'
             /\ active /\ qActive => completed >= produced
             /\ waitFor' = waitFor
  <2>1. /\ issued # <<>> /\ produced > 0 /\ waitFor.target = produced
        /\ ring[SlotOf(produced - 1)].batch = Len(issued)
        /\ status[SlotOf(produced - 1)] # "unset"
        /\ Fate(Len(issued), status[SlotOf(produced - 1)])
        /\ active /\ qActive => completed >= produced
        /\ waitFor' = waitFor
    BY <1>1 DEF AnswerInv
  <2>2. ASSUME NEW b, b = Len(issued), NEW o, o = status[SlotOf(produced - 1)]
        PROVE  Fate(b, o)'
    <3>1. b \in DOMAIN issued
      BY <2>1, <2>2, IssuedNumbers
    <3>2. b \in Batches /\ Fate(b, o)
      BY <2>1, <2>2, <3>1, IssuedNumbers
    <3>3. QED
      BY <3>1, <3>2, FateKeeps DEF FateKept
  <2>3. Len(issued') = Len(issued) /\ status'[SlotOf(produced' - 1)] = status[SlotOf(produced - 1)]
    OBVIOUS
  <2>4. QED
    BY <2>1, <2>2, <2>3 DEF Fate, SlotOf
<1>2. OfQueue(Len(issued))' <=> OfQueue(Len(issued))
  BY DEF OfQueue
<1>3. QED
  BY <1>1, <1>2 DEF AnswerInv, SlotOf

(* The steps that move the control: a wait that reached its entry finds it completed. *)
LEMMA WaitAnswers ==
  ASSUME PageInv, AnswerInv, FateInv, Waiting, waitFor.use = "entry", Current,
         Holds(waitFor.which, waitFor.target)
  PROVE  /\ issued # <<>> /\ produced > 0 /\ waitFor.target = produced
         /\ ring[SlotOf(produced - 1)].batch = Len(issued)
         /\ status[SlotOf(produced - 1)] # "unset"
         /\ Fate(Len(issued), status[SlotOf(produced - 1)])
         /\ completed >= produced
<1>1. active /\ qActive /\ pgCompleted = completed
  BY DEF Current, PageInv, JoinInv, DeviceInv
<1>2. waitFor.target = produced /\ waitFor.which = "completed" /\ completed >= produced
  BY <1>1 DEF PageInv, WindowInv, Holds, Counter
<1>3. /\ reaped < produced /\ issued # <<>>
      /\ OfQueue(Len(issued)) /\ issued[Len(issued)].index = produced - 1
  BY <1>1 DEF AnswerInv
<1>4. /\ reaped \in Nat /\ completed \in Nat /\ produced \in Nat /\ Len(issued) \in DOMAIN issued
  BY <1>3, PageNumbers, IssuedNumbers
<1>5. produced > 0 /\ produced - 1 \in reaped..completed - 1 /\ produced - 1 >= reaped
  BY <1>2, <1>3, <1>4
<1>6. status[SlotOf(produced - 1)] # "unset"
  BY <1>1, <1>5 DEF PageInv, StatusInv
<1>7. Fate(Len(issued), status[SlotOf(produced - 1)])
  BY <1>1, <1>3, <1>4, <1>5 DEF FateInv
<1>8. SlotHolds(Len(issued))
  BY <1>1, <1>3, <1>4, <1>5 DEF PageInv, IntactInv
<1>9. ring[SlotOf(produced - 1)].batch = Len(issued)
  BY <1>3, <1>8 DEF SlotHolds
<1>10. QED
  BY <1>2, <1>3, <1>5, <1>6, <1>7, <1>9

LEMMA StaysHolds ==
  ASSUME PageInv, OutcomeInv, StaysStep, UNCHANGED <<engineVars, deviceVars>>
  PROVE  OutcomeInv'
<1>1. Moves
  BY StaysTypes
<1>2. /\ UNCHANGED <<generation, status, ring, active, qGeneration, produced, reaped, issued, settled>>
      /\ UNCHANGED <<qActive, completed>> /\ pc' # "reaping"
  BY <1>1 DEF Moves, Counting, queueVars, deviceVars
<1>0. UNCHANGED <<active, qGeneration, produced, reaped, issued, status, ring, qActive, completed>>
  BY <1>2
<1>3. halted' = halted
  BY DEF StaysStep, Request, Ensure, ReadGeneration, Admit, Report, BufferBegin, Claim, ClaimBuffer,
     WaitLook, WaitArm, WaitRecheck, Wake, Watchdog, Waited, Ring, Answer, Disarm, PageUntouched, wireVars
<1>4. EngineInv' /\ FinishInv' /\ FateKept
  BY <1>2, <1>3, DriverStays DEF OutcomeInv
<1>5. FateInv'
  BY <1>2, <1>3, <1>4, FateFrame DEF OutcomeInv
<1>6. AnswerInv'
  <2>1. CASE pc' \in {"idle", "ensure", "register", "stores", "admit", "report", "buffer", "claim", "claimBuffer", "fill"}
    BY <2>1 DEF AnswerInv, Waiting, Reaping
  <2>2. CASE pc' = "reap" /\ reapFor' # "waited"
    BY <2>2 DEF AnswerInv, Waiting, Reaping
  <2>3. CASE ~Current \/ ~Holds(waitFor.which, waitFor.target) \/ waitFor.use # "entry"
             \/ ~(WaitLook \/ Watchdog)
    <3>1. CASE Request \/ Ensure \/ ReadGeneration \/ Admit \/ Report \/ BufferBegin
      BY <2>1, <2>2, <3>1 DEF Request, Ensure, ReadGeneration, Admit, Report, BufferBegin, Return, Leave,
         PageInv, TypeOK, DriverTypeOK
    <3>2. CASE Claim \/ ClaimBuffer
      <4>1. pc' = "idle" \/ pc' \in {"claimBuffer", "fill"} \/ (Waiting' /\ waitFor'.use # "entry")
        BY <3>2 DEF Claim, ClaimBuffer, Leave, Return, WaitOn, Waiting
      <4>2. QED
        BY <4>1, <2>1 DEF AnswerInv, Waiting, Reaping
    <3>3. CASE Ring
      <4>1. pc = "ring" /\ (pc' = "idle" \/ pc' = "wait")
        BY <3>3 DEF Ring, Return, WaitOn, At
      <4>2. ~(Reaping' \/ pc' \in {"waited", "answer"})
        BY <4>1 DEF Reaping
      <4>3. QED
        BY <1>0, <1>3, <1>4, <4>1, <4>2, AnswerFrame DEF OutcomeInv
    <3>4. CASE WaitArm \/ WaitRecheck \/ Wake
      <4>1. Waiting /\ Waiting' /\ waitFor' = waitFor
        BY <3>4 DEF WaitArm, WaitRecheck, Wake, Disarm, Waiting, At, localVars
      <4>2. ~(Reaping' \/ pc' \in {"waited", "answer"})
        BY <4>1 DEF Waiting, Reaping
      <4>3. active /\ (pc' = "ring" \/ (Waiting' /\ waitFor'.use = "entry")) =>
              pc = "ring" \/ (Waiting /\ waitFor.use = "entry")
        BY <4>1 DEF Waiting
      <4>4. AnswerInv
        BY DEF OutcomeInv
      <4>5. QED
        BY <1>0, <1>3, <1>4, <4>2, <4>3, <4>4, AnswerFrame
    <3>5. CASE Waited
      <4>1. pc = "waited"
        BY <3>5 DEF Waited, At
      <4>2. \/ pc' = "idle"
            \/ pc' \in {"claimBuffer", "answer"} /\ UNCHANGED <<waitFor, waited>>
        BY <3>5 DEF Waited, Leave, Return, localVars
      <4>3. CASE pc' = "idle"
        BY <2>1, <4>3
      <4>4. CASE pc' \in {"claimBuffer", "answer"} /\ UNCHANGED <<waitFor, waited>>
        <5>1. ~Waiting' /\ pc' # "ring" /\ (Reached("entry")' => Reached("entry"))
          BY <4>4 DEF Waiting, Reached
        <5>2. QED
          BY <1>0, <1>3, <1>4, <4>1, <4>4, <5>1, AnswerFrame DEF OutcomeInv
      <4>5. QED
        BY <4>2, <4>3, <4>4
    <3>6. CASE Answer
      BY <2>1, <3>6 DEF Answer, Leave, Return
    <3>7. CASE WaitLook \/ Watchdog
      <4>1. /\ Waiting /\ waitFor' = waitFor
            /\ \/ pc' = "arm" \/ pc' = "fill"
               \/ pc' = "reap" /\ (waited' = "reached" => Current /\ Holds(waitFor.which, waitFor.target))
        BY <3>7 DEF WaitLook, Watchdog, WaitResult, TimedOut, Waiting, At
      <4>2. CASE pc' = "arm"
        <5>1. Waiting' /\ ~(Reaping' \/ pc' \in {"waited", "answer"})
          BY <4>2 DEF Waiting, Reaping
        <5>2. QED
          BY <1>0, <1>3, <1>4, <4>1, <5>1, AnswerFrame DEF OutcomeInv
      <4>3. CASE pc' = "reap"
        <5>1. ~Reached("entry")'
          BY <2>3, <3>7, <4>1, <4>3 DEF Reached
        <5>2. ~Waiting' /\ pc' # "ring"
          BY <4>3 DEF Waiting
        <5>3. QED
          BY <5>1, <5>2 DEF AnswerInv
      <4>4. QED
        BY <2>1, <4>1, <4>2, <4>3
    <3>8. QED
      BY <3>1, <3>2, <3>3, <3>4, <3>5, <3>6, <3>7 DEF StaysStep
  <2>4. CASE /\ Current /\ Holds(waitFor.which, waitFor.target) /\ waitFor.use = "entry"
             /\ (WaitLook \/ Watchdog)
    <3>1. Waiting /\ pc' = "reap" /\ waitFor' = waitFor
      BY <2>4 DEF WaitLook, Watchdog, WaitResult, TimedOut, Waiting, At
    <3>2. /\ issued # <<>> /\ produced > 0 /\ waitFor.target = produced
          /\ ring[SlotOf(produced - 1)].batch = Len(issued)
          /\ status[SlotOf(produced - 1)] # "unset"
          /\ Fate(Len(issued), status[SlotOf(produced - 1)])
          /\ completed >= produced
      BY <2>4, <3>1, WaitAnswers DEF OutcomeInv
    <3>3. ASSUME NEW b, b = Len(issued), NEW o, o = status[SlotOf(produced - 1)]
          PROVE  Fate(b, o)'
      <4>1. b \in DOMAIN issued
        BY <3>2, <3>3, IssuedNumbers
      <4>2. b \in Batches /\ Fate(b, o)
        BY <3>2, <3>3, <4>1, IssuedNumbers
      <4>3. QED
        BY <1>2, <1>3, <1>4, <4>1, <4>2, FateKeeps DEF FateKept
    <3>4. Len(issued') = Len(issued) /\ status'[SlotOf(produced' - 1)] = status[SlotOf(produced - 1)]
      BY <1>2
    <3>5. Fate(Len(issued), status[SlotOf(produced - 1)])'
      BY <3>3, <3>4 DEF Fate, SlotOf
    <3>6. pc' # "ring" /\ ~Waiting'
      BY <3>1 DEF Waiting
    <3>7. QED
      BY <1>2, <3>1, <3>2, <3>5, <3>6 DEF AnswerInv, SlotOf
  <2>5. QED
    BY <2>3, <2>4
<1>7. QED
  BY <1>4, <1>5, <1>6 DEF OutcomeInv

(* Recording the outcome of the oldest unreaped entry. *)
LEMMA RecordFates ==
  ASSUME PageInv, FateInv, FateKept, active, reaped < produced, ~halted, halted' = halted,
         NEW outcome, Record(owners[SlotOf(reaped)], outcome),
         \A b \in DOMAIN issued : OfQueue(b) /\ issued[b].index = reaped => Fate(b, outcome),
         pc' = "reaping" => pc = "reaping" /\ upTo' = upTo,
         UNCHANGED <<active, qGeneration, issued, qActive, completed, status>>
  PROVE  FateInv'
<1>1. reaped \in Nat /\ produced \in Nat /\ reaped \in reaped..produced - 1
      /\ completed \in Nat /\ upTo \in Nat
  BY PageNumbers
<1>2. PICK b \in DOMAIN issued :
        OfQueue(b) /\ issued[b].index = reaped /\ SlotHolds(b) /\ b \in Batches
  BY <1>1, HeldBatch
<1>3. settled' = [settled EXCEPT ![b] = outcome] /\ reaped' = reaped + 1
  BY <1>2 DEF Record, SlotHolds
<1>4. settled \in [Batches -> Status]
  BY DEF PageInv, TypeOK, DriverTypeOK
<1>5. ASSUME NEW a \in DOMAIN issued, NEW o, Fate(a, o)
      PROVE  Fate(a, o)'
  BY <1>5, FateKeeps, IssuedNumbers DEF FateKept
<1>6. ASSUME NEW a \in Batches, NEW o, o = settled'[a], o # "unset"
      PROVE  /\ a \in DOMAIN issued /\ Fate(a, o)'
             /\ o = "failed" /\ issued[a].coherent => ~Executed(a)'
             /\ OfQueue(a) => issued[a].index < reaped + 1
  <2>1. CASE a = b
    <3>1. o = outcome /\ Fate(b, o) /\ Fate(b, o)'
      BY <1>2, <1>3, <1>4, <1>5, <1>6, <2>1
    <3>2. o = "failed" /\ issued[b].coherent => ~Executed(b)'
      BY <1>2, <3>1 DEF Fate, FateKept, Settles
    <3>3. issued[b].index < reaped + 1
      BY <1>1, <1>2
    <3>4. QED
      BY <2>1, <3>1, <3>2, <3>3
  <2>2. CASE a # b
    <3>1. o = settled[a]
      BY <1>3, <1>4, <1>6, <2>2
    <3>2. /\ a \in DOMAIN issued /\ Fate(a, o)
          /\ o = "failed" /\ issued[a].coherent => ~Executed(a)
          /\ OfQueue(a) => issued[a].index < reaped
      BY <1>6, <3>1 DEF FateInv
    <3>3. o = "failed" /\ issued[a].coherent => ~Executed(a)'
      BY <3>2 DEF Fate, FateKept, Settles
    <3>4. OfQueue(a) => issued[a].index < reaped + 1
      BY <1>1, <3>2, IssuedNumbers
    <3>5. QED
      BY <1>5, <3>2, <3>3, <3>4
  <2>3. QED
    BY <2>1, <2>2
<1>7. \A a \in Batches : settled'[a] # "unset" =>
        /\ a \in DOMAIN issued' /\ Fate(a, settled[a])'
        /\ settled'[a] = "failed" /\ issued'[a].coherent => ~Executed(a)'
        /\ active' /\ OfQueue(a)' => issued'[a].index < reaped'
  BY <1>3, <1>6 DEF OfQueue, Fate
<1>8. ASSUME NEW a \in DOMAIN issued, OfQueue(a), NEW o, o = status[SlotOf(issued[a].index)],
             \/ qActive /\ issued[a].index \in reaped + 1..completed - 1
             \/ pc = "reaping" /\ issued[a].index \in reaped + 1..upTo - 1
      PROVE  Fate(a, o)'
  <2>1. \/ qActive /\ issued[a].index \in reaped..completed - 1
        \/ pc = "reaping" /\ issued[a].index \in reaped..upTo - 1
    BY <1>1, <1>8
  <2>2. Fate(a, o)
    BY <1>8, <2>1 DEF FateInv
  <2>3. QED
    BY <1>5, <2>2
<1>9. /\ active' /\ qActive' => \A a \in DOMAIN issued' :
           OfQueue(a)' /\ issued'[a].index \in reaped'..completed' - 1
           => Fate(a, status[SlotOf(issued[a].index)])'
      /\ pc' = "reaping" => \A a \in DOMAIN issued' :
           OfQueue(a)' /\ issued'[a].index \in reaped'..upTo' - 1
           => Fate(a, status[SlotOf(issued[a].index)])'
  BY <1>3, <1>8 DEF OfQueue, Fate, SlotOf
<1>10. QED
  BY <1>7, <1>9 DEF FateInv

LEMMA ReapHolds ==
  ASSUME PageInv, OutcomeInv, ReapBegin \/ ReapOne \/ LoseOne, UNCHANGED <<engineVars, deviceVars>>
  PROVE  OutcomeInv'
<1>1. /\ UNCHANGED <<generation, status, ring, halted, qGeneration, produced, issued, waitFor, waited, reapFor>>
      /\ UNCHANGED <<qActive, completed>> /\ ~halted
  BY DEF ReapBegin, ReapOne, LoseOne, PageUntouched, pageVars, wireVars, deviceVars, queueVars, localVars, At
<1>2. EngineInv' /\ FinishInv' /\ FateKept
  BY <1>1, DriverStays DEF OutcomeInv
<1>3. reaped \in Nat /\ completed \in Nat /\ produced \in Nat /\ upTo \in Nat
  BY PageNumbers
<1>4. AnswerInv'
  <2>1. pc \in {"reap", "reaping", "lose"} /\ (active' => active)
    BY DEF ReapBegin, ReapOne, LoseOne, queueVars, At
  <2>2. pc' \in {"reap", "reaping", "lose", "admit", "register", "report", "claim", "waited"}
        /\ (pc' = "waited" => reapFor = "waited")
    BY <2>1 DEF ReapBegin, ReapOne, LoseOne, PageInv, TypeOK, DriverTypeOK
  <2>3. AnswerInv
    BY DEF OutcomeInv
  <2>4. ~(pc' = "ring" \/ Waiting')
    BY <2>2 DEF Waiting
  <2>5. Reached("entry")' /\ (Reaping' \/ pc' \in {"waited", "answer"}) => Reached("entry") /\ Reaping
    BY <1>1, <2>1, <2>2 DEF Reached, Reaping
  <2>6. ASSUME Reached("entry")', Reaping' \/ pc' \in {"waited", "answer"}
        PROVE  /\ issued # <<>> /\ produced > 0 /\ waitFor.target = produced
               /\ ring[SlotOf(produced - 1)].batch = Len(issued)
               /\ status[SlotOf(produced - 1)] # "unset"
               /\ Fate(Len(issued), status[SlotOf(produced - 1)])'
               /\ active /\ qActive => completed >= produced
    <3>1. /\ issued # <<>> /\ produced > 0 /\ waitFor.target = produced
          /\ ring[SlotOf(produced - 1)].batch = Len(issued)
          /\ status[SlotOf(produced - 1)] # "unset"
          /\ Fate(Len(issued), status[SlotOf(produced - 1)])
          /\ active /\ qActive => completed >= produced
      BY <2>3, <2>5, <2>6 DEF AnswerInv
    <3>2. ASSUME NEW b, b = Len(issued), NEW o, o = status[SlotOf(produced - 1)]
          PROVE  Fate(b, o)'
      <4>1. b \in DOMAIN issued
        BY <3>1, <3>2, IssuedNumbers
      <4>2. b \in Batches /\ Fate(b, o)
        BY <3>1, <3>2, <4>1, IssuedNumbers
      <4>3. QED
        BY <1>1, <1>2, <4>1, <4>2, FateKeeps DEF FateKept
    <3>3. Len(issued') = Len(issued) /\ status'[SlotOf(produced' - 1)] = status[SlotOf(produced - 1)]
      BY <1>1
    <3>4. QED
      BY <3>1, <3>2, <3>3 DEF Fate, SlotOf
  <2>7. QED
    BY <1>1, <2>1, <2>4, <2>6 DEF AnswerInv, SlotOf
<1>5. CASE ReapBegin
  <2>1. UNCHANGED <<active, reaped, settled>>
    BY <1>5 DEF ReapBegin, queueVars
  <2>2. CASE pc' # "reaping"
    <3>1. FateInv'
      BY <1>1, <1>2, <2>1, <2>2, FateFrame DEF OutcomeInv
    <3>2. QED
      BY <1>2, <1>4, <3>1 DEF OutcomeInv
  <2>3. CASE pc' = "reaping"
    <3>1. Current
      BY <1>5, <2>3 DEF ReapBegin, PageInv, TypeOK, DriverTypeOK
    <3>2. active /\ qActive /\ pgCompleted = completed /\ reaped <= completed /\ reaped <= produced
          /\ completed <= produced
      <4>1. active /\ qActive
        BY <3>1 DEF Current, PageInv, JoinInv
      <4>2. /\ pgCompleted = completed /\ reaped <= completed /\ reaped <= produced /\ pgProduced = produced
            /\ consumed = completed + Len(entries) + InHand /\ consumed <= pgProduced
        BY <4>1 DEF PageInv, JoinInv, DeviceInv, WindowInv
      <4>3. QED
        BY <4>1, <4>2, PageNumbers, SMTT(30)
    <3>3. upTo' = completed
      <4>1. completed - reaped \in 0..produced - reaped
        BY <1>3, <3>2
      <4>2. QED
        BY <1>5, <3>1, <3>2, <4>1 DEF ReapBegin, CompletedWord
    <3>4. ASSUME NEW b \in Batches, NEW o, o = settled[b], o # "unset"
          PROVE  /\ b \in DOMAIN issued /\ Fate(b, o)'
                 /\ o = "failed" /\ issued[b].coherent => ~Executed(b)'
                 /\ OfQueue(b) => issued[b].index < reaped
      <4>1. /\ b \in DOMAIN issued /\ Fate(b, o)
            /\ o = "failed" /\ issued[b].coherent => ~Executed(b)
            /\ OfQueue(b) => issued[b].index < reaped
        BY <3>2, <3>4 DEF FateInv, OutcomeInv
      <4>2. o = "failed" /\ issued[b].coherent => ~Executed(b)'
        BY <1>2, <4>1 DEF Fate, FateKept, Settles
      <4>3. Fate(b, o)'
        BY <1>1, <1>2, <4>1, FateKeeps DEF FateKept
      <4>4. QED
        BY <4>1, <4>2, <4>3
    <3>5. \A b \in Batches : settled'[b] # "unset" =>
            /\ b \in DOMAIN issued' /\ Fate(b, settled[b])'
            /\ settled'[b] = "failed" /\ issued'[b].coherent => ~Executed(b)'
            /\ active' /\ OfQueue(b)' => issued'[b].index < reaped'
      BY <1>1, <2>1, <3>4 DEF OfQueue, Fate
    <3>6. ASSUME NEW b \in DOMAIN issued, OfQueue(b), NEW o, o = status[SlotOf(issued[b].index)],
                 issued[b].index \in reaped..completed - 1
          PROVE  Fate(b, o)'
      <4>1. Fate(b, o)
        BY <3>2, <3>6 DEF FateInv, OutcomeInv
      <4>2. QED
        BY <1>1, <1>2, <4>1, IssuedNumbers, FateKeeps DEF FateKept
    <3>7. /\ active' /\ qActive' => \A b \in DOMAIN issued' :
               OfQueue(b)' /\ issued'[b].index \in reaped'..completed' - 1
               => Fate(b, status[SlotOf(issued[b].index)])'
          /\ pc' = "reaping" => \A b \in DOMAIN issued' :
               OfQueue(b)' /\ issued'[b].index \in reaped'..upTo' - 1
               => Fate(b, status[SlotOf(issued[b].index)])'
      BY <1>1, <2>1, <3>3, <3>6 DEF OfQueue, Fate, SlotOf
    <3>8. FateInv'
      BY <3>5, <3>7 DEF FateInv
    <3>9. QED
      BY <1>2, <1>4, <3>8 DEF OutcomeInv
  <2>4. QED
    BY <2>2, <2>3
<1>6. CASE ReapOne
  <2>1. pc = "reaping" /\ active /\ reaped <= upTo /\ upTo <= produced /\ active' = active
    BY <1>6 DEF ReapOne, At, PageInv, JoinInv, WindowInv
  <2>2. CASE reaped = upTo
    <3>1. pc' # "reaping" /\ UNCHANGED <<reaped, settled>>
      BY <1>6, <2>2 DEF ReapOne, PageInv, TypeOK, DriverTypeOK
    <3>2. FateInv'
      BY <1>1, <1>2, <2>1, <3>1, FateFrame DEF OutcomeInv
    <3>3. QED
      BY <1>2, <1>4, <3>2 DEF OutcomeInv
  <2>3. CASE reaped # upTo
    <3>1. Record(owners[SlotOf(reaped)], status[SlotOf(reaped)]) /\ UNCHANGED <<pc, upTo>>
      BY <1>6, <2>3 DEF ReapOne
    <3>2. reaped < produced /\ reaped \in reaped..upTo - 1
      BY <1>3, <2>1, <2>3
    <3>3. FateInv'
      <4> DEFINE outcome == status[SlotOf(reaped)]
      <4>1. \A b \in DOMAIN issued : OfQueue(b) /\ issued[b].index = reaped => Fate(b, outcome)
        BY <2>1, <3>2 DEF FateInv, OutcomeInv
      <4>2. Record(owners[SlotOf(reaped)], outcome)
        BY <3>1
      <4> HIDE DEF outcome
      <4>3. QED
        BY <1>1, <1>2, <2>1, <3>1, <3>2, <4>1, <4>2, RecordFates DEF OutcomeInv
    <3>4. QED
      BY <1>2, <1>4, <3>3 DEF OutcomeInv
  <2>4. QED
    BY <2>2, <2>3
<1>7. CASE LoseOne
  <2>1. pc = "lose" /\ active /\ reaped <= produced
    BY <1>7 DEF LoseOne, At, PageInv, JoinInv, WindowInv
  <2>2. CASE reaped = produced
    <3>1. pc' # "reaping" /\ UNCHANGED <<reaped, settled>>
      BY <1>7, <2>2 DEF LoseOne, PageInv, TypeOK, DriverTypeOK
    <3>2. FateInv'
      BY <1>1, <1>2, <2>1, <3>1, FateFrame DEF OutcomeInv
    <3>3. QED
      BY <1>2, <1>4, <3>2 DEF OutcomeInv
  <2>3. CASE reaped # produced
    <3>1. Record(owners[SlotOf(reaped)], "generation") /\ UNCHANGED <<active, pc>> /\ reaped < produced
      BY <1>3, <1>7, <2>1, <2>3 DEF LoseOne
    <3>2. \A b \in DOMAIN issued : OfQueue(b) /\ issued[b].index = reaped => Fate(b, "generation")
      BY DEF Fate
    <3>3. FateInv'
      BY <1>1, <1>2, <2>1, <3>1, <3>2, RecordFates DEF OutcomeInv
    <3>4. QED
      BY <1>2, <1>4, <3>3 DEF OutcomeInv
  <2>4. QED
    BY <2>2, <2>3
<1>8. QED
  BY <1>5, <1>6, <1>7

(* Enabling the queue: no batch of its generation was published before. *)
LEMMA EnableHolds ==
  ASSUME PageInv, OutcomeInv, EnableStores \/ Enabled(qActive), UNCHANGED <<engineVars, deviceVars>>
  PROVE  OutcomeInv'
<1>1. /\ UNCHANGED <<generation, status, halted, issued, settled, qActive, completed>> /\ ~active
      /\ pc' \in {"control", "admit", "buffer"}
  BY DEF EnableStores, Enabled, PageUntouched, pageVars, wireVars, deviceVars, At, PageInv, JoinInv,
     TypeOK, DriverTypeOK
<1>2. EngineInv' /\ FinishInv' /\ FateKept
  BY <1>1, DriverStays DEF OutcomeInv
<1>3. AnswerInv'
  BY <1>1 DEF AnswerInv, Waiting, Reaping
<1>4. ASSUME active'
      PROVE  qGeneration' = generation /\ \A b \in DOMAIN issued : ~(issued[b].live /\ issued[b].queue = generation)
  <2>1. Enabled(qActive)
    BY <1>1, <1>4 DEF EnableStores, queueVars
  <2>2. qActive /\ upTo = generation /\ qGeneration' = upTo
    BY <1>1, <1>4, <2>1 DEF Enabled, queueVars, PageInv, JoinInv
  <2>3. QED
    BY <1>1, <2>2 DEF PageInv, IssuedInv
<1>5. ASSUME NEW b \in Batches, NEW o, o = settled[b], o # "unset"
      PROVE  /\ b \in DOMAIN issued /\ Fate(b, o)'
             /\ o = "failed" /\ issued[b].coherent => ~Executed(b)'
  <2>1. /\ b \in DOMAIN issued /\ Fate(b, o)
        /\ o = "failed" /\ issued[b].coherent => ~Executed(b)
    BY <1>5 DEF FateInv, OutcomeInv
  <2>2. o = "failed" /\ issued[b].coherent => ~Executed(b)'
    BY <1>2, <2>1 DEF Fate, FateKept, Settles
  <2>3. Fate(b, o)'
    BY <1>1, <1>2, <2>1, FateKeeps DEF FateKept
  <2>4. QED
    BY <2>1, <2>2, <2>3
<1>6. active' => \A b \in DOMAIN issued' : ~OfQueue(b)'
  BY <1>1, <1>4 DEF OfQueue
<1>7. \A b \in Batches : settled'[b] # "unset" =>
        /\ b \in DOMAIN issued' /\ Fate(b, settled[b])'
        /\ settled'[b] = "failed" /\ issued'[b].coherent => ~Executed(b)'
        /\ active' /\ OfQueue(b)' => issued'[b].index < reaped'
  BY <1>1, <1>5, <1>6 DEF Fate
<1>8. FateInv'
  BY <1>1, <1>6, <1>7 DEF FateInv
<1>9. QED
  BY <1>2, <1>3, <1>8 DEF OutcomeInv

LEMMA ControlHolds ==
  ASSUME PageInv, OutcomeInv, ControlStep
  PROVE  OutcomeInv'
<1>1. /\ UNCHANGED <<engineVars, entries, dpc, credit, finishing, status, generation, halted>>
      /\ UNCHANGED <<active, qGeneration, reaped, issued, settled>>
      /\ pc = "control" /\ pc' = "enabled" /\ dpc = "idle"
  BY DEF ControlStep, WriteControl, wireVars, queueVars, At
<1>2. ~active /\ ~qActive /\ finishing = {} /\ entries = <<>>
  BY <1>1 DEF PageInv, JoinInv, DeviceInv
<1>3. \A b \in DOMAIN issued : ~(issued[b].live /\ issued[b].queue = generation)
  BY <1>2 DEF PageInv, IssuedInv
<1>4. UNCHANGED <<pending, running, done, reset, ticket, packets, history>>
  BY <1>1 DEF engineVars
<1>5. GenerationInv' /\ HistoryInv' /\ LineInv' /\ OwnInv' /\ TakenInv' /\ YoungInv' /\ FateKept
  <2>1. GenerationInv'
    BY <1>1, <1>4 DEF OutcomeInv, EngineInv, GenerationInv, Ours, Entries
  <2>2. HistoryInv'
    BY <1>1, <1>4 DEF OutcomeInv, EngineInv, HistoryInv, Seen, InFlight, Executed, Entries
  <2>3. LineInv'
    BY <1>1, <1>4 DEF OutcomeInv, EngineInv, LineInv, Ours, Entries, Ahead
  <2>4. OwnInv'
    BY <1>1, <1>4 DEF OutcomeInv, EngineInv, OwnInv, Held, Ours, Entries
  <2>5. TakenInv'
    BY <1>1, <1>2 DEF TakenInv
  <2>6. YoungInv'
    BY <1>1, <1>3 DEF YoungInv
  <2>7. FateKept
    BY <1>4 DEF FateKept, Settles, InFlight, Executed, Succeeded, Entries
  <2>8. QED
    BY <2>1, <2>2, <2>3, <2>4, <2>5, <2>6, <2>7
<1>6. FinishInv'
  BY <1>1, <1>2 DEF FinishInv
<1>7. AnswerInv'
  BY <1>1 DEF AnswerInv, Waiting, Reaping
<1>8. ASSUME NEW b \in Batches, NEW o, o = settled[b], o # "unset"
      PROVE  /\ b \in DOMAIN issued /\ Fate(b, o)'
             /\ o = "failed" /\ issued[b].coherent => ~Executed(b)'
  <2>1. /\ b \in DOMAIN issued /\ Fate(b, o)
        /\ o = "failed" /\ issued[b].coherent => ~Executed(b)
    BY <1>8 DEF FateInv, OutcomeInv
  <2>2. o = "failed" /\ issued[b].coherent => ~Executed(b)'
    BY <1>5, <2>1 DEF Fate, FateKept, Settles
  <2>3. Fate(b, o)'
    BY <1>1, <1>5, <2>1, FateKeeps DEF FateKept
  <2>4. QED
    BY <2>1, <2>2, <2>3
<1>9. FateInv'
  BY <1>1, <1>2, <1>8 DEF FateInv, Fate
<1>10. QED
  BY <1>5, <1>6, <1>7, <1>9 DEF OutcomeInv, EngineInv

LEMMA InterruptHolds ==
  ASSUME PageInv, OutcomeInv, InterruptStep \/ UNCHANGED vars
  PROVE  OutcomeInv'
<1>1. /\ UNCHANGED <<engineVars, deviceVars, generation, halted, issued, status, ring>>
      /\ UNCHANGED <<active, qGeneration, produced, reaped, settled, pc, reapFor, upTo, waitFor, waited>>
  BY DEF InterruptStep, Interrupt, vars, pageVars, wireVars, driverVars, queueVars, localVars
<1>2. EngineInv' /\ FinishInv' /\ FateKept
  BY <1>1, DriverStays DEF OutcomeInv
<1>3. qActive' = qActive /\ completed' = completed
  BY <1>1 DEF deviceVars
<1>4. \A b, o : b \in Batches /\ Fate(b, o) => Fate(b, o)'
  BY <1>1, <1>2, FateKeeps DEF FateKept
<1>5. FateInv' /\ AnswerInv'
  <2>1. FateInv'
    <3>1. ASSUME NEW b \in Batches, NEW o, o = settled[b], o # "unset"
          PROVE  /\ b \in DOMAIN issued /\ Fate(b, o)'
                 /\ o = "failed" /\ issued[b].coherent => ~Executed(b)'
                 /\ active /\ OfQueue(b) => issued[b].index < reaped
      <4>1. /\ b \in DOMAIN issued /\ Fate(b, o)
            /\ o = "failed" /\ issued[b].coherent => ~Executed(b)
            /\ active /\ OfQueue(b) => issued[b].index < reaped
        BY <3>1 DEF FateInv, OutcomeInv
      <4>2. o = "failed" /\ issued[b].coherent => ~Executed(b)'
        BY <1>2, <4>1 DEF Fate, FateKept, Settles
      <4>3. QED
        BY <1>4, <4>1, <4>2
    <3>2. ASSUME NEW b \in DOMAIN issued, OfQueue(b), NEW o, o = status[SlotOf(issued[b].index)],
                 \/ active /\ qActive /\ issued[b].index \in reaped..completed - 1
                 \/ pc = "reaping" /\ issued[b].index \in reaped..upTo - 1
          PROVE  Fate(b, o)'
      <4>1. Fate(b, o)
        BY <3>2 DEF FateInv, OutcomeInv
      <4>2. QED
        BY <1>4, <4>1, IssuedNumbers
    <3>3. \A b \in Batches : settled'[b] # "unset" =>
            /\ b \in DOMAIN issued' /\ Fate(b, settled[b])'
            /\ settled'[b] = "failed" /\ issued'[b].coherent => ~Executed(b)'
            /\ active' /\ OfQueue(b)' => issued'[b].index < reaped'
      BY <1>1, <3>1 DEF OfQueue, Fate
    <3>4. /\ active' /\ qActive' => \A b \in DOMAIN issued' :
               OfQueue(b)' /\ issued'[b].index \in reaped'..completed' - 1
               => Fate(b, status[SlotOf(issued[b].index)])'
          /\ pc' = "reaping" => \A b \in DOMAIN issued' :
               OfQueue(b)' /\ issued'[b].index \in reaped'..upTo' - 1
               => Fate(b, status[SlotOf(issued[b].index)])'
      BY <1>1, <1>3, <3>2 DEF OfQueue, Fate, SlotOf
    <3>5. QED
      BY <3>3, <3>4 DEF FateInv
  <2>2. AnswerInv'
    <3>1. UNCHANGED <<qGeneration, produced, issued, status, ring, completed>> /\ active' = active
          /\ qActive' = qActive /\ waitFor' = waitFor /\ reaped' = reaped /\ halted' = halted
      BY <1>1, <1>3
    <3>2. Waiting' = Waiting /\ Reaping' = Reaping /\ Reached("entry")' = Reached("entry") /\ pc' = pc
      BY <1>1 DEF Waiting, Reaping, Reached
    <3>3. AnswerInv
      BY DEF OutcomeInv
    <3>4. QED
      BY <1>2, <3>1, <3>2, <3>3, AnswerFrame
  <2>3. QED
    BY <2>1, <2>2
<1>6. QED
  BY <1>2, <1>5 DEF OutcomeInv

LEMMA PublishHolds ==
  ASSUME PageInv, OutcomeInv, Publish, UNCHANGED <<engineVars, deviceVars>>
  PROVE  OutcomeInv'
<1>1. /\ UNCHANGED <<generation, status, halted, issued, settled, active, qGeneration, reaped, waitFor>>
      /\ pc = "publish" /\ pc' = "ring" /\ produced' = produced + 1
  BY DEF Publish, wireVars, localVars, At
<1>2. EngineInv' /\ FinishInv' /\ FateKept
  BY <1>1, DriverStays DEF OutcomeInv
<1>3. qActive' = qActive /\ completed' = completed
  BY DEF deviceVars
<1>4. FateInv'
  BY <1>1, <1>2, <1>3, FateFrame DEF OutcomeInv
<1>5. AnswerInv'
  <2>1. ASSUME active
        PROVE  /\ reaped < produced + 1 /\ issued # <<>>
               /\ OfQueue(Len(issued)) /\ issued[Len(issued)].index = (produced + 1) - 1
    <3>1. /\ issued # <<>> /\ OfQueue(Len(issued)) /\ issued[Len(issued)].index = produced
          /\ reaped <= produced
      BY <1>1, <2>1 DEF PageInv, IssuedInv, WindowInv
    <3>2. reaped \in Nat /\ produced \in Nat
      BY PageNumbers
    <3>3. QED
      BY <3>1, <3>2
  <2>2. ~Reaping' /\ pc' \notin {"waited", "answer"}
    BY <1>1 DEF Reaping
  <2>3. QED
    BY <1>1, <2>1, <2>2 DEF AnswerInv, OfQueue
<1>6. QED
  BY <1>2, <1>4, <1>5 DEF OutcomeInv

(* A batch is written to a free slot: everything the engine has seen is older. *)
LEMMA FillHolds ==
  ASSUME PageInv, OutcomeInv, Fill, UNCHANGED <<engineVars, deviceVars>>
  PROVE  OutcomeInv'
<1>1. /\ UNCHANGED <<generation, halted, active, qGeneration, produced, reaped, settled>>
      /\ pc = "fill" /\ pc' \in {"publish", "idle"}
  BY DEF Fill, Leave, Return, wireVars, queueVars, At
<1>2. /\ UNCHANGED <<qActive, consumed, completed, dpc, entries, finishing, credit>>
      /\ UNCHANGED <<pending, running, done, reset, ticket, packets, history>>
  BY DEF deviceVars, engineVars
<1>3. AnswerInv'
  BY <1>1 DEF AnswerInv, Waiting, Reaping
<1>4. CASE UNCHANGED <<issued, status>>
  <2>1. EngineInv' /\ FinishInv' /\ FateKept
    BY <1>1, <1>4, DriverStays DEF OutcomeInv
  <2>2. FateInv'
    BY <1>1, <1>2, <1>4, <2>1, FateFrame DEF OutcomeInv
  <2>3. QED
    BY <1>3, <2>1, <2>2 DEF OutcomeInv
<1>5. CASE ~UNCHANGED <<issued, status>>
  <2>1. /\ status' = [status EXCEPT ![SlotOf(produced)] = "unset"]
        /\ issued' = Append(issued, [dom |-> call.dom, async |-> call.async,
                       coherent |-> call.coherent, queue |-> qGeneration, live |-> active,
                       index |-> produced])
    BY <1>5 DEF Fill
  <2> DEFINE n == Len(issued) + 1
  <2>2. /\ Len(issued) \in Nat /\ DOMAIN issued = 1..Len(issued) /\ DOMAIN issued' = DOMAIN issued \cup {n}
        /\ \A b \in DOMAIN issued : issued'[b] = issued[b] /\ b \in Batches /\ b \in Nat /\ b < n
                                    /\ issued[b].index \in Nat
        /\ issued'[n].live = active /\ issued'[n].queue = qGeneration /\ issued'[n].index = produced
    BY <2>1, IssuedNumbers DEF PageInv, TypeOK, DriverTypeOK
  <2> HIDE DEF n
  <2>3. /\ reaped \in Nat /\ completed \in Nat /\ produced \in Nat /\ consumed \in Nat /\ generation \in Nat
        /\ pgProduced \in Nat /\ Len(entries) \in Nat /\ InHand \in {0, 1}
    BY PageNumbers
  <2>4. active /\ qActive => completed <= produced /\ consumed <= produced /\ reaped <= completed
    BY <2>3 DEF PageInv, DeviceInv, JoinInv, WindowInv
  <2>5. qActive => active /\ qGeneration = generation
    BY <1>1 DEF PageInv, JoinInv
  <2>6. ASSUME active, NEW i \in reaped..produced - 1
        PROVE  status'[SlotOf(i)] = status[SlotOf(i)]
    <3>1. SlotOf(i) # SlotOf(produced) /\ i \in Nat
      BY <1>1, <2>3, <2>6, FreePlaces
    <3>2. SlotOf(i) \in Slots /\ status \in [Slots -> Status]
      BY <3>1, SlotType DEF PageInv, TypeOK, PageTypeOK
    <3>3. QED
      BY <2>1, <3>1, <3>2
  <2>7. \A b : (InFlight(b)' <=> InFlight(b)) /\ (Executed(b)' <=> Executed(b))
               /\ (Succeeded(b)' <=> Succeeded(b)) /\ (Seen(b)' <=> Seen(b))
    BY <1>2 DEF InFlight, Executed, Succeeded, Seen, Entries
  <2>8. FateKept
    BY <2>7 DEF FateKept, Settles
  <2>9. Held' = Held
    BY <1>1, <1>2 DEF Held, Ours, Entries
  <2>10. GenerationInv' /\ HistoryInv' /\ LineInv' /\ OwnInv'
    <3>1. GenerationInv'
      BY <1>1, <1>2 DEF OutcomeInv, EngineInv, GenerationInv, Ours, Entries
    <3>2. HistoryInv'
      BY <1>2, <2>2, <2>7 DEF OutcomeInv, EngineInv, HistoryInv, Entries
    <3>3. LineInv'
      BY <1>1, <1>2 DEF OutcomeInv, EngineInv, LineInv, Ours, Entries, Ahead
    <3>4. OwnInv'
      BY <1>2, <2>9 DEF OutcomeInv, EngineInv, OwnInv, Entries
    <3>5. QED
      BY <3>1, <3>2, <3>3, <3>4
  <2>11. TakenInv'
    <3> SUFFICES ASSUME NEW k \in DOMAIN entries, NEW e, NEW i, e = entries[k],
                        i = completed + InHand + k - 1
                 PROVE  TakenAs(e, i)'
      BY <1>2 DEF TakenInv, InHand
    <3>1. TakenAs(e, i)
      BY DEF OutcomeInv, EngineInv, TakenInv
    <3>2. issued'[e.batch] = issued[e.batch] /\ e.batch \in DOMAIN issued'
      BY <2>2, <3>1 DEF TakenAs, EntryIs
    <3>3. QED
      BY <1>1, <2>7, <2>9, <3>1, <3>2 DEF TakenAs, EntryIs
  <2>12. YoungInv'
    <3> SUFFICES ASSUME qActive, NEW b \in DOMAIN issued', issued'[b].live, issued'[b].queue = generation,
                        issued'[b].index >= consumed, NEW x \in Batches, Seen(x)
                 PROVE  x < b
      BY <1>1, <1>2, <2>7 DEF YoungInv
    <3>1. x \in DOMAIN issued
      BY DEF OutcomeInv, EngineInv, HistoryInv
    <3>2. CASE b = n
      BY <2>2, <3>1, <3>2
    <3>3. CASE b \in DOMAIN issued
      BY <2>2, <3>3 DEF OutcomeInv, EngineInv, YoungInv
    <3>4. QED
      BY <2>2, <3>2, <3>3
  <2>13. FinishInv'
    <3> SUFFICES ASSUME NEW f \in finishing
                 PROVE  /\ EntryIs(f.entry.batch, completed)' /\ Fate(f.entry.batch, f.error)'
                        /\ dpc = "count" => status'[SlotOf(completed)] = f.error
      BY <1>2 DEF FinishInv, SlotOf
    <3>1. /\ EntryIs(f.entry.batch, completed) /\ Fate(f.entry.batch, f.error)
          /\ dpc = "count" => status[SlotOf(completed)] = f.error
      BY DEF OutcomeInv, FinishInv
    <3>2. f.entry.batch \in DOMAIN issued
      BY <3>1 DEF EntryIs
    <3>3. EntryIs(f.entry.batch, completed)'
      BY <1>1, <1>2, <2>2, <3>1, <3>2 DEF EntryIs
    <3>4. Fate(f.entry.batch, f.error)'
      BY <1>1, <2>2, <2>8, <3>1, <3>2, FateKeeps DEF FateKept
    <3>5. completed \in reaped..produced - 1 /\ active
      <4>1. qActive /\ InHand = 1
        BY DEF PageInv, DeviceInv, InHand
      <4>2. consumed = completed + Len(entries) + 1 /\ active
        BY <2>5, <4>1 DEF PageInv, DeviceInv
      <4>3. QED
        BY <2>3, <2>4, <4>1, <4>2
    <3>6. status'[SlotOf(completed)] = status[SlotOf(completed)]
      BY <2>6, <3>5
    <3>7. QED
      BY <3>1, <3>3, <3>4, <3>6
  <2>14. FateInv'
    <3>1. ASSUME NEW b \in Batches, NEW o, o = settled[b], o # "unset"
          PROVE  /\ b \in DOMAIN issued /\ Fate(b, o)'
                 /\ o = "failed" /\ issued[b].coherent => ~Executed(b)'
                 /\ active /\ OfQueue(b) => issued[b].index < reaped
      <4>1. /\ b \in DOMAIN issued /\ Fate(b, o)
            /\ o = "failed" /\ issued[b].coherent => ~Executed(b)
            /\ active /\ OfQueue(b) => issued[b].index < reaped
        BY <3>1 DEF FateInv, OutcomeInv
      <4>2. Fate(b, o)'
        BY <1>1, <2>2, <2>8, <4>1, FateKeeps DEF FateKept
      <4>3. QED
        BY <2>7, <4>1, <4>2
    <3>2. \A b \in Batches : settled'[b] # "unset" =>
            /\ b \in DOMAIN issued' /\ Fate(b, settled[b])'
            /\ settled'[b] = "failed" /\ issued'[b].coherent => ~Executed(b)'
            /\ active' /\ OfQueue(b)' => issued'[b].index < reaped'
      BY <1>1, <2>2, <3>1 DEF OfQueue, Fate
    <3>3. ASSUME active, qActive, NEW b \in DOMAIN issued', NEW o, NEW i, issued'[b].live,
                 issued'[b].queue = qGeneration, i = issued'[b].index, i \in reaped..completed - 1,
                 o = status'[SlotOf(i)]
          PROVE  Fate(b, o)'
      <4>1. b # n
        BY <2>2, <2>3, <2>4, <3>3
      <4>2. b \in DOMAIN issued /\ OfQueue(b) /\ issued[b].index = i /\ o = status[SlotOf(i)]
        <5>1. b \in DOMAIN issued /\ OfQueue(b) /\ issued[b].index = i
          BY <2>2, <3>3, <4>1 DEF OfQueue
        <5>2. i \in reaped..produced - 1
          BY <2>3, <2>4, <3>3
        <5>3. QED
          BY <2>6, <3>3, <5>1, <5>2
      <4>3. Fate(b, o)
        BY <3>3, <4>2 DEF FateInv, OutcomeInv
      <4>4. QED
        BY <1>1, <2>2, <2>8, <4>2, <4>3, FateKeeps DEF FateKept
    <3>4. active' /\ qActive' => \A b \in DOMAIN issued' :
            OfQueue(b)' /\ issued'[b].index \in reaped'..completed' - 1
            => Fate(b, status[SlotOf(issued[b].index)])'
      BY <1>1, <1>2, <3>3 DEF OfQueue, Fate, SlotOf
    <3>5. pc' # "reaping"
      BY <1>1
    <3>6. QED
      BY <3>2, <3>4, <3>5 DEF FateInv
  <2>15. QED
    BY <1>3, <2>10, <2>11, <2>12, <2>13, <2>14 DEF OutcomeInv, EngineInv
<1>6. QED
  BY <1>4, <1>5

-----------------------------------------------------------------------------
(* The device.  Unfinished entries are oldest first, and younger than nothing seen. *)
LEMMA EntriesInOrder ==
  ASSUME PageInv, TakenInv
  PROVE  \A i, j \in DOMAIN entries : i < j => entries[i].batch < entries[j].batch
<1> SUFFICES ASSUME NEW i \in DOMAIN entries, NEW j \in DOMAIN entries, i < j
             PROVE  entries[i].batch < entries[j].batch
  OBVIOUS
<1> DEFINE a == entries[i].batch
           b == entries[j].batch
<1>1. EntryIs(a, completed + InHand + i - 1) /\ EntryIs(b, completed + InHand + j - 1)
  BY DEF TakenInv, TakenAs
<1> HIDE DEF a, b
<1>2. /\ completed \in Nat /\ InHand \in Nat /\ i \in Nat /\ j \in Nat
      /\ a \in DOMAIN issued /\ b \in DOMAIN issued /\ a \in Nat /\ b \in Nat
  <2>1. i \in Nat /\ j \in Nat
    BY DEF PageInv, TypeOK, DeviceTypeOK
  <2>2. completed \in Nat /\ InHand \in Nat
    BY PageNumbers, SMTT(30)
  <2>3. a \in DOMAIN issued /\ b \in DOMAIN issued
    BY <1>1 DEF EntryIs
  <2>4. a \in Nat /\ b \in Nat
    BY <2>3, IssuedNumbers
  <2>5. QED
    BY <2>1, <2>2, <2>3, <2>4
<1>3. issued[a].index < issued[b].index
  BY <1>1, <1>2 DEF EntryIs
<1>4. /\ issued[a].live /\ issued[b].live /\ issued[a].queue = issued[b].queue
      /\ issued[a].index \in Nat /\ issued[b].index \in Nat
  BY <1>1, <1>2, IssuedNumbers DEF EntryIs
<1>5. ~(b < a)
  BY <1>2, <1>3, <1>4 DEF PageInv, IssuedInv
<1>6. a # b
  BY <1>3, <1>4
<1>7. QED
  BY <1>2, <1>5, <1>6 DEF a, b

(* A handler that moves on. *)
LEMMA HandlerHolds ==
  ASSUME PageInv, OutcomeInv, UNCHANGED driverVars,
         ConsumeBegin \/ ConsumeEnd \/ CompleteEnd \/ ReadWait \/ CompareWait
  PROVE  OutcomeInv'
<1>1. /\ UNCHANGED <<engineVars, entries, completed, finishing, consumed, generation, status, ring, halted>>
      /\ qActive' => qActive
      /\ dpc' # "count"
  BY DEF ConsumeBegin, ConsumeEnd, CompleteEnd, ReadWait, CompareWait, wireVars, pageVars
<1>2. UNCHANGED issued
  BY DEF driverVars
<1>3. credit' = credit
  <2>1. CASE CompleteEnd
    <3>1. credit' = {} /\ (entries # <<>> => credit = {})
      BY <2>1 DEF CompleteEnd, Drained
    <3>2. ASSUME entries = <<>>, NEW c \in credit PROVE FALSE
      <4>1. c \in Held
        BY DEF OutcomeInv, EngineInv, GenerationInv, Held
      <4>2. PICK e \in Entries(entries) : e.engine
        BY <4>1 DEF OutcomeInv, EngineInv, OwnInv
      <4>3. QED
        BY <3>2, <4>2 DEF Entries
    <3>3. QED
      BY <3>1, <3>2
  <2>2. CASE ~CompleteEnd
    BY <2>2 DEF ConsumeBegin, ConsumeEnd, ReadWait, CompareWait
  <2>3. QED
    BY <2>1, <2>2
<1>4. EngineInv' /\ FateKept
  BY <1>1, <1>2, <1>3, EngineStays DEF OutcomeInv
<1>5. FinishInv'
  BY <1>1, <1>2, <1>4, FinishStays DEF OutcomeInv
<1>6. FateInv' /\ AnswerInv'
  BY <1>1, <1>4, FateStays DEF OutcomeInv, FateKept
<1>7. QED
  BY <1>4, <1>5, <1>6 DEF OutcomeInv

(* Polling a completion: a wanted one is the queue's, any other is not. *)
LEMMA CompleteBeginHolds ==
  ASSUME PageInv, OutcomeInv, UNCHANGED driverVars, CompleteBegin
  PROVE  OutcomeInv'
<1>1. /\ UNCHANGED <<pending, running, reset, ticket, packets, history>> /\ done # <<>> /\ done' = Tail(done)
      /\ UNCHANGED <<qActive, consumed, completed, entries, finishing, generation, status, ring, halted>>
      /\ dpc = "idle" /\ dpc' # "count"
  BY DEF CompleteBegin, Poll, pageVars, wireVars
<1>2. UNCHANGED issued
  BY DEF driverVars
<1>3. credit = {}
  BY <1>1 DEF PageInv, DeviceInv
<1> DEFINE h == Head(done)
<1>4. /\ Entries(done) = {h} \cup Entries(done')
      /\ \A a, b : Ahead(done', a, b) => Ahead(done, a, b)
      /\ \A b \in Entries(done') : Ahead(done, h, b)
  BY <1>1, TailEntries DEF PageInv, TypeOK, EngineTypeOK
<1>5. credit' = (IF Wanted(h) THEN {h} ELSE {})
  BY <1>3 DEF CompleteBegin
<1> HIDE DEF h
<1>6. /\ Entries(done)' = Entries(done') /\ Entries(pending)' = Entries(pending)
      /\ Entries(history)' = Entries(history) /\ \A x : Ours(x)' <=> Ours(x)
  BY <1>1 DEF Entries, Ours
<1>7. Wanted(h) <=> Ours(h)
  <2>1. h \in Entries(history) /\ (h.batch = 0 <=> h.reset)
    BY <1>4 DEF OutcomeInv, EngineInv, HistoryInv
  <2>2. ASSUME Ours(h), entries = <<>> PROVE FALSE
    <3>1. h \in Held
      BY <1>4, <2>2 DEF Held
    <3>2. PICK e \in Entries(entries) : e.engine
      BY <3>1 DEF OutcomeInv, EngineInv, OwnInv
    <3>3. QED
      BY <2>2, <3>2 DEF Entries
  <2>3. QED
    BY <2>1, <2>2 DEF Wanted, Ours
<1>8. Held' = Held
  <2>1. Held = {x \in {h} \cup Entries(done') \cup running \cup Entries(pending) : Ours(x)}
    BY <1>3, <1>4 DEF Held
  <2>2. Held' = {x \in credit' \cup Entries(done') \cup running \cup Entries(pending) : Ours(x)}
    BY <1>1, <1>6 DEF Held
  <2>3. QED
    BY <1>5, <1>7, <2>1, <2>2
<1>9. \A b : (InFlight(b)' <=> InFlight(b)) /\ (Executed(b)' <=> Executed(b))
             /\ (Succeeded(b)' <=> Succeeded(b)) /\ (Seen(b)' <=> Seen(b))
  BY <1>1, <1>6 DEF InFlight, Executed, Succeeded, Seen
<1>10. HeldKept /\ SeenKept /\ FateKept
  BY <1>8, <1>9 DEF HeldKept, SeenKept, FateKept, Settles
<1>11. GenerationInv'
  BY <1>1, <1>4, <1>5, <1>6, <1>7 DEF OutcomeInv, EngineInv, GenerationInv
<1>12. HistoryInv'
  <2>1. credit' \cup Entries(done)' \subseteq Entries(history)'
    BY <1>4, <1>5, <1>6 DEF OutcomeInv, EngineInv, HistoryInv
  <2>2. QED
    BY <1>2, <1>6, <1>9, <2>1 DEF OutcomeInv, EngineInv, HistoryInv
<1>13. LineInv'
  <2> USE DEF OutcomeInv, EngineInv
  <2>1. \A x, y \in Entries(pending)' : Ahead(pending', x, y) => x.batch < y.batch
    BY <1>1, <1>6 DEF LineInv
  <2>2. \A x, y \in Entries(done)' : Ahead(done', x, y) /\ Ours(x)' => Ours(y)' /\ x.batch < y.batch
    BY <1>4, <1>6 DEF LineInv
  <2>3. \A c \in credit', x \in Entries(done)' \cup running' \cup Entries(pending)' :
          Ours(x)' => c.batch < x.batch
    <3> SUFFICES ASSUME Ours(h), NEW x \in Entries(done') \cup running \cup Entries(pending), Ours(x)
                 PROVE  h.batch < x.batch
      BY <1>1, <1>5, <1>6, <1>7
    <3>1. CASE x \in Entries(done')
      BY <1>4, <3>1 DEF LineInv
    <3>2. CASE x \in running \cup Entries(pending)
      BY <1>4, <3>2 DEF LineInv
    <3>3. QED
      BY <3>1, <3>2
  <2>4. \A c \in Entries(done)', b \in running' \cup Entries(pending)' : Ours(c)' => c.batch < b.batch
    BY <1>1, <1>4, <1>6 DEF LineInv
  <2>5. \A r \in running', b \in Entries(pending)' : r.batch < b.batch
    BY <1>1, <1>6 DEF LineInv
  <2>6. QED
    BY <2>1, <2>2, <2>3, <2>4, <2>5 DEF LineInv
<1>14. OwnInv' /\ TakenInv' /\ YoungInv'
  BY <1>1, <1>2, <1>10, HeldTransfer DEF OutcomeInv, EngineInv
<1>15. FinishInv'
  BY <1>1, <1>2, <1>10, FinishStays DEF OutcomeInv
<1>16. FateInv' /\ AnswerInv'
  BY <1>1, <1>10, FateStays DEF OutcomeInv, FateKept
<1>17. QED
  BY <1>11, <1>12, <1>13, <1>14, <1>15, <1>16 DEF OutcomeInv, EngineInv

-----------------------------------------------------------------------------
(* The oldest entry leaves the queue with this outcome. *)
LEMMA PopHolds ==
  ASSUME PageInv, OutcomeInv, UNCHANGED driverVars, dpc = "drain", entries # <<>>, NEW error, Pop(error),
         NEW b, b = Head(entries).batch, Fate(b, error)', OwnInv', LineInv', GenerationInv', HistoryInv', FateKept,
         HeldKept \/ Held' \subseteq Held, SeenKept, halted => halted',
         UNCHANGED <<completed, consumed, qActive, generation, status, ring>>
  PROVE  OutcomeInv'
<1>0. UNCHANGED issued
  BY DEF driverVars
<1>a. entries \in Seq(QueueEntry) /\ completed \in Nat /\ finishing = {}
  BY DEF PageInv, DeviceInv, TypeOK, DeviceTypeOK
<1>b. Head(entries) = entries[1]
  BY <1>a
<1>1. /\ entries' = Tail(entries) /\ dpc' = "finish"
      /\ finishing' = {[entry |-> entries[1], error |-> error]}
      /\ finishing = {} /\ InHand = 0 /\ InHand' = 1 /\ b = entries[1].batch
  BY <1>a, <1>b DEF Pop, InHand
<1>2. /\ DOMAIN entries = 1..Len(entries) /\ DOMAIN entries' = 1..Len(entries) - 1
      /\ \A k \in DOMAIN entries' : entries'[k] = entries[k + 1] /\ k + 1 \in DOMAIN entries
      /\ 1 \in DOMAIN entries /\ Len(entries) \in Nat \ {0} /\ completed \in Nat
  BY <1>a, <1>1
<1>3. TakenInv'
  <2> SUFFICES ASSUME NEW k \in DOMAIN entries', NEW e, NEW i, e = entries[k + 1],
                      i = completed + 1 + k - 1
               PROVE  TakenAs(e, i)'
    BY <1>1, <1>2 DEF TakenInv
  <2>1. i = completed + InHand + (k + 1) - 1
    BY <1>1, <1>2
  <2>2. TakenAs(e, i)
    BY <1>2, <2>1 DEF OutcomeInv, EngineInv, TakenInv
  <2>3. CASE HeldKept
    BY <1>0, <2>2, <2>3, TakenKeeps
  <2>4. CASE Held' \subseteq Held
    <3>1. e.batch \in Batches
      BY <2>2, IssuedNumbers DEF TakenAs, EntryIs
    <3>2. ~e.engine => ~Seen(e.batch)'
      BY <2>2, <3>1 DEF TakenAs, SeenKept
    <3>3. EntryIs(e.batch, i)'
      BY <1>0, <2>2 DEF TakenAs, EntryIs
    <3>4. QED
      BY <1>0, <2>2, <2>4, <3>2, <3>3 DEF TakenAs
  <2>5. QED
    BY <2>3, <2>4
<1>4. YoungInv'
  BY <1>0 DEF OutcomeInv, EngineInv, YoungInv, SeenKept
<1>5. FinishInv'
  <2>1. TakenAs(entries[1], completed + InHand + 1 - 1)
    BY <1>2 DEF OutcomeInv, EngineInv, TakenInv
  <2>2. completed + InHand + 1 - 1 = completed
    BY <1>1, <1>2
  <2>3. EntryIs(b, completed)
    BY <1>1, <2>1, <2>2 DEF TakenAs
  <2>4. EntryIs(b, completed)'
    BY <1>0, <2>3 DEF EntryIs
  <2>5. \A f \in finishing' : f.entry.batch = b /\ f.error = error
    BY <1>1
  <2>6. QED
    BY <1>1, <2>4, <2>5 DEF FinishInv, EntryIs, Fate
<1>6. FateInv' /\ AnswerInv'
  BY FateStays DEF OutcomeInv, FateKept
<1>7. QED
  BY <1>3, <1>4, <1>5, <1>6 DEF OutcomeInv, EngineInv

(* An entry that no engine took is finished with its own error. *)
LEMMA DrainHolds ==
  ASSUME PageInv, OutcomeInv, UNCHANGED driverVars, DrainUnowned
  PROVE  OutcomeInv'
<1>1. /\ UNCHANGED <<engineVars, credit, completed, consumed, qActive, generation, status, ring, halted>>
      /\ dpc = "drain" /\ entries # <<>> /\ ~Head(entries).engine /\ entries' = Tail(entries)
  BY DEF DrainUnowned, Pop, pageVars, wireVars
<1>2. UNCHANGED <<pending, running, done, reset, ticket, packets, history, issued>>
  BY <1>1 DEF engineVars, driverVars
<1> DEFINE h == Head(entries)
<1>3. /\ Entries(entries) = {h} \cup Entries(entries') /\ h = entries[1] /\ 1 \in DOMAIN entries
  BY <1>1, TailEntries DEF PageInv, TypeOK, DeviceTypeOK
<1>4. Pop(h.error) /\ ~h.engine
  BY <1>1 DEF DrainUnowned
<1> HIDE DEF h
<1>5. Held' = Held
  BY <1>1, <1>2 DEF Held, Ours, Entries
<1>6. \A b : (InFlight(b)' <=> InFlight(b)) /\ (Executed(b)' <=> Executed(b))
             /\ (Succeeded(b)' <=> Succeeded(b)) /\ (Seen(b)' <=> Seen(b))
  BY <1>2 DEF InFlight, Executed, Succeeded, Seen, Entries
<1>7. SeenKept /\ FateKept
  BY <1>6 DEF SeenKept, FateKept, Settles
<1>8. OwnInv'
  BY <1>3, <1>4, <1>5 DEF OutcomeInv, EngineInv, OwnInv, Entries
<1>9. GenerationInv' /\ HistoryInv' /\ LineInv'
  <2>1. GenerationInv'
    BY <1>1, <1>2 DEF OutcomeInv, EngineInv, GenerationInv, Ours, Entries
  <2>2. HistoryInv'
    BY <1>1, <1>2, <1>6 DEF OutcomeInv, EngineInv, HistoryInv, Entries
  <2>3. LineInv'
    BY <1>1, <1>2 DEF OutcomeInv, EngineInv, LineInv, Ours, Entries, Ahead
  <2>4. QED
    BY <2>1, <2>2, <2>3
<1>10. TakenAs(h, completed + InHand + 1 - 1)
  BY <1>3 DEF OutcomeInv, EngineInv, TakenInv
<1>11. h.error # "none" /\ ~Seen(h.batch)
  BY <1>4, <1>10 DEF TakenAs
<1>12. ASSUME NEW b, b = h.batch, NEW o, o = h.error
       PROVE  Fate(b, o)'
  BY <1>6, <1>11, <1>12 DEF Fate, Seen, Executed, Succeeded
<1>13. Held' \subseteq Held
  BY <1>5
<1>14. ASSUME NEW b, b = h.batch, NEW o, o = h.error
       PROVE  OutcomeInv'
  <2>1. b = Head(entries).batch /\ Pop(o) /\ Fate(b, o)'
    BY <1>4, <1>12, <1>14 DEF h
  <2>2. QED
    BY <1>1, <1>7, <1>8, <1>9, <1>13, <2>1, PopHolds
<1>15. QED
  BY <1>14

(* The completion that is credited is of the oldest entry, and the oldest of what the
   engine holds. *)
LEMMA CreditedBatch ==
  ASSUME PageInv, OutcomeInv, entries # <<>>, Head(entries).engine, NEW c \in credit
  PROVE  /\ TakenAs(Head(entries), completed + InHand + 1 - 1)
         /\ Head(entries).batch = c.batch /\ c.batch \in DOMAIN issued
         /\ \A x \in Entries(Tail(entries)) : c.batch < x.batch /\ x.batch \in Nat
         /\ c \in Held /\ Ours(c) /\ c.batch \in Nat \ {0}
         /\ \A x \in Held : x = c \/ (c.batch < x.batch /\ x.batch \in Nat)
<1> DEFINE h == Head(entries)
           rest == Tail(entries)
<1>1. credit = {c}
  BY DEF PageInv, DeviceInv, AtMostOne
<1>2. entries \in Seq(QueueEntry)
  BY DEF PageInv, TypeOK, DeviceTypeOK
<1>3. /\ Entries(entries) = {h} \cup Entries(rest) /\ h = entries[1] /\ 1 \in DOMAIN entries
      /\ \A x \in Entries(rest) : Ahead(entries, h, x)
  BY <1>2, TailEntries
<1>4. h.engine
  OBVIOUS
<1> HIDE DEF h, rest
<1> USE DEF OutcomeInv, EngineInv
<1>5. TakenAs(h, completed + InHand + 1 - 1)
  BY <1>3 DEF TakenInv
<1>6. h.batch \in DOMAIN issued /\ h.batch \in Nat /\ h.batch # 0
  <2>1. h.batch \in DOMAIN issued
    BY <1>5 DEF TakenAs, EntryIs
  <2>2. \A b \in Batches : b # 0
    BY EngineConstants DEF EngineConstants, Batches
  <2>3. QED
    BY <2>1, <2>2, IssuedNumbers
<1>7. \A x \in Entries(rest) : h.batch < x.batch /\ x.batch \in Nat
  <2> SUFFICES ASSUME NEW x \in Entries(rest) PROVE h.batch < x.batch /\ x.batch \in Nat
    OBVIOUS
  <2>1. PICK i, j \in DOMAIN entries : i < j /\ entries[i] = h /\ entries[j] = x
    BY <1>3 DEF Ahead
  <2>2. h.batch < x.batch
    BY <2>1, EntriesInOrder
  <2>3. x.batch \in DOMAIN issued
    BY <2>1 DEF TakenInv, TakenAs, EntryIs
  <2>4. QED
    BY <2>2, <2>3, IssuedNumbers
<1>8. /\ c \in Held /\ Ours(c) /\ c.batch \in Nat \ {0}
      /\ \A x \in Held : x = c \/ (c.batch < x.batch /\ x.batch \in Nat)
  <2>1. Ours(c) /\ c \in Held
    BY DEF GenerationInv, Held
  <2>2. ASSUME NEW x \in Held, x # c
        PROVE  c.batch < x.batch /\ x.batch \in Nat
    BY <1>1, <2>2, EngineNumbers DEF Held, LineInv
  <2>3. QED
    BY <2>1, <2>2, EngineNumbers DEF Ours
<1>9. h.batch = c.batch
  <2>1. PICK e \in Entries(entries) : e.engine /\ e.batch = c.batch
    BY <1>8 DEF OwnInv
  <2>2. e = h \/ h.batch < c.batch
    BY <1>3, <1>7, <2>1
  <2>3. PICK x \in Held : x.batch = h.batch
    BY <1>3, <1>4 DEF OwnInv
  <2>4. x = c \/ c.batch < h.batch
    BY <1>8, <2>3
  <2>5. QED
    BY <1>6, <1>8, <2>1, <2>2, <2>3, <2>4
<1>10. QED
  BY <1>5, <1>6, <1>7, <1>8, <1>9 DEF h, rest

(* A completion is credited to the entry it belongs to. *)
LEMMA CreditHolds ==
  ASSUME PageInv, OutcomeInv, UNCHANGED driverVars, CreditOldest
  PROVE  OutcomeInv'
<1> DEFINE h == Head(entries)
<1>1. PICK c \in credit : \E error : 
        /\ halted' = (halted \/ StopsGuest(c, h))
        /\ error = c.error \/ (c.error = "none" /\ h.query /\ error = "failed")
        /\ Pop(error)
  BY DEF CreditOldest
<1>2. /\ UNCHANGED <<engineVars, completed, consumed, qActive, generation, status, ring>>
      /\ dpc = "drain" /\ entries # <<>> /\ h.engine /\ credit' = {} /\ entries' = Tail(entries)
  BY DEF CreditOldest, Pop, pageVars
<1>3. UNCHANGED <<pending, running, done, reset, ticket, packets, history, issued>>
  BY <1>2 DEF engineVars, driverVars
<1>4. credit = {c}
  BY DEF PageInv, DeviceInv, AtMostOne
<1>a. entries \in Seq(QueueEntry) /\ completed \in Nat /\ finishing = {}
  BY <1>2 DEF PageInv, DeviceInv, TypeOK, DeviceTypeOK
<1>5. /\ Entries(entries) = {h} \cup Entries(entries') /\ h = entries[1] /\ 1 \in DOMAIN entries
      /\ DOMAIN entries = 1..Len(entries) /\ Len(entries) \in Nat
      /\ \A x \in Entries(entries') : Ahead(entries, h, x)
  BY <1>2, <1>a, TailEntries
<1>6. TakenAs(h, completed + InHand + 1 - 1)
  BY <1>2, CreditedBatch
<1>7. h.batch \in DOMAIN issued /\ h.batch \in Nat /\ h.batch \in Batches /\ h.batch # 0
  <2>1. h.batch \in DOMAIN issued
    BY <1>6 DEF TakenAs, EntryIs
  <2>2. \A b \in Batches : b # 0
    BY EngineConstants DEF EngineConstants, Batches
  <2>3. QED
    BY <2>1, <2>2, IssuedNumbers
<1>8. /\ \A x \in Entries(entries') : h.batch < x.batch /\ x.batch \in Nat
      /\ h.batch = c.batch
  BY <1>2, CreditedBatch
<1>9. /\ c \in Held /\ Ours(c) /\ c.batch \in Nat /\ c.batch # 0
      /\ \A x \in Held : x = c \/ (c.batch < x.batch /\ x.batch \in Nat)
  BY <1>2, CreditedBatch
<1>10. h.batch = c.batch
  BY <1>8
<1> HIDE DEF h
<1> USE DEF OutcomeInv, EngineInv
<1>11. c \in Entries(history) /\ ~c.reset
  BY <1>9 DEF HistoryInv
<1>12. /\ Executed(h.batch) /\ ~InFlight(h.batch)
       /\ Succeeded(h.batch) <=> c.error = "none"
  <2>1. Executed(h.batch)
    BY <1>10, <1>11 DEF Executed
  <2>2. ~InFlight(h.batch)
    BY <1>7, <2>1 DEF HistoryInv
  <2>3. \A x \in Entries(history) : x.batch = h.batch => x = c
    BY <1>10, <1>11 DEF HistoryInv
  <2>4. QED
    BY <1>10, <1>11, <2>1, <2>2, <2>3 DEF Succeeded
<1>13. \A b : (InFlight(b)' <=> InFlight(b)) /\ (Executed(b)' <=> Executed(b))
              /\ (Succeeded(b)' <=> Succeeded(b)) /\ (Seen(b)' <=> Seen(b))
  BY <1>3 DEF InFlight, Executed, Succeeded, Seen, Entries
<1>14. SeenKept /\ FateKept
  BY <1>13 DEF SeenKept, FateKept, Settles
<1>15. Held' = Held \ {c}
  <2>1. Held' = {x \in Entries(done) \cup running \cup Entries(pending) : Ours(x)}
    BY <1>2, <1>3 DEF Held, Ours, Entries
  <2>2. \A x \in Entries(done) \cup running \cup Entries(pending) : Ours(x) => x # c
    <3>1. \A x \in Entries(done) \cup running \cup Entries(pending) : Ours(x) => c.batch < x.batch
      BY DEF LineInv
    <3>2. QED
      BY <1>9, <3>1
  <2>3. QED
    BY <1>4, <2>1, <2>2 DEF Held
<1>16. OwnInv'
  <2>1. ASSUME NEW e \in Entries(entries'), e.engine
        PROVE  \E x \in Held' : x.batch = e.batch
    <3>1. PICK x \in Held : x.batch = e.batch
      BY <1>5, <2>1 DEF OwnInv
    <3>2. x # c
      BY <1>7, <1>8, <1>10, <3>1
    <3>3. QED
      BY <1>15, <3>1, <3>2
  <2>2. ASSUME NEW x \in Held'
        PROVE  \E e \in Entries(entries') : e.engine /\ e.batch = x.batch
    <3>1. PICK e \in Entries(entries) : e.engine /\ e.batch = x.batch
      BY <1>15 DEF OwnInv
    <3>2. e # h
      BY <1>7, <1>9, <1>10, <1>15, <3>1
    <3>3. QED
      BY <1>5, <3>1, <3>2
  <2>3. Entries(entries)' = Entries(entries')
    BY DEF Entries
  <2>4. QED
    BY <2>1, <2>2, <2>3 DEF OwnInv
<1>17. GenerationInv' /\ HistoryInv' /\ LineInv'
  <2>1. GenerationInv'
    BY <1>2, <1>3 DEF GenerationInv, Ours, Entries
  <2>2. HistoryInv'
    <3>1. Entries(history)' = Entries(history) /\ Entries(done)' = Entries(done)
      BY <1>3 DEF Entries
    <3>2. Entries(done) \subseteq Entries(history)
      BY DEF HistoryInv
    <3>3. credit' \cup Entries(done)' \subseteq Entries(history)'
      BY <1>2, <3>1, <3>2
    <3>4. QED
      BY <1>3, <1>13, <3>1, <3>3 DEF HistoryInv
  <2>3. LineInv'
    BY <1>2, <1>3 DEF LineInv, Ours, Entries, Ahead
  <2>4. QED
    BY <2>1, <2>2, <2>3
<1>18. ASSUME NEW b, b = h.batch, NEW o, o = c.error \/ (c.error = "none" /\ h.query /\ o = "failed"),
              halted' = (halted \/ StopsGuest(c, h))
       PROVE  Fate(b, o)'
  <2>1. b \in DOMAIN issued /\ issued'[b] = issued[b]
    BY <1>3, <1>7, <1>18
  <2>2. o = "none" => Succeeded(b)
    BY <1>12, <1>18
  <2>3. o \in {"failed", "skipped"} /\ issued[b].async => ~Succeeded(b)
    BY <1>6, <1>12, <1>18 DEF TakenAs
  <2>4. o = "failed" /\ issued[b].coherent => halted'
    <3> SUFFICES ASSUME o = "failed", issued[b].coherent, ~halted' PROVE FALSE
      OBVIOUS
    <3>1. o = c.error
      BY <1>6, <1>18 DEF TakenAs
    <3>2. ~h.coherent
      BY <1>18, <3>1 DEF StopsGuest
    <3>3. h.error \in {"skipped", "generation"}
      BY <1>6, <1>18, <3>2 DEF TakenAs
    <3>4. c.error = h.error
      BY <1>2, <1>6, <1>9, <1>10, <3>3 DEF TakenAs
    <3>5. QED
      BY <3>1, <3>3, <3>4
  <2>5. QED
    BY <1>12, <1>13, <1>18, <2>1, <2>2, <2>3, <2>4 DEF Fate
<1>19. PICK error : 
        /\ halted' = (halted \/ StopsGuest(c, h))
        /\ error = c.error \/ (c.error = "none" /\ h.query /\ error = "failed")
        /\ Pop(error)
  BY <1>1
<1>20. ASSUME NEW b, b = h.batch PROVE OutcomeInv'
  <2>1. Fate(b, error)'
    BY <1>18, <1>19, <1>20
  <2>2. b = Head(entries).batch
    BY <1>20 DEF h
  <2>3. (halted => halted') /\ Held' \subseteq Held
    BY <1>15, <1>19
  <2>4. OutcomeInv
    OBVIOUS
  <2> HIDE DEF OutcomeInv, EngineInv
  <2>5. QED
    BY <1>2, <1>14, <1>16, <1>17, <1>19, <2>1, <2>2, <2>3, <2>4, PopHolds
<1>21. QED
  BY <1>20

-----------------------------------------------------------------------------
(* Finishing an entry: its outcome is written to its slot, which no unreaped entry
   shares, and then counted. *)
LEMMA FinishStatusHolds ==
  ASSUME PageInv, OutcomeInv, UNCHANGED driverVars, FinishStatus
  PROVE  OutcomeInv'
<1>1. /\ UNCHANGED <<engineVars, credit, entries, qActive, completed, consumed, finishing, generation, halted, ring>>
      /\ dpc = "finish" /\ dpc' = "count"
  BY DEF FinishStatus, wireVars
<1>2. PICK f \in finishing : status' = [status EXCEPT ![f.entry.slot] = f.error]
  BY DEF FinishStatus
<1>3. finishing = {f}
  BY DEF PageInv, DeviceInv, AtMostOne
<1>4. UNCHANGED <<active, qGeneration, produced, reaped, issued, settled, pc, reapFor, upTo, waitFor, waited>>
  BY DEF driverVars, queueVars, localVars
<1>5. /\ completed \in Nat /\ produced \in Nat /\ reaped \in Nat /\ consumed \in Nat /\ pgProduced \in Nat
      /\ upTo \in Nat /\ Len(entries) \in Nat /\ Depth \in Nat
  BY PageNumbers
<1>6. qActive /\ completed < pgProduced
  <2>1. qActive /\ InHand = 1
    BY <1>1 DEF PageInv, DeviceInv, InHand
  <2>2. consumed = completed + Len(entries) + 1 /\ consumed <= pgProduced
    BY <2>1 DEF PageInv, DeviceInv
  <2>3. QED
    BY <1>5, <2>1, <2>2
<1>7. active /\ pgProduced = produced /\ reaped <= completed /\ produced - reaped <= Depth
      /\ (pc = "reaping" => upTo <= completed)
  <2>1. active /\ pgProduced = produced /\ reaped <= completed
    BY <1>6, Serving
  <2>2. QED
    BY <1>6, <2>1 DEF PageInv, WindowInv
<1>8. status \in [Slots -> Status] /\ f.entry.slot = SlotOf(completed) /\ SlotOf(completed) \in Slots
  BY <1>5, SlotType DEF PageInv, TypeOK, PageTypeOK, StatusInv
<1>9. status'[SlotOf(completed)] = f.error
  BY <1>2, <1>8
<1>10. ASSUME NEW i \in reaped..completed - 1
       PROVE  status'[SlotOf(i)] = status[SlotOf(i)]
  <2>1. SlotOf(i) # SlotOf(completed)
    <3>1. i \in Nat /\ i < completed /\ completed - i < Depth
      BY <1>5, <1>6, <1>7
    <3>2. QED
      BY <1>5, <3>1, SlotDiffers
  <2>2. QED
    BY <1>2, <1>8, <2>1
<1>11. EngineInv' /\ FateKept
  BY <1>1, <1>4, EngineStays DEF OutcomeInv
<1>12. FinishInv'
  <2>1. EntryIs(f.entry.batch, completed) /\ Fate(f.entry.batch, f.error)
    BY DEF OutcomeInv, FinishInv
  <2>2. f.entry.batch \in Batches
    BY <2>1, IssuedNumbers DEF EntryIs
  <2>3. ASSUME NEW b, b = f.entry.batch, NEW o, o = f.error
        PROVE  EntryIs(b, completed)' /\ Fate(b, o)'
    <3>1. EntryIs(b, completed)'
      BY <1>1, <1>4, <2>1, <2>3 DEF EntryIs
    <3>2. Fate(b, o) /\ b \in Batches
      BY <2>1, <2>2, <2>3
    <3>3. QED
      BY <1>1, <1>4, <1>11, <3>1, <3>2, FateKeeps DEF FateKept
  <2>4. QED
    BY <1>1, <1>3, <1>9, <2>3 DEF FinishInv, EntryIs, Fate, SlotOf
<1>13. ASSUME NEW b \in DOMAIN issued, NEW o, Fate(b, o)
       PROVE  Fate(b, o)'
  BY <1>1, <1>4, <1>11, <1>13, IssuedNumbers, FateKeeps DEF FateKept
<1>14. FateInv'
  <2>1. ASSUME NEW b \in Batches, NEW o, o = settled[b], o # "unset"
        PROVE  /\ b \in DOMAIN issued /\ Fate(b, o)'
               /\ o = "failed" /\ issued[b].coherent => ~Executed(b)'
               /\ active /\ OfQueue(b) => issued[b].index < reaped
    <3>1. /\ b \in DOMAIN issued /\ Fate(b, o)
          /\ o = "failed" /\ issued[b].coherent => ~Executed(b)
          /\ active /\ OfQueue(b) => issued[b].index < reaped
      BY <2>1 DEF FateInv, OutcomeInv
    <3>2. o = "failed" /\ issued[b].coherent => ~Executed(b)'
      BY <1>11, <3>1 DEF Fate, FateKept, Settles
    <3>3. QED
      BY <1>13, <3>1, <3>2
  <2>2. ASSUME NEW b \in DOMAIN issued, OfQueue(b), NEW o, o = status'[SlotOf(issued[b].index)],
               \/ issued[b].index \in reaped..completed - 1
               \/ pc = "reaping" /\ issued[b].index \in reaped..upTo - 1
        PROVE  Fate(b, o)'
    <3>1. issued[b].index \in reaped..completed - 1
      BY <1>5, <1>7, <2>2
    <3>2. o = status[SlotOf(issued[b].index)]
      BY <1>10, <2>2, <3>1
    <3>3. Fate(b, o)
      BY <1>6, <1>7, <3>1, <3>2, <2>2 DEF FateInv, OutcomeInv
    <3>4. QED
      BY <1>13, <3>3
  <2>3. \A b \in Batches : settled'[b] # "unset" =>
          /\ b \in DOMAIN issued' /\ Fate(b, settled[b])'
          /\ settled'[b] = "failed" /\ issued'[b].coherent => ~Executed(b)'
          /\ active' /\ OfQueue(b)' => issued'[b].index < reaped'
    BY <1>4, <2>1 DEF OfQueue, Fate
  <2>4. /\ active' /\ qActive' => \A b \in DOMAIN issued' :
             OfQueue(b)' /\ issued'[b].index \in reaped'..completed' - 1
             => Fate(b, status[SlotOf(issued[b].index)])'
        /\ pc' = "reaping" => \A b \in DOMAIN issued' :
             OfQueue(b)' /\ issued'[b].index \in reaped'..upTo' - 1
             => Fate(b, status[SlotOf(issued[b].index)])'
    BY <1>1, <1>4, <2>2 DEF OfQueue, Fate, SlotOf
  <2>5. QED
    BY <2>3, <2>4 DEF FateInv
<1>15. AnswerInv'
  <2>1. ~(Reached("entry") /\ (Reaping \/ pc \in {"waited", "answer"}))
    <3> SUFFICES ASSUME Reached("entry"), Reaping \/ pc \in {"waited", "answer"} PROVE FALSE
      OBVIOUS
    <3>1. completed >= produced
      BY <1>6, <1>7 DEF OutcomeInv, AnswerInv
    <3>2. QED
      BY <1>5, <1>6, <1>7, <3>1
  <2>2. /\ (Reached("entry")' <=> Reached("entry")) /\ (Reaping' <=> Reaping) /\ (Waiting' <=> Waiting)
        /\ OfQueue(Len(issued))' <=> OfQueue(Len(issued))
    BY <1>4 DEF Reached, Reaping, Waiting, OfQueue
  <2>3. QED
    BY <1>4, <2>1, <2>2 DEF OutcomeInv, AnswerInv
<1>16. QED
  BY <1>11, <1>12, <1>14, <1>15 DEF OutcomeInv

LEMMA FinishCountHolds ==
  ASSUME PageInv, OutcomeInv, UNCHANGED driverVars, FinishCount
  PROVE  OutcomeInv'
<1>1. /\ UNCHANGED <<engineVars, credit, entries, qActive, consumed, generation, halted, ring, status>>
      /\ completed' = completed + 1 /\ finishing' = {} /\ dpc = "count" /\ dpc' # "count"
  BY DEF FinishCount, wireVars
<1>2. UNCHANGED <<active, qGeneration, produced, reaped, issued, settled, pc, reapFor, upTo, waitFor, waited>>
  BY DEF driverVars, queueVars, localVars
<1>3. UNCHANGED <<pending, running, done, reset, ticket, packets, history>>
  BY <1>1 DEF engineVars
<1>4. qActive /\ finishing # {} /\ InHand = 1 /\ InHand' = 0
  BY <1>1 DEF PageInv, DeviceInv, InHand
<1>5. completed \in Nat /\ reaped \in Nat /\ produced \in Nat
  BY PageNumbers
<1>6. \A b : (InFlight(b)' <=> InFlight(b)) /\ (Executed(b)' <=> Executed(b))
             /\ (Succeeded(b)' <=> Succeeded(b)) /\ (Seen(b)' <=> Seen(b))
  BY <1>3 DEF InFlight, Executed, Succeeded, Seen, Entries
<1>7. Held' = Held
  BY <1>1, <1>3 DEF Held, Ours, Entries
<1>8. GenerationInv' /\ HistoryInv' /\ LineInv' /\ OwnInv'
  <2> USE DEF OutcomeInv, EngineInv
  <2>1. GenerationInv'
    BY <1>1, <1>3 DEF GenerationInv, Ours, Entries
  <2>2. HistoryInv'
    BY <1>1, <1>2, <1>3, <1>6 DEF HistoryInv, Entries
  <2>3. LineInv'
    BY <1>1, <1>3 DEF LineInv, Ours, Entries, Ahead
  <2>4. OwnInv'
    BY <1>1, <1>7 DEF OwnInv, Entries
  <2>5. QED
    BY <2>1, <2>2, <2>3, <2>4
<1>9. TakenInv'
  <2> SUFFICES ASSUME NEW k \in DOMAIN entries, NEW e, NEW i, e = entries[k], i = (completed + 1) + 0 + k - 1
               PROVE  TakenAs(e, i)'
    BY <1>1, <1>4 DEF TakenInv
  <2>1. i = completed + InHand + k - 1
    BY <1>4, <1>5 DEF PageInv, TypeOK, DeviceTypeOK
  <2>2. TakenAs(e, i)
    BY <2>1 DEF OutcomeInv, EngineInv, TakenInv
  <2>3. QED
    BY <1>1, <1>2, <1>6, <1>7, <2>2 DEF TakenAs, EntryIs
<1>10. YoungInv'
  BY <1>1, <1>2, <1>6 DEF OutcomeInv, EngineInv, YoungInv
<1>11. FinishInv'
  BY <1>1 DEF FinishInv
<1>12. FateKept
  BY <1>6 DEF FateKept, Settles
<1>13. ASSUME NEW b \in DOMAIN issued, NEW o, Fate(b, o)
       PROVE  Fate(b, o)'
  BY <1>1, <1>2, <1>12, <1>13, IssuedNumbers, FateKeeps DEF FateKept
<1>14. FateInv'
  <2>1. ASSUME NEW b \in Batches, NEW o, o = settled[b], o # "unset"
        PROVE  /\ b \in DOMAIN issued /\ Fate(b, o)'
               /\ o = "failed" /\ issued[b].coherent => ~Executed(b)'
               /\ active /\ OfQueue(b) => issued[b].index < reaped
    <3>1. /\ b \in DOMAIN issued /\ Fate(b, o)
          /\ o = "failed" /\ issued[b].coherent => ~Executed(b)
          /\ active /\ OfQueue(b) => issued[b].index < reaped
      BY <2>1 DEF FateInv, OutcomeInv
    <3>2. QED
      BY <1>6, <1>13, <3>1
  <2>2. ASSUME active, NEW b \in DOMAIN issued, OfQueue(b), NEW o, o = status[SlotOf(issued[b].index)],
               \/ issued[b].index \in reaped..(completed + 1) - 1
               \/ pc = "reaping" /\ issued[b].index \in reaped..upTo - 1
        PROVE  Fate(b, o)'
    <3>1. CASE issued[b].index = completed
      <4>1. PICK f \in finishing : TRUE
        BY <1>4
      <4>2. /\ EntryIs(f.entry.batch, completed) /\ Fate(f.entry.batch, f.error)
            /\ status[SlotOf(completed)] = f.error
        BY <1>1 DEF OutcomeInv, FinishInv
      <4>3. generation = qGeneration
        BY <1>4, <2>2 DEF PageInv, JoinInv
      <4>4. f.entry.batch = b
        BY <2>2, <3>1, <4>2, <4>3, OneIndex DEF EntryIs, OfQueue
      <4>5. Fate(b, o)
        BY <2>2, <3>1, <4>2, <4>4
      <4>6. QED
        BY <1>13, <4>5
    <3>2. CASE issued[b].index # completed
      <4>1. \/ issued[b].index \in reaped..completed - 1
            \/ pc = "reaping" /\ issued[b].index \in reaped..upTo - 1
        BY <1>5, <2>2, <3>2
      <4>2. Fate(b, o)
        BY <1>4, <2>2, <4>1 DEF FateInv, OutcomeInv
      <4>3. QED
        BY <1>13, <4>2
    <3>3. QED
      BY <3>1, <3>2
  <2>3. \A b \in Batches : settled'[b] # "unset" =>
          /\ b \in DOMAIN issued' /\ Fate(b, settled[b])'
          /\ settled'[b] = "failed" /\ issued'[b].coherent => ~Executed(b)'
          /\ active' /\ OfQueue(b)' => issued'[b].index < reaped'
    BY <1>2, <2>1 DEF OfQueue, Fate
  <2>4. pc = "reaping" => active
    BY DEF PageInv, JoinInv
  <2>5. /\ active' /\ qActive' => \A b \in DOMAIN issued' :
             OfQueue(b)' /\ issued'[b].index \in reaped'..completed' - 1
             => Fate(b, status[SlotOf(issued[b].index)])'
        /\ pc' = "reaping" => \A b \in DOMAIN issued' :
             OfQueue(b)' /\ issued'[b].index \in reaped'..upTo' - 1
             => Fate(b, status[SlotOf(issued[b].index)])'
    BY <1>1, <1>2, <2>2, <2>4 DEF OfQueue, Fate, SlotOf
  <2>6. QED
    BY <2>3, <2>5 DEF FateInv
<1>15. AnswerInv'
  <2>1. ASSUME Reached("entry"), Reaping \/ pc \in {"waited", "answer"}
        PROVE  /\ issued # <<>> /\ produced > 0 /\ waitFor.target = produced
               /\ ring[SlotOf(produced - 1)].batch = Len(issued)
               /\ status[SlotOf(produced - 1)] # "unset"
               /\ Fate(Len(issued), status[SlotOf(produced - 1)])'
               /\ active /\ qActive => completed + 1 >= produced
    <3>1. /\ issued # <<>> /\ produced > 0 /\ waitFor.target = produced
          /\ ring[SlotOf(produced - 1)].batch = Len(issued)
          /\ status[SlotOf(produced - 1)] # "unset"
          /\ Fate(Len(issued), status[SlotOf(produced - 1)])
          /\ active /\ qActive => completed >= produced
      BY <2>1 DEF OutcomeInv, AnswerInv
    <3>2. ASSUME NEW b, b = Len(issued), NEW o, o = status[SlotOf(produced - 1)]
          PROVE  Fate(b, o)'
      <4>1. b \in DOMAIN issued /\ Fate(b, o)
        BY <3>1, <3>2, IssuedNumbers
      <4>2. QED
        BY <1>13, <4>1
    <3>3. Len(issued') = Len(issued) /\ status'[SlotOf(produced' - 1)] = status[SlotOf(produced - 1)]
      BY <1>1, <1>2
    <3>4. active /\ qActive => completed + 1 >= produced
      BY <1>5, <3>1
    <3>5. QED
      BY <3>1, <3>2, <3>3, <3>4
  <2>2. /\ (Reached("entry")' <=> Reached("entry")) /\ (Reaping' <=> Reaping) /\ (Waiting' <=> Waiting)
        /\ OfQueue(Len(issued))' <=> OfQueue(Len(issued))
    BY <1>2 DEF Reached, Reaping, Waiting, OfQueue
  <2>3. /\ active /\ (pc = "ring" \/ (Waiting /\ waitFor.use = "entry")) =>
             /\ reaped < produced /\ issued # <<>>
             /\ OfQueue(Len(issued)) /\ issued[Len(issued)].index = produced - 1
    BY DEF OutcomeInv, AnswerInv
  <2>4. QED
    BY <1>1, <1>2, <2>1, <2>2, <2>3 DEF AnswerInv, SlotOf
<1>16. QED
  BY <1>8, <1>9, <1>10, <1>11, <1>14, <1>15 DEF OutcomeInv, EngineInv

-----------------------------------------------------------------------------
(* Consuming: the device takes up the batch that was published there, which nothing
   the engine has seen is as young as. *)
TakesUp(b, q) ==
  /\ b \in Batches /\ EntryIs(b, consumed) /\ Waits(b) /\ (\A x \in Batches : Seen(x) => x < b)
  /\ q \in QueueEntry /\ q.batch = b
  /\ q.query => ~issued[b].async /\ ~issued[b].coherent
  /\ issued[b].coherent => q.coherent \/ q.error \in {"skipped", "generation"}
  /\ q.dom = issued[b].dom /\ (q.error = "skipped" <=> Faulted(qFaults, q.dom))

Submits(b, q) ==
  /\ q.engine /\ UNCHANGED <<running, done, engFaults, reset, ticket, packets, history>>
  /\ \E p \in Batch : /\ p.batch = b /\ p.gen = generation /\ p.dom = q.dom /\ p.error = q.error
                      /\ pending' = Append(pending, p)

LEMMA ConsumeEffect ==
  ASSUME PageInv, HeadInv, YoungInv, ConsumeEntry, UNCHANGED driverVars
  PROVE  /\ qActive /\ finishing = {} /\ credit = {} /\ dpc = "take"
         /\ consumed = completed + Len(entries) /\ consumed' = consumed + 1
         /\ UNCHANGED <<pageVars, wireVars, qActive, completed, credit, qFaults>>
         /\ Len(entries) < Depth
         /\ \E b, q : TakesUp(b, q) /\
              \/ Submits(b, q) /\ entries' = Append(entries, q) /\ UNCHANGED <<dpc, finishing>>
              \/ /\ ~q.engine /\ q.error # "none" /\ entries' = Append(entries, q)
                 /\ Refusals \/ ~Accepts
                 /\ UNCHANGED <<engineVars, dpc, finishing>>
              \/ /\ entries = <<>> /\ q.error # "none" /\ UNCHANGED <<engineVars, entries>>
                 /\ finishing' = {[entry |-> q, error |-> q.error]} /\ dpc' = "finish"
<1> DEFINE e == ring[SlotOf(consumed)]
<1>1. /\ dpc = "take" /\ consumed # published /\ consumed' = consumed + 1
      /\ UNCHANGED <<pageVars, wireVars, qActive, completed, credit, qFaults>> /\ Len(entries) < Depth
  BY DEF ConsumeEntry
<1>2. /\ completed \in Nat /\ consumed \in Nat /\ pgProduced \in Nat /\ published \in Nat
      /\ Len(entries) \in Nat /\ reaped \in Nat /\ produced \in Nat
  BY PageNumbers DEF PageInv, TypeOK, DeviceTypeOK
<1>3. /\ qActive /\ finishing = {} /\ credit = {}
      /\ consumed = completed + Len(entries) /\ consumed < pgProduced
  <2>1. qActive /\ finishing = {} /\ credit = {} /\ InHand = 0
    BY <1>1 DEF PageInv, DeviceInv, InHand
  <2>2. consumed <= published /\ published <= pgProduced /\ consumed = completed + Len(entries) + InHand
    BY <1>1, <2>1 DEF PageInv, DeviceInv
  <2>3. QED
    BY <1>1, <1>2, <2>1, <2>2
<1>4. active /\ pgProduced = produced /\ consumed \in reaped..produced - 1 /\ qGeneration = generation
      /\ consumed \in completed..produced - 1
  <2>1. completed < pgProduced
    BY <1>2, <1>3
  <2>2. active /\ pgProduced = produced /\ reaped <= completed /\ qGeneration = generation
    BY <1>3, <2>1, Serving
  <2>3. QED
    BY <1>2, <1>3, <2>2
<1>5. PICK b \in DOMAIN issued : OfQueue(b) /\ issued[b].index = consumed /\ SlotHolds(b) /\ b \in Batches
  BY <1>4, HeldBatch
<1>6. /\ buffer[e.buffer] = b /\ e.coherent = issued[b].coherent /\ (e.query => ~e.coherent /\ ~issued[b].async)
      /\ e \in Entry /\ SlotOf(consumed) \in Slots /\ e.dom = issued[b].dom
  <2>1. consumed >= consumed
    BY <1>2
  <2>2. buffer[BufferOf(consumed)] = b
    BY <1>3, <1>4, <1>5, <2>1 DEF PageInv, IntactInv
  <2>3. /\ e.buffer = BufferOf(consumed) /\ e.coherent = issued[b].coherent
        /\ (e.query => ~e.coherent /\ ~issued[b].async) /\ e.dom = issued[b].dom
    BY <1>5 DEF SlotHolds
  <2>4. SlotOf(consumed) \in Slots /\ ring \in [Slots -> Entry]
    BY <1>2, SlotType DEF PageInv, TypeOK, PageTypeOK
  <2>5. QED
    BY <2>2, <2>3, <2>4
<1>7. e.dom \in Domains \cup {NoDomain} /\ e.coherent \in BOOLEAN /\ e.query \in BOOLEAN
  BY <1>6 DEF Entry
<1> HIDE DEF e
<1>8. /\ EntryIs(b, consumed) /\ Waits(b)
      /\ \A x \in Batches : Seen(x) => x < b
  <2>1. EntryIs(b, consumed) /\ Waits(b)
    BY <1>3, <1>4, <1>5 DEF EntryIs, OfQueue, Waits
  <2>2. consumed >= consumed
    BY <1>2
  <2>3. QED
    BY <1>3, <1>5, <2>1, <2>2 DEF YoungInv, EntryIs
<1>9. PICK error \in Verdicts(e) :
       \/ /\ Submit(EngineBatch(e, error))
          /\ entries' = Append(entries, Consumed(e, error, TRUE))
          /\ UNCHANGED <<dpc, finishing>>
       \/ /\ error # "none" /\ (Refusals \/ ~Accepts)
          /\ entries' = Append(entries, Consumed(e, error, FALSE))
          /\ UNCHANGED <<engineVars, dpc, finishing>>
       \/ /\ error # "none" /\ ~Behind
          /\ finishing' = {[entry |-> Consumed(e, error, FALSE), error |-> error]}
          /\ dpc' = "finish"
          /\ UNCHANGED <<engineVars, entries>>
  BY DEF ConsumeEntry, e
<1>10. error \in Outcome /\ (error = "skipped" <=> Faulted(qFaults, e.dom))
  <2>1. error \in Outcome
    BY <1>9 DEF Verdicts, Outcome, Error
  <2>2. CASE Faulted(qFaults, e.dom)
    BY <1>9, <2>1, <2>2 DEF Verdicts
  <2>3. CASE ~Faulted(qFaults, e.dom)
    BY <1>9, <2>1, <2>3 DEF Verdicts
  <2>4. QED
    BY <2>1, <2>2, <2>3
<1>11. ASSUME NEW engine \in BOOLEAN
       PROVE  /\ TakesUp(b, Consumed(e, error, engine)) /\ Consumed(e, error, engine).engine = engine
              /\ Consumed(e, error, engine).error = error
  <2> DEFINE q == [batch |-> b, slot |-> SlotOf(consumed), dom |-> e.dom,
                   query |-> e.query /\ error = "none",
                   coherent |-> e.coherent /\ error \in {"none", "failed"},
                   error |-> error, engine |-> engine]
  <2>1. (e.query /\ error = "none") \in BOOLEAN /\ (e.coherent /\ error \in {"none", "failed"}) \in BOOLEAN
    OBVIOUS
  <2>2. q \in QueueEntry
    BY <1>5, <1>6, <1>7, <1>10, <2>1 DEF QueueEntry
  <2>3. /\ q.batch = b /\ q.engine = engine /\ q.error = error
        /\ q.dom = issued[b].dom /\ q.dom = e.dom
        /\ q.query => ~issued[b].async /\ ~issued[b].coherent
    BY <1>6
  <2>4. issued[b].coherent => q.coherent \/ q.error \in {"skipped", "generation"}
    BY <1>6, <1>10 DEF Outcome, Error
  <2>5. Consumed(e, error, engine) = q
    BY <1>6 DEF Consumed
  <2> HIDE DEF q
  <2>6. QED
    BY <1>5, <1>8, <1>10, <2>2, <2>3, <2>4, <2>5 DEF TakesUp
<1>12. CASE /\ Submit(EngineBatch(e, error))
            /\ entries' = Append(entries, Consumed(e, error, TRUE))
            /\ UNCHANGED <<dpc, finishing>>
  <2> DEFINE q == Consumed(e, error, TRUE)
             p == [batch |-> b, gen |-> generation, dom |-> e.dom, error |-> error]
  <2>1. p \in Batch /\ p.batch = b /\ p.gen = generation /\ p.error = error /\ p.dom = e.dom
    BY <1>5, <1>7, <1>10 DEF Batch, PageInv, TypeOK, PageTypeOK
  <2>2. pending' = Append(pending, p) /\ UNCHANGED <<running, done, engFaults, reset, ticket, packets, history>>
    BY <1>6, <1>12 DEF Submit, EngineBatch
  <2>3. TakesUp(b, q) /\ q.engine /\ q.error = error /\ q.dom = e.dom
    BY <1>6, <1>11 DEF TakesUp
  <2> HIDE DEF p
  <2>4. entries' = Append(entries, q) /\ UNCHANGED <<dpc, finishing>>
    BY <1>12
  <2> HIDE DEF q
  <2>5. Submits(b, q)
    BY <2>1, <2>2, <2>3 DEF Submits
  <2>6. QED
    BY <1>1, <1>3, <2>3, <2>4, <2>5
<1>13. CASE /\ error # "none" /\ (Refusals \/ ~Accepts)
            /\ entries' = Append(entries, Consumed(e, error, FALSE))
            /\ UNCHANGED <<engineVars, dpc, finishing>>
  BY <1>1, <1>3, <1>11, <1>13
<1>14. CASE /\ error # "none" /\ ~Behind
            /\ finishing' = {[entry |-> Consumed(e, error, FALSE), error |-> error]}
            /\ dpc' = "finish"
            /\ UNCHANGED <<engineVars, entries>>
  BY <1>1, <1>3, <1>11, <1>14 DEF Behind
<1>15. QED
  BY <1>9, <1>12, <1>13, <1>14

(* The entries before it, and the driver's records, say nothing of it. *)
LEMMA TakenBefore ==
  ASSUME PageInv, TakenInv, finishing = {}, consumed = completed + Len(entries),
         NEW b, EntryIs(b, consumed), NEW k \in DOMAIN entries
  PROVE  entries[k].batch # b
<1> DEFINE y == entries[k].batch
<1>1. EntryIs(y, completed + InHand + k - 1)
  BY DEF TakenInv, TakenAs
<1>2. k \in 1..Len(entries) /\ completed \in Nat /\ InHand = 0 /\ Len(entries) \in Nat
  <2>1. entries \in Seq(QueueEntry)
    BY DEF PageInv, TypeOK, DeviceTypeOK
  <2>2. k \in 1..Len(entries) /\ InHand = 0
    BY <2>1 DEF InHand
  <2>3. QED
    BY <2>2, PageNumbers
<1>3. completed + InHand + k - 1 # consumed
  BY <1>2
<1>4. QED
  BY <1>1, <1>3 DEF EntryIs

LEMMA YoungStays ==
  ASSUME PageInv, YoungInv, NEW b \in Batches, EntryIs(b, consumed), consumed' = consumed + 1,
         \A x \in Batches : Seen(x)' => Seen(x) \/ x = b, qActive' = qActive,
         UNCHANGED <<issued, generation>>
  PROVE  YoungInv'
<1> SUFFICES ASSUME qActive, NEW a \in DOMAIN issued, issued[a].live, issued[a].queue = generation,
                    issued[a].index >= consumed + 1, NEW x \in Batches, Seen(x)'
             PROVE  x < a
  BY DEF YoungInv
<1>1. /\ consumed \in Nat /\ issued[a].index \in Nat /\ a \in Nat /\ b \in Nat /\ b \in DOMAIN issued
      /\ issued[b].index = consumed /\ issued[b].live /\ issued[b].queue = generation
  BY PageNumbers, IssuedNumbers DEF EntryIs
<1>2. ~(a < b)
  BY <1>1 DEF PageInv, IssuedInv
<1>3. a # b
  BY <1>1
<1>4. Seen(x) => x < a
  <2>1. issued[a].index >= consumed
    BY <1>1
  <2>2. QED
    BY <2>1 DEF YoungInv
<1>5. b < a
  BY <1>1, <1>2, <1>3
<1>6. Seen(x) \/ x = b
  OBVIOUS
<1>7. QED
  BY <1>4, <1>5, <1>6

(* An entry taken up with a batch or a marker of the engine, or without. *)
LEMMA QueuedHolds ==
  ASSUME PageInv, OutcomeInv, UNCHANGED driverVars, qActive, finishing = {}, credit = {}, dpc = "take",
         consumed = completed + Len(entries), consumed' = consumed + 1,
         UNCHANGED <<qActive, completed, credit, generation, halted, status, ring, dpc, finishing>>,
         NEW b, NEW q, TakesUp(b, q), entries' = Append(entries, q),
         Submits(b, q) \/ (~q.engine /\ q.error # "none" /\ UNCHANGED engineVars)
  PROVE  OutcomeInv'
<1> USE DEF OutcomeInv, EngineInv
<1>1. UNCHANGED issued
  BY DEF driverVars
<1>2. /\ UNCHANGED <<running, done, reset, ticket, packets, history>>
      /\ \E N : /\ Entries(pending') = Entries(pending) \cup N
                /\ \A p \in N : p.batch = b /\ p.gen = generation /\ p.error = q.error
                /\ \A x, y : Ahead(pending', x, y) => Ahead(pending, x, y) \/ (x \in Entries(pending) /\ y \in N)
                /\ q.engine => N # {}
                /\ ~q.engine => N = {} /\ q.error # "none"
  <2>1. CASE Submits(b, q)
    <3>1. PICK p \in Batch : p.batch = b /\ p.gen = generation /\ p.error = q.error /\ pending' = Append(pending, p)
      BY <2>1 DEF Submits
    <3>2. pending \in Seq(Batch)
      BY DEF PageInv, TypeOK, EngineTypeOK
    <3>3. /\ Entries(pending') = Entries(pending) \cup {p}
          /\ \A x, y : Ahead(pending', x, y) => Ahead(pending, x, y) \/ (x \in Entries(pending) /\ y = p)
      BY <3>1, <3>2, AppendEntries
    <3> DEFINE N == {p}
    <3>4. /\ Entries(pending') = Entries(pending) \cup N
          /\ \A m \in N : m.batch = b /\ m.gen = generation /\ m.error = q.error
          /\ \A x, y : Ahead(pending', x, y) => Ahead(pending, x, y) \/ (x \in Entries(pending) /\ y \in N)
          /\ N # {}
      BY <3>1, <3>3
    <3> HIDE DEF N
    <3>5. QED
      BY <2>1, <3>4 DEF Submits
  <2>2. CASE ~q.engine /\ q.error # "none" /\ UNCHANGED engineVars
    <3>1. UNCHANGED <<pending, running, done, reset, ticket, packets, history>>
      BY <2>2 DEF engineVars
    <3> DEFINE N == {}
    <3>2. /\ Entries(pending') = Entries(pending) \cup N
          /\ \A m \in N : m.batch = b /\ m.gen = generation /\ m.error = q.error
          /\ \A x, y : Ahead(pending', x, y) => Ahead(pending, x, y) \/ (x \in Entries(pending) /\ y \in N)
          /\ N = {}
      BY <3>1
    <3> HIDE DEF N
    <3>3. QED
      BY <2>2, <3>1, <3>2
  <2>3. QED
    BY <2>1, <2>2
<1>3. PICK N : /\ Entries(pending') = Entries(pending) \cup N
               /\ \A p \in N : p.batch = b /\ p.gen = generation /\ p.error = q.error
               /\ \A x, y : Ahead(pending', x, y) => Ahead(pending, x, y) \/ (x \in Entries(pending) /\ y \in N)
               /\ q.engine => N # {}
               /\ ~q.engine => N = {} /\ q.error # "none"
  BY <1>2
<1>4. /\ b \in Batches /\ EntryIs(b, consumed) /\ Waits(b) /\ q \in QueueEntry /\ q.batch = b
      /\ \A x \in Batches : Seen(x) => x < b
  BY DEF TakesUp
<1>5. b \in DOMAIN issued /\ b \in Nat /\ b # 0
  <2>1. b \in DOMAIN issued
    BY <1>4 DEF EntryIs
  <2>2. b # 0
    BY <1>4, EngineConstants DEF EngineConstants, Batches
  <2>3. QED
    BY <2>1, <2>2, IssuedNumbers
<1>6. ~Seen(b)
  BY <1>4, <1>5
<1>7. /\ Entries(pending)' = Entries(pending) \cup N /\ Entries(done)' = Entries(done)
      /\ Entries(history)' = Entries(history) /\ \A x : Ours(x)' <=> Ours(x)
  <2>1. Entries(pending)' = Entries(pending')
    BY DEF Entries
  <2>2. QED
    BY <1>2, <1>3, <2>1 DEF Entries, Ours
<1>8. \A x : /\ (InFlight(x)' <=> InFlight(x) \/ (x = b /\ N # {})) /\ (Executed(x)' <=> Executed(x))
             /\ (Succeeded(x)' <=> Succeeded(x)) /\ (Seen(x)' <=> Seen(x) \/ (x = b /\ N # {}))
  BY <1>2, <1>3, <1>7 DEF InFlight, Executed, Succeeded, Seen
<1>9. Held' = Held \cup N
  <2>1. \A p \in N : Ours(p)
    BY <1>3, <1>5 DEF Ours
  <2>2. QED
    BY <1>2, <1>7, <2>1 DEF Held
<1>10. \A x \in Entries(done) \cup running \cup Entries(pending) : Ours(x) => x.batch < b
  <2> SUFFICES ASSUME NEW x \in Entries(done) \cup running \cup Entries(pending), Ours(x)
               PROVE  x.batch < b
    OBVIOUS
  <2>1. CASE x \in running \cup Entries(pending)
    <3>1. Seen(x.batch) /\ x.batch \in Batches
      BY <2>1, EngineNumbers DEF Seen, InFlight
    <3>2. QED
      BY <1>4, <3>1
  <2>2. CASE x \in Entries(done)
    <3>1. x.batch \in Batches
      BY <2>2, EngineNumbers DEF Ours
    <3>2. x \in Entries(history) /\ ~x.reset
      BY <2>2 DEF HistoryInv, Ours
    <3>3. Seen(x.batch)
      BY <3>2 DEF Seen, Executed
    <3>4. QED
      BY <1>4, <3>1, <3>3
  <2>3. QED
    BY <2>1, <2>2
<1>11. \A x \in running \cup Entries(pending) : x.batch < b
  <2> SUFFICES ASSUME NEW x \in running \cup Entries(pending) PROVE x.batch < b
    OBVIOUS
  <2>1. Seen(x.batch) /\ x.batch \in Batches
    BY EngineNumbers DEF Seen, InFlight
  <2>2. QED
    BY <1>4, <2>1
<1>12. GenerationInv'
  BY <1>2, <1>3, <1>7 DEF GenerationInv
<1>13. HistoryInv'
  <2>1. \A x \in Batches : InFlight(x)' => ~Executed(x)'
    BY <1>6, <1>8 DEF HistoryInv, Seen
  <2>2. \A x \in Batches : Seen(x)' => x \in DOMAIN issued'
    BY <1>1, <1>5, <1>8 DEF HistoryInv
  <2>3. credit' \cup Entries(done)' \subseteq Entries(history)'
    BY <1>7 DEF HistoryInv
  <2>4. QED
    BY <1>7, <2>1, <2>2, <2>3 DEF HistoryInv
<1>14. LineInv'
  <2>1. \A x, y \in Entries(pending)' : Ahead(pending', x, y) => x.batch < y.batch
    <3> SUFFICES ASSUME NEW x, NEW y, Ahead(pending', x, y) PROVE x.batch < y.batch
      OBVIOUS
    <3>1. CASE Ahead(pending, x, y)
      BY <3>1 DEF LineInv, Ahead, Entries
    <3>2. CASE x \in Entries(pending) /\ y \in N
      BY <1>3, <1>11, <3>2
    <3>3. QED
      BY <1>3, <3>1, <3>2
  <2>2. \A x, y \in Entries(done)' : Ahead(done', x, y) /\ Ours(x)' => Ours(y)' /\ x.batch < y.batch
    BY <1>2, <1>7 DEF LineInv
  <2>3. credit' = {}
    OBVIOUS
  <2>4. \A c \in Entries(done)', x \in running' \cup Entries(pending)' : Ours(c)' => c.batch < x.batch
    BY <1>2, <1>3, <1>7, <1>10 DEF LineInv
  <2>5. \A r \in running', x \in Entries(pending)' : r.batch < x.batch
    BY <1>2, <1>3, <1>7, <1>11 DEF LineInv
  <2>6. QED
    BY <2>1, <2>2, <2>3, <2>4, <2>5 DEF LineInv
<1>15. entries \in Seq(QueueEntry)
  BY DEF PageInv, TypeOK, DeviceTypeOK
<1>16. OwnInv'
  <2>1. Entries(entries)' = Entries(entries) \cup {q}
    <3>1. Entries(entries)' = Entries(entries')
      BY DEF Entries
    <3>2. QED
      BY <1>4, <1>15, <3>1, AppendEntries
  <2>2. QED
    BY <1>3, <1>4, <1>9, <2>1 DEF OwnInv
<1>17. TakenInv'
  <2>1. InHand = 0 /\ InHand' = 0
    BY DEF InHand
  <2>2. /\ DOMAIN entries' = DOMAIN entries \cup {Len(entries) + 1} /\ DOMAIN entries = 1..Len(entries)
        /\ entries'[Len(entries) + 1] = q /\ \A k \in DOMAIN entries : entries'[k] = entries[k]
        /\ Len(entries) \in Nat /\ completed \in Nat
    <3>1. q \in QueueEntry /\ entries' = Append(entries, q) /\ completed \in Nat
      BY <1>4, PageNumbers
    <3> HIDE DEF OutcomeInv, EngineInv
    <3>2. QED
      BY <1>15, <3>1
  <2>3. ASSUME NEW k \in DOMAIN entries, NEW e, NEW i, e = entries[k], i = completed + InHand + k - 1
        PROVE  TakenAs(e, i)'
    <3>1. TakenAs(e, i) /\ e.batch # b
      BY <1>4, <2>3, TakenBefore DEF TakenInv
    <3>2. e.batch \in Batches
      BY <3>1, IssuedNumbers DEF TakenAs, EntryIs
    <3>3. ~e.engine => ~Seen(e.batch)'
      BY <1>8, <3>1 DEF TakenAs
    <3>4. e.engine /\ e.error # "none" => \A x \in Held' : x.batch = e.batch => x.error = e.error
      BY <1>3, <1>9, <3>1 DEF TakenAs
    <3>5. EntryIs(e.batch, i)'
      BY <1>1, <3>1 DEF TakenAs, EntryIs
    <3>6. QED
      BY <1>1, <3>1, <3>3, <3>4, <3>5 DEF TakenAs
  <2>4. ASSUME NEW i, i = consumed
        PROVE  TakenAs(q, i)'
    <3>1. ~q.engine => q.error # "none" /\ ~Seen(b)'
      BY <1>3, <1>6, <1>8
    <3>2. \A x \in Held : x.batch # b
      <4> SUFFICES ASSUME NEW x \in Held PROVE x.batch # b
        OBVIOUS
      <4>1. x.batch < b
        BY <1>10 DEF Held
      <4>2. x.batch \in Nat
        BY EngineNumbers DEF Held
      <4>3. QED
        BY <1>5, <4>1, <4>2
    <3>3. \A x \in Held' : x.batch = b => x.error = q.error
      BY <1>3, <1>9, <3>2
    <3>4. EntryIs(b, i)'
      BY <1>1, <1>4, <2>4 DEF EntryIs
    <3>5. /\ q.query => ~issued'[b].async /\ ~issued'[b].coherent
          /\ issued'[b].coherent => q.coherent \/ q.error \in {"skipped", "generation"}
      BY <1>1 DEF TakesUp
    <3>6. QED
      BY <1>4, <3>1, <3>3, <3>4, <3>5 DEF TakenAs
  <2>5. completed + InHand + (Len(entries) + 1) - 1 = consumed
    BY <2>1, <2>2
  <2>6. completed' + InHand' = completed + InHand
    BY <2>1
  <2> SUFFICES ASSUME NEW k \in DOMAIN entries', NEW e, NEW i, e = entries'[k], i = completed + InHand + k - 1
               PROVE  TakenAs(e, i)'
    BY <2>6 DEF TakenInv
  <2>7. CASE k \in DOMAIN entries
    BY <2>2, <2>3, <2>7
  <2>8. CASE k = Len(entries) + 1
    BY <2>2, <2>4, <2>5, <2>8
  <2>9. QED
    BY <2>2, <2>7, <2>8
<1>18. YoungInv'
  BY <1>1, <1>4, <1>8, YoungStays
<1>19. FinishInv'
  BY DEF FinishInv
<1>20. FateInv' /\ AnswerInv'
  <2>1. \A x \in Batches : Settles(x) \/ Waits(x)
    BY <1>4, <1>8 DEF Settles
  <2>2. FateInv /\ AnswerInv
    OBVIOUS
  <2> HIDE DEF OutcomeInv, EngineInv
  <2>3. QED
    BY <2>1, <2>2, FateStays
<1>21. QED
  BY <1>12, <1>13, <1>14, <1>16, <1>17, <1>18, <1>19, <1>20

(* A rejected entry that is alone is finished at once: the engine never sees it. *)
LEMMA AloneHolds ==
  ASSUME PageInv, OutcomeInv, UNCHANGED driverVars, qActive, finishing = {}, credit = {},
         consumed = completed + Len(entries), consumed' = consumed + 1,
         UNCHANGED <<engineVars, entries, qActive, completed, credit, generation, halted, status, ring>>,
         NEW b, NEW q, TakesUp(b, q), entries = <<>>, q.error # "none",
         finishing' = {[entry |-> q, error |-> q.error]}, dpc' = "finish"
  PROVE  OutcomeInv'
<1> USE DEF OutcomeInv, EngineInv
<1>1. UNCHANGED <<issued, pending, running, done, reset, ticket, packets, history>>
  BY DEF driverVars, engineVars
<1>2. /\ b \in Batches /\ EntryIs(b, consumed) /\ q.batch = b
      /\ \A x \in Batches : Seen(x) => x < b
  BY DEF TakesUp
<1>3. b \in DOMAIN issued /\ b \in Nat /\ consumed = completed
  BY <1>2, IssuedNumbers, PageNumbers, SMTT(30) DEF EntryIs
<1>4. ~Seen(b)
  BY <1>2, <1>3
<1>5. \A x : (InFlight(x)' <=> InFlight(x)) /\ (Executed(x)' <=> Executed(x))
             /\ (Succeeded(x)' <=> Succeeded(x)) /\ (Seen(x)' <=> Seen(x))
  BY <1>1 DEF InFlight, Executed, Succeeded, Seen, Entries
<1>6. Held' = Held
  BY <1>1 DEF Held, Ours, Entries
<1>7. GenerationInv'
  BY <1>1 DEF GenerationInv, Ours, Entries
<1>8. HistoryInv'
  BY <1>1, <1>5 DEF HistoryInv, Entries
<1>9. LineInv'
  BY <1>1 DEF LineInv, Ours, Entries, Ahead
<1>10. OwnInv'
  BY <1>6 DEF OwnInv, Entries
<1>11. TakenInv'
  BY DEF TakenInv
<1>12. YoungInv'
  BY <1>1, <1>2, <1>5, YoungStays
<1>13. FinishInv'
  <2>1. EntryIs(b, completed)'
    BY <1>1, <1>2, <1>3 DEF EntryIs
  <2>2. ASSUME NEW o, o = q.error
        PROVE  Fate(b, o)'
    BY <1>4, <1>5, <2>2 DEF Fate, Seen, Executed, Succeeded
  <2>3. \A f \in finishing' : f.entry = q /\ f.error = q.error
    OBVIOUS
  <2>4. ASSUME NEW f \in finishing', NEW x, x = f.entry.batch, NEW o, o = f.error
        PROVE  EntryIs(x, completed)' /\ Fate(x, o)'
    <3>1. x = b /\ o = q.error
      BY <1>2, <2>3, <2>4
    <3>2. QED
      BY <2>1, <2>2, <3>1
  <2>5. QED
    BY <2>4 DEF FinishInv, EntryIs, Fate
<1>14. FateInv' /\ AnswerInv'
  <2>1. \A x \in Batches : Settles(x) \/ Waits(x)
    BY <1>5 DEF Settles
  <2>2. FateInv /\ AnswerInv
    OBVIOUS
  <2> HIDE DEF OutcomeInv, EngineInv
  <2>3. QED
    BY <2>1, <2>2, FateStays
<1>15. QED
  BY <1>7, <1>8, <1>9, <1>10, <1>11, <1>12, <1>13, <1>14

LEMMA ConsumeHolds ==
  ASSUME PageInv, HeadInv, OutcomeInv, UNCHANGED driverVars, ConsumeEntry
  PROVE  OutcomeInv'
<1>1. /\ qActive /\ finishing = {} /\ credit = {} /\ dpc = "take"
      /\ consumed = completed + Len(entries) /\ consumed' = consumed + 1
      /\ UNCHANGED <<pageVars, wireVars, qActive, completed, credit>>
  BY ConsumeEffect DEF OutcomeInv, EngineInv
<1>2. PICK b, q : TakesUp(b, q) /\
        \/ Submits(b, q) /\ entries' = Append(entries, q) /\ UNCHANGED <<dpc, finishing>>
        \/ /\ ~q.engine /\ q.error # "none" /\ entries' = Append(entries, q)
           /\ UNCHANGED <<engineVars, dpc, finishing>>
        \/ /\ entries = <<>> /\ q.error # "none" /\ UNCHANGED <<engineVars, entries>>
           /\ finishing' = {[entry |-> q, error |-> q.error]} /\ dpc' = "finish"
  BY ConsumeEffect DEF OutcomeInv, EngineInv
<1>3. UNCHANGED <<generation, halted, status, ring>>
  BY <1>1 DEF pageVars, wireVars
<1>4. CASE Submits(b, q) /\ entries' = Append(entries, q) /\ UNCHANGED <<dpc, finishing>>
  BY <1>1, <1>2, <1>3, <1>4, QueuedHolds
<1>5. CASE /\ ~q.engine /\ q.error # "none" /\ entries' = Append(entries, q)
           /\ UNCHANGED <<engineVars, dpc, finishing>>
  BY <1>1, <1>2, <1>3, <1>5, QueuedHolds
<1>6. CASE /\ entries = <<>> /\ q.error # "none" /\ UNCHANGED <<engineVars, entries>>
           /\ finishing' = {[entry |-> q, error |-> q.error]} /\ dpc' = "finish"
  BY <1>1, <1>2, <1>3, <1>6, AloneHolds
<1>7. QED
  BY <1>2, <1>4, <1>5, <1>6

-----------------------------------------------------------------------------
(* A reset leaves the queue nothing: what runs and what is completed is older. *)
LEMMA ResetHolds ==
  ASSUME PageInv, OutcomeInv, ResetStep
  PROVE  OutcomeInv'
<1> USE DEF OutcomeInv, EngineInv
<1>1. /\ generation' = generation + 1 /\ reset' = TRUE /\ ticket' = generation + 1 /\ pending' = <<>>
      /\ qActive' = FALSE /\ entries' = <<>> /\ dpc = "idle"
      /\ UNCHANGED <<running, done, packets, history, completed, consumed, halted, status, ring, dpc,
                     credit, finishing>>
      /\ UNCHANGED driverVars
  BY DEF ResetStep, DeviceReset, ResetAdmitted, ResetEngine
<1>2. UNCHANGED issued
  BY <1>1 DEF driverVars
<1>3. credit = {} /\ finishing = {}
  BY <1>1 DEF PageInv, DeviceInv
<1>4. /\ Entries(pending)' = {} /\ Entries(entries)' = {} /\ Entries(done)' = Entries(done)
      /\ Entries(history)' = Entries(history)
  BY <1>1 DEF Entries
<1>5. \A x \in Entries(done) \cup running : x.gen <= generation /\ x.gen <= generation + 1 /\ x.gen # generation + 1
  <2> SUFFICES ASSUME NEW x \in Entries(done) \cup running
               PROVE  x.gen <= generation /\ x.gen <= generation + 1 /\ x.gen # generation + 1
    OBVIOUS
  <2>1. x.gen \in Nat /\ generation \in Nat
    BY EngineNumbers
  <2>2. x.gen <= generation
    BY DEF GenerationInv
  <2>3. QED
    BY <2>1, <2>2
<1>6. \A x \in Entries(done) \cup running : ~Ours(x)'
  BY <1>1, <1>5 DEF Ours
<1>7. Held' = {}
  BY <1>1, <1>3, <1>4, <1>6 DEF Held
<1>8. \A b : (InFlight(b)' => InFlight(b)) /\ (Executed(b)' <=> Executed(b))
             /\ (Succeeded(b)' <=> Succeeded(b)) /\ (Seen(b)' => Seen(b))
  BY <1>1, <1>4 DEF InFlight, Executed, Succeeded, Seen
<1>9. GenerationInv'
  BY <1>1, <1>3, <1>4, <1>5, <1>6 DEF GenerationInv
<1>10. HistoryInv'
  BY <1>2, <1>3, <1>4, <1>8, <1>1 DEF HistoryInv
<1>11. LineInv'
  BY <1>1, <1>3, <1>4, <1>6 DEF LineInv
<1>12. OwnInv'
  BY <1>4, <1>7 DEF OwnInv
<1>13. TakenInv' /\ YoungInv' /\ FinishInv'
  BY <1>1, <1>3 DEF TakenInv, YoungInv, FinishInv
<1>14. FateInv' /\ AnswerInv'
  <2>1. \A x \in Batches : Settles(x) \/ Waits(x)
    BY <1>8 DEF Settles
  <2>2. FateInv /\ AnswerInv
    OBVIOUS
  <2> HIDE DEF OutcomeInv, EngineInv
  <2>3. QED
    BY <1>1, <2>1, <2>2, FateStays
<1>15. QED
  BY <1>9, <1>10, <1>11, <1>12, <1>13, <1>14

LEMMA EngineHolds ==
  ASSUME PageInv, OutcomeInv, WorkerStep
  PROVE  OutcomeInv'
<1>1. /\ Worker /\ UNCHANGED <<deviceVars, driverVars, generation, halted, status, ring>>
  BY DEF WorkerStep, EngineStep, pageVars, wireVars
<1>2. /\ UNCHANGED <<issued, completed, finishing>> /\ dpc' = dpc /\ qActive' = qActive
  BY <1>1 DEF deviceVars, driverVars
<1>3. EngineInv' /\ FateKept
  BY <1>1, <1>2, WorkerHolds DEF OutcomeInv
<1>4. FinishInv'
  BY <1>1, <1>2, <1>3, FinishStays DEF OutcomeInv
<1>5. FateInv' /\ AnswerInv'
  BY <1>1, <1>2, <1>3, FateStays DEF OutcomeInv, FateKept
<1>6. QED
  BY <1>3, <1>4, <1>5 DEF OutcomeInv

LEMMA OutcomeInit == Init => OutcomeInv
<1> SUFFICES ASSUME Init PROVE OutcomeInv
  OBVIOUS
<1>1. /\ pending = <<>> /\ running = {} /\ done = <<>> /\ history = <<>> /\ packets = {} /\ ticket = 0
      /\ entries = <<>> /\ qActive = FALSE /\ credit = {} /\ finishing = {} /\ generation = 0
      /\ issued = <<>> /\ active = FALSE /\ pc = "idle" /\ settled = [b \in Batches |-> "unset"]
  BY DEF Init, EngineInit, PageInit, DeviceInit, DriverInit
<1>2. Entries(pending) = {} /\ Entries(done) = {} /\ Entries(history) = {} /\ Entries(entries) = {}
  BY <1>1 DEF Entries
<1>3. \A b : ~InFlight(b) /\ ~Executed(b) /\ ~Seen(b)
  BY <1>1, <1>2 DEF InFlight, Executed, Seen
<1>4. Held = {}
  BY <1>1, <1>2 DEF Held
<1>5. EngineInv
  BY <1>1, <1>2, <1>3, <1>4
     DEF EngineInv, GenerationInv, HistoryInv, LineInv, OwnInv, TakenInv, YoungInv
<1>6. FinishInv /\ FateInv /\ AnswerInv
  BY <1>1 DEF FinishInv, FateInv, AnswerInv, Waiting, Reaping
<1>7. QED
  BY <1>5, <1>6 DEF OutcomeInv

LEMMA OutcomeStep == PageInv /\ HeadInv /\ OutcomeInv /\ [Next]_vars => OutcomeInv'
<1> SUFFICES ASSUME PageInv, HeadInv, OutcomeInv, [Next]_vars PROVE OutcomeInv'
  OBVIOUS
<1>1. CASE Call
  BY <1>1, StaysHolds DEF Call, StaysStep
<1>2. CASE Proceed
  <2>1. UNCHANGED <<engineVars, deviceVars>>
    BY <1>2 DEF Proceed
  <2>2. CASE StaysStep
    BY <2>1, <2>2, StaysHolds
  <2>3. CASE ReapBegin \/ ReapOne \/ LoseOne
    BY <2>1, <2>3, ReapHolds
  <2>4. CASE EnableStores \/ Enabled(qActive)
    BY <2>1, <2>4, EnableHolds
  <2>5. CASE Fill
    BY <2>1, <2>5, FillHolds
  <2>6. CASE Publish
    BY <2>1, <2>6, PublishHolds
  <2>7. QED
    BY <1>2, <2>2, <2>3, <2>4, <2>5, <2>6 DEF Proceed, StaysStep
<1>3. CASE ControlStep
  BY <1>3, ControlHolds
<1>4. CASE InterruptStep \/ UNCHANGED vars
  BY <1>4, InterruptHolds
<1>5. CASE DeviceStep
  BY <1>5, HandlerHolds, ConsumeHolds, CompleteBeginHolds, DrainHolds, CreditHolds, FinishStatusHolds,
     FinishCountHolds DEF DeviceStep, Device
<1>6. CASE ResetStep
  BY <1>6, ResetHolds
<1>7. CASE WorkerStep
  BY <1>7, EngineHolds
<1>8. QED
  BY <1>1, <1>2, <1>3, <1>4, <1>5, <1>6, <1>7 DEF Next, Quiet

-----------------------------------------------------------------------------
(* The theorems. *)

(* A request that answers has seen its own entry reached. *)
AnswerReached == pc = "answer" => Reached("entry")

LEMMA AnswerStep == PageInv /\ AnswerReached /\ [Next]_vars => AnswerReached'
<1> SUFFICES ASSUME PageInv, AnswerReached, [Next]_vars PROVE AnswerReached'
  OBVIOUS
<1>1. /\ ensureFor \in {"admit", "buffer"}
      /\ reapFor \in {"admit", "register", "report", "claim", "waited"}
      /\ waitFor.use \in {"slot", "buffer", "entry"}
  BY DEF PageInv, TypeOK, DriverTypeOK, Wait_
<1>2. CASE UNCHANGED <<pc, waitFor, waited>>
  BY <1>2 DEF AnswerReached, Reached
<1>3. CASE pc' # "answer"
  BY <1>3 DEF AnswerReached
<1>4. CASE Call
  BY <1>3, <1>4 DEF Call, Request
<1>5. CASE Proceed
  <2>1. CASE Ensure \/ ReadGeneration \/ EnableStores \/ Enabled(qActive)
    BY <1>1, <1>3, <2>1 DEF Ensure, ReadGeneration, EnableStores, Enabled
  <2>2. CASE ReapBegin \/ ReapOne \/ LoseOne
    BY <1>1, <1>2, <1>3, <2>2 DEF ReapBegin, ReapOne, LoseOne, At, localVars
  <2>3. CASE Admit \/ Report \/ BufferBegin \/ Claim \/ ClaimBuffer
    BY <1>3, <2>3 DEF Admit, Report, BufferBegin, Claim, ClaimBuffer, Return, Leave, WaitOn
  <2>4. CASE WaitLook \/ WaitArm \/ WaitRecheck \/ Wake \/ Watchdog
    BY <1>3, <2>4 DEF WaitLook, WaitArm, WaitRecheck, Wake, Watchdog, WaitResult, Disarm
  <2>5. CASE Waited
    <3>1. pc = "waited" => ~Reached("buffer")
      BY DEF PageInv, WindowInv
    <3>2. QED
      BY <1>1, <1>3, <2>5, <3>1 DEF Waited, At, Leave, Return, localVars, AnswerReached, Reached
  <2>6. CASE Fill \/ Publish \/ Ring \/ Answer
    BY <1>3, <2>6 DEF Fill, Publish, Ring, Answer, Leave, Return, WaitOn
  <2>7. QED
    BY <1>5, <2>1, <2>2, <2>3, <2>4, <2>5, <2>6 DEF Proceed
<1>6. CASE ControlStep
  BY <1>3, <1>6 DEF ControlStep, WriteControl
<1>7. CASE InterruptStep \/ DeviceStep \/ ResetStep \/ WorkerStep \/ UNCHANGED vars
  BY <1>2, <1>7 DEF InterruptStep, Interrupt, DeviceStep, ResetStep, WorkerStep, vars, driverVars,
     localVars
<1>8. QED
  BY <1>4, <1>5, <1>6, <1>7 DEF Next, Quiet

LEMMA AnswerInit == Init => AnswerReached
BY DEF Init, DriverInit, AnswerReached

LEMMA PageCounts == PageInv => Window
<1> SUFFICES ASSUME PageInv PROVE Window
  OBVIOUS
<1>1. /\ consumed \in Nat /\ completed \in Nat /\ reaped \in Nat /\ produced \in Nat
      /\ Len(entries) \in Nat /\ InHand \in {0, 1} /\ pgProduced \in Nat
  BY PageNumbers
<1>2. Current => qActive /\ active
  BY DEF Current, PageInv, JoinInv
<1>3. QED
  BY <1>1, <1>2 DEF Window, PageInv, DeviceInv, WindowInv

(* The entries are oldest first, and the engine took exactly those whose batches it
   completed, runs or has pending. *)
LEMMA Corresponds == PageInv /\ OutcomeInv => Correspondence
<1> SUFFICES ASSUME PageInv, OutcomeInv PROVE Correspondence
  OBVIOUS
<1>1. TakenInv /\ LineInv /\ OwnInv
  BY DEF OutcomeInv, EngineInv
<1>2. Names(Owned) = Names(Held)
  <2>1. ASSUME NEW n \in Names(Owned) PROVE n \in Names(Held)
    BY <1>1, <2>1 DEF Names, Owned, OwnInv
  <2>2. ASSUME NEW n \in Names(Held) PROVE n \in Names(Owned)
    BY <1>1, <2>2 DEF Names, Owned, OwnInv
  <2>3. QED
    BY <2>1, <2>2
<1>3. \A i, j \in DOMAIN entries : i < j => entries[i].batch < entries[j].batch
  BY <1>1, EntriesInOrder
<1>4. ASSUME NEW i \in DOMAIN pending, NEW j \in DOMAIN pending, i < j
      PROVE  pending[i].batch < pending[j].batch
  <2>1. pending[i] \in Entries(pending) /\ pending[j] \in Entries(pending)
    BY DEF Entries
  <2>2. Ahead(pending, pending[i], pending[j])
    BY <1>4 DEF Ahead
  <2>3. QED
    BY <1>1, <2>1, <2>2 DEF LineInv
<1>5. ASSUME NEW i \in DOMAIN done, NEW j \in DOMAIN done, i < j, Ours(done[i])
      PROVE  Ours(done[j]) /\ done[i].batch < done[j].batch
  <2>1. done[i] \in Entries(done) /\ done[j] \in Entries(done)
    BY DEF Entries
  <2>2. Ahead(done, done[i], done[j])
    BY <1>5 DEF Ahead
  <2>3. QED
    BY <1>1, <1>5, <2>1, <2>2 DEF LineInv
<1>6. OldestFirst
  BY <1>1, <1>3, <1>4, <1>5 DEF OldestFirst, LineInv
<1>7. QED
  BY <1>2, <1>6 DEF Correspondence

(* Types and counters are right, and a completion is credited to the entry it
   belongs to. *)
THEOREM PageCorrect == Spec => []PageSound
<1>1. PageInv /\ OutcomeInv => PageSound
  BY PageCounts, Corresponds DEF PageSound, PageInv
<1>2. QED
  BY HeadInit, HeadStep, PageInit_, PageStep, OutcomeInit, OutcomeStep, <1>1, PTL DEF Spec

LEMMA Truthful == PageInv /\ OutcomeInv /\ AnswerReached => OutcomeTruth
<1> SUFFICES ASSUME PageInv, OutcomeInv, AnswerReached PROVE OutcomeTruth
  OBVIOUS
<1>1. FateInv /\ AnswerInv
  BY DEF OutcomeInv
<1>2. ASSUME NEW b \in DOMAIN issued PROVE Truth(b, settled[b])
  <2>1. b \in Batches
    BY IssuedNumbers
  <2>2. CASE settled[b] = "unset"
    BY <2>2 DEF Truth
  <2>3. CASE settled[b] # "unset"
    BY <1>1, <2>1, <2>3 DEF FateInv, Fate, Truth
  <2>4. QED
    BY <2>2, <2>3
<1>3. ASSUME pc = "answer"
      PROVE  LET b == ring[AnswerSlot].batch IN
               b = Len(issued) /\ status[AnswerSlot] # "unset" /\ Truth(b, status[AnswerSlot])
  <2>1. /\ waitFor.target = produced
        /\ ring[SlotOf(produced - 1)].batch = Len(issued)
        /\ status[SlotOf(produced - 1)] # "unset"
        /\ Fate(Len(issued), status[SlotOf(produced - 1)])
    BY <1>1, <1>3 DEF AnswerInv, AnswerReached
  <2>2. AnswerSlot = SlotOf(produced - 1)
    BY <2>1 DEF AnswerSlot
  <2>3. QED
    BY <2>1, <2>2 DEF Fate, Truth
<1>4. QED
  BY <1>2, <1>3 DEF OutcomeTruth

(* What the driver records and answers is what happened to that very batch. *)
THEOREM OutcomeCorrect == Spec => []OutcomeTruth
<1>1. QED
  BY HeadInit, HeadStep, PageInit_, PageStep, OutcomeInit, OutcomeStep, AnswerInit, AnswerStep,
     Truthful, PTL DEF Spec

(* The driver of a running guest never records the failure of a READBACK or RETURN that
   the engine executed. *)
THEOREM CoherentCorrect == Spec => []CoherentStops
<1>1. PageInv /\ OutcomeInv => CoherentStops
  <2> SUFFICES ASSUME PageInv, OutcomeInv,
                      NEW b \in DOMAIN issued, issued[b].coherent, settled[b] = "failed", Executed(b)
               PROVE  FALSE
    BY DEF CoherentStops
  <2>1. b \in Batches
    BY IssuedNumbers
  <2>2. QED
    BY <2>1 DEF OutcomeInv, FateInv
<1>2. QED
  BY HeadInit, HeadStep, PageInit_, PageStep, OutcomeInit, OutcomeStep, <1>1, PTL DEF Spec

-----------------------------------------------------------------------------
(* What the contract needs of the sizes: the engine takes every batch the device has
   an entry for, and no list of failed domains has to forget one.          *)
EnoughRoom ==
  /\ ~Refusals /\ Depth <= Pending
  /\ IsFiniteSet(Domains) /\ Cardinality(Domains) <= FaultSlots

(* The inductive invariant.  In the engine: the domain of a completed failure stands
   on the list, so what runs has not failed before, and after a failure of a domain
   no completion of it succeeds.                                           *)
Distinct(list) == \A i, j \in DOMAIN list : list[i] = list[j] => i = j
Finished == {x \in credit \cup Entries(done) : Ours(x)}

EngineFaultInv ==
  /\ Distinct(engFaults)
  /\ \A c \in Finished : c.error # "none" /\ c.dom # NoDomain => c.dom \in Entries(engFaults)
  /\ \A r \in running : Ours(r) /\ r.error = "none" => r.dom \notin Entries(engFaults)
  /\ \A x, y \in Finished :
       x.batch < y.batch /\ x.dom = y.dom /\ x.dom # NoDomain /\ x.error # "none" => y.error # "none"

(* Nothing the engine holds of domain d will succeed. *)
Spoiled(d) ==
  /\ \A x \in Finished \cup running : Ours(x) /\ x.dom = d => x.error # "none"
  /\ \A x \in Entries(pending) : Ours(x) /\ x.dom = d => x.error # "none" \/ d \in Entries(engFaults)

(* In the device: the same of the domains on its own list. *)
HostFaultInv ==
  /\ Distinct(qFaults)
  /\ \A d \in Entries(qFaults) : Spoiled(d)
  /\ \A f \in finishing : f.entry.dom # NoDomain =>
       /\ f.error # "none" => Spoiled(f.entry.dom)
       /\ f.error = "none" => f.entry.dom \notin Entries(qFaults)
       /\ dpc = "count" /\ f.error # "none" => f.entry.dom \in Entries(qFaults)

DomainInv ==
  /\ \A x \in Held : x.dom = issued[x.batch].dom
  /\ \A e \in Entries(entries) : e.dom = issued[e.batch].dom /\ e.engine
  /\ \A f \in finishing : f.entry.dom = issued[f.entry.batch].dom

FaultInv == EngineFaultInv /\ HostFaultInv /\ DomainInv

(* A synchronous request waits for its entry, so nothing is published behind it. *)
WaitsForEntry ==
  glFaulted \/ pc = "ring" \/ ((Waiting \/ Reaping \/ pc = "waited") /\ waitFor.use = "entry")

Awaited(b) == OfQueue(b) /\ ~issued[b].async /\ issued[b].index \in completed..produced - 1

SyncInv ==
  /\ active /\ qActive => \A b \in DOMAIN issued :
       Awaited(b) => issued[b].index = produced - 1 /\ WaitsForEntry
  /\ (Reaping \/ pc = "waited") /\ waited = "lost" => ~(active /\ qActive)
  /\ pc = "publish" => ~glFaulted
  /\ pc \in {"publish", "ring"} => issued # <<>> /\ issued[Len(issued)].async = call.async

(* In the driver: the outcome of a batch is in its slot until it is reaped, and on the
   driver's record afterwards.  Among the first n entries none of a stream succeeded
   after one of it failed.                                                 *)
OutcomeOf(b) == IF issued[b].index < reaped THEN settled[b] ELSE status[SlotOf(issued[b].index)]

SameStream(a, b) ==
  /\ a < b /\ issued[a].dom = issued[b].dom /\ issued[a].dom # NoDomain
  /\ issued[a].queue = issued[b].queue

Chained(n) ==
  \A a, b \in DOMAIN issued :
    /\ SameStream(a, b) /\ OfQueue(a) /\ OfQueue(b) /\ issued[b].index < n
    /\ OutcomeOf(a) \in Error
    => OutcomeOf(b) # "none"

Listed(n) ==
  \A b \in DOMAIN issued :
    OfQueue(b) /\ issued[b].index < n /\ OutcomeOf(b) \in Error /\ issued[b].dom # NoDomain
    => issued[b].dom \in Entries(qFaults)

ChainInv ==
  /\ \A b \in DOMAIN issued : settled[b] # "unset" => issued[b].live
  /\ DomainStaysFailed
  /\ active /\ qActive => Chained(completed) /\ Listed(completed)
  /\ pc = "reaping" => Chained(upTo)

-----------------------------------------------------------------------------
(* A list with room takes every domain once. *)
LEMMA FaultAdds ==
  ASSUME EnoughRoom, NEW list \in Seq(Domains), Distinct(list), NEW dom \in Domains \cup {NoDomain}
  PROVE  /\ Distinct(Fault(list, dom))
         /\ Entries(Fault(list, dom)) = Entries(list) \cup ({dom} \ {NoDomain})
<1>1. CASE dom = NoDomain \/ dom \in Entries(list)
  BY <1>1 DEF Fault
<1>2. CASE dom # NoDomain /\ dom \notin Entries(list)
  <2> DEFINE t == Append(list, dom)
             n == Len(list) + 1
  <2>1. /\ t \in Seq(Domains) /\ DOMAIN t = 1..n /\ n \in Nat /\ DOMAIN list = 1..Len(list)
        /\ \A i \in DOMAIN list : t[i] = list[i]
        /\ t[n] = dom
    BY <1>2
  <2>2. Entries(t) = Entries(list) \cup {dom}
    BY <1>2, AppendEntries
  <2> HIDE DEF t
  <2>3. ASSUME NEW i \in 1..n, NEW j \in 1..n, t[i] = t[j] PROVE i = j
    <3>1. CASE i \in DOMAIN list /\ j \in DOMAIN list
      BY <2>1, <2>3, <3>1 DEF Distinct
    <3>2. CASE i \in DOMAIN list /\ j = n
      BY <1>2, <2>1, <2>3, <3>2 DEF Entries
    <3>3. CASE i = n /\ j \in DOMAIN list
      BY <1>2, <2>1, <2>3, <3>3 DEF Entries
    <3>4. QED
      BY <2>1, <3>1, <3>2, <3>3
  <2>4. t \in Injection(1..n, Domains)
    <3>1. t \in [1..n -> Domains]
      BY <2>1
    <3>2. QED
      BY <2>3, <3>1 DEF Injection, IsInjective
  <2> HIDE DEF n
  <2>5. Cardinality(1..n) <= Cardinality(Domains)
    BY <2>4, FS_Injection DEF EnoughRoom
  <2>6. Cardinality(1..n) = n /\ Cardinality(Domains) \in Nat
    <3>1. ASSUME NEW m \in Nat PROVE Cardinality(1..m) = m
      BY FS_Interval
    <3>2. QED
      BY <2>1, <3>1, FS_CardinalityType DEF EnoughRoom
  <2>7. Len(list) < FaultSlots
    BY <2>1, <2>5, <2>6, EngineConstants DEF EngineConstants, EnoughRoom, n
  <2>8. Fault(list, dom) = t
    BY <1>2, <2>7 DEF Fault, t
  <2>9. Distinct(t)
    BY <2>1, <2>3 DEF Distinct
  <2>10. QED
    BY <1>2, <2>2, <2>8, <2>9
<1>3. QED
  BY <1>1, <1>2

(* The engine holds no more batches than the device has entries. *)
LEMMA EngineAccepts ==
  ASSUME EnoughRoom, PageInv, EngineInv, Len(entries) < Depth
  PROVE  Accepts
<1>1. /\ pending \in Seq(Batch) /\ Len(pending) \in Nat /\ Depth \in Nat /\ Pending \in Nat
      /\ entries \in Seq(QueueEntry) /\ Len(entries) \in Nat
  BY EngineConstants, PageConstants
     DEF EngineConstants, PageConstants, PageInv, TypeOK, EngineTypeOK, DeviceTypeOK
<1> DEFINE n == Len(pending)
           place == [i \in 1..n |-> CHOOSE k \in DOMAIN entries : entries[k].batch = pending[i].batch]
<1>2. DOMAIN pending = 1..n /\ DOMAIN entries = 1..Len(entries)
  BY <1>1
<1>3. ASSUME NEW i \in 1..n PROVE \E k \in DOMAIN entries : entries[k].batch = pending[i].batch
  <2>1. pending[i] \in Entries(pending)
    BY <1>2 DEF Entries
  <2>2. Ours(pending[i])
    BY <2>1, EngineNumbers DEF EngineInv, GenerationInv, Ours
  <2>3. pending[i] \in Held
    BY <2>1, <2>2 DEF Held
  <2>4. QED
    BY <2>3 DEF EngineInv, OwnInv, Entries
<1>4. \A i \in 1..n : place[i] \in DOMAIN entries /\ entries[place[i]].batch = pending[i].batch
  BY <1>3
<1>5. \A i, j \in 1..n : i < j => pending[i].batch < pending[j].batch
  BY <1>2 DEF EngineInv, LineInv, Ahead, Entries
<1>6. \A i \in 1..n : pending[i].batch \in Nat
  BY <1>2, EngineNumbers DEF Entries
<1>7. place \in Injection(1..n, 1..Len(entries))
  <2>1. place \in [1..n -> 1..Len(entries)]
    BY <1>2, <1>4
  <2>2. ASSUME NEW i \in 1..n, NEW j \in 1..n, place[i] = place[j] PROVE i = j
    <3>1. pending[i].batch = pending[j].batch
      BY <1>4, <2>2
    <3> HIDE DEF place
    <3>2. ~(i < j) /\ ~(j < i)
      BY <1>5, <1>6, <3>1
    <3>3. QED
      BY <1>1, <3>2
  <2>3. QED
    BY <2>1, <2>2 DEF Injection, IsInjective
<1> HIDE DEF place, n
<1>8. n \in Nat
  BY <1>1 DEF n
<1>9. Cardinality(1..n) <= Cardinality(1..Len(entries))
  BY <1>1, <1>7, FS_Injection, FS_Interval
<1>10. n <= Len(entries)
  <2>1. ASSUME NEW m \in Nat PROVE Cardinality(1..m) = m
    BY FS_Interval
  <2>2. Cardinality(1..n) = n /\ Cardinality(1..Len(entries)) = Len(entries)
    BY <1>1, <1>8, <2>1
  <2>3. QED
    BY <1>9, <2>2
<1>11. QED
  BY <1>1, <1>8, <1>10 DEF Accepts, EnoughRoom, n

-----------------------------------------------------------------------------
(* Steps of the engine. *)
LEMMA HeldIssued ==
  ASSUME PageInv, OutcomeInv, NEW x \in Held
  PROVE  x.batch \in DOMAIN issued /\ x.batch \in Batches
<1>1. Ours(x) /\ x \in credit \cup Entries(done) \cup running \cup Entries(pending)
  BY DEF Held
<1>2. x.batch \in Batches
  BY <1>1, EngineNumbers DEF Ours
<1>3. CASE x \in running \cup Entries(pending)
  BY <1>2, <1>3 DEF OutcomeInv, EngineInv, HistoryInv, Seen, InFlight
<1>4. CASE x \in credit \cup Entries(done)
  <2>1. x \in Entries(history) /\ ~x.reset
    BY <1>1, <1>4 DEF OutcomeInv, EngineInv, HistoryInv, Ours
  <2>2. Seen(x.batch)
    BY <2>1 DEF Seen, Executed
  <2>3. QED
    BY <1>2, <2>2 DEF OutcomeInv, EngineInv, HistoryInv
<1>5. QED
  BY <1>1, <1>2, <1>3, <1>4

LEMMA EntryIssued ==
  ASSUME PageInv, OutcomeInv
  PROVE  /\ \A e \in Entries(entries) : e.batch \in DOMAIN issued
         /\ \A f \in finishing : f.entry.batch \in DOMAIN issued
<1>1. \A f \in finishing : f.entry.batch \in DOMAIN issued
  BY DEF OutcomeInv, FinishInv, EntryIs
<1>2. \A e \in Entries(entries) : e.batch \in DOMAIN issued
  BY DEF OutcomeInv, EngineInv, TakenInv, TakenAs, EntryIs, Entries
<1>3. QED
  BY <1>1, <1>2

(* Whatever leaves the lists alone keeps all of this. *)
LEMMA FaultFrame ==
  ASSUME PageInv, OutcomeInv, FaultInv,
         UNCHANGED <<pending, running, done, engFaults, credit, generation, qFaults, finishing, entries>>,
         dpc' = "count" => dpc = "count",
         \A b \in DOMAIN issued : issued'[b] = issued[b]
  PROVE  FaultInv'
<1>1. /\ Entries(pending)' = Entries(pending) /\ Entries(done)' = Entries(done)
      /\ Entries(engFaults)' = Entries(engFaults) /\ Entries(qFaults)' = Entries(qFaults)
      /\ Entries(entries)' = Entries(entries) /\ \A x : Ours(x)' <=> Ours(x)
  BY DEF Entries, Ours
<1>2. Held' = Held /\ Finished' = Finished
  BY <1>1 DEF Held, Finished
<1>3. \A d : Spoiled(d)' <=> Spoiled(d)
  BY <1>1, <1>2 DEF Spoiled
<1>4. EngineFaultInv'
  BY <1>1, <1>2 DEF FaultInv, EngineFaultInv, Distinct
<1>5. HostFaultInv'
  BY <1>1, <1>3 DEF FaultInv, HostFaultInv, Distinct
<1>6. DomainInv'
  BY <1>1, <1>2, HeldIssued, EntryIssued DEF FaultInv, DomainInv
<1>7. QED
  BY <1>4, <1>5, <1>6 DEF FaultInv

LEMMA ListTypes ==
  ASSUME PageInv
  PROVE  /\ engFaults \in Seq(Domains) /\ qFaults \in Seq(Domains) /\ NoDomain \notin Domains
         /\ Entries(engFaults) \subseteq Domains /\ Entries(qFaults) \subseteq Domains
BY EngineConstants DEF EngineConstants, PageInv, TypeOK, EngineTypeOK, DeviceTypeOK, Entries

LEMMA TakeFaults ==
  ASSUME PageInv, OutcomeInv, FaultInv, Take, UNCHANGED <<deviceVars, generation, issued>>
  PROVE  FaultInv'
<1> DEFINE p == Head(pending)
           r == IF Skips(p) THEN [p EXCEPT !.error = "skipped"] ELSE p
<1>1. /\ running = {} /\ pending # <<>> /\ pending' = Tail(pending) /\ running' = {r}
      /\ UNCHANGED <<done, engFaults, credit, qFaults, finishing, entries, dpc>>
  BY DEF Take, CanTake, deviceVars
<1>2. Entries(pending) = {p} \cup Entries(pending') /\ p \in Batch
  BY <1>1, TailEntries DEF PageInv, TypeOK, EngineTypeOK
<1>3. /\ r.batch = p.batch /\ r.gen = p.gen /\ r.dom = p.dom
      /\ IF Skips(p) THEN r.error = "skipped" ELSE r.error = p.error
  BY <1>2 DEF Batch
<1> HIDE DEF p, r
<1>4. /\ Entries(pending)' = Entries(pending') /\ Entries(done)' = Entries(done)
      /\ Entries(engFaults)' = Entries(engFaults) /\ Entries(qFaults)' = Entries(qFaults)
      /\ Entries(entries)' = Entries(entries) /\ \A x : Ours(x)' <=> Ours(x)
  BY <1>1 DEF Entries, Ours
<1>5. Finished' = Finished /\ (Ours(r) <=> Ours(p))
  BY <1>1, <1>3, <1>4 DEF Finished, Ours
<1>6. r.error = "none" => r.dom \notin Entries(engFaults)
  <2>1. CASE Skips(p)
    BY <1>3, <2>1
  <2>2. CASE ~Skips(p)
    BY <1>3, <2>2, ListTypes DEF Skips, Faulted
  <2>3. QED
    BY <2>1, <2>2
<1>7. EngineFaultInv'
  BY <1>1, <1>4, <1>5, <1>6 DEF FaultInv, EngineFaultInv, Distinct
<1>8. ASSUME NEW d, Spoiled(d) PROVE Spoiled(d)'
  <2>1. Ours(r) /\ r.dom = d => r.error # "none"
    <3> SUFFICES ASSUME Ours(r), r.dom = d, r.error = "none" PROVE FALSE
      OBVIOUS
    <3>1. p.error = "none" /\ Ours(p) /\ p.dom = d /\ p \in Entries(pending)
      BY <1>2, <1>3, <1>5
    <3>2. d \in Entries(engFaults)
      BY <1>8, <3>1 DEF Spoiled
    <3>3. QED
      BY <1>6, <3>2
  <2>2. QED
    BY <1>1, <1>2, <1>4, <1>5, <1>8, <2>1 DEF Spoiled
<1>9. HostFaultInv'
  BY <1>1, <1>4, <1>8 DEF FaultInv, HostFaultInv, Distinct
<1>10. DomainInv'
  <2>1. ASSUME NEW y \in Held' PROVE y.dom = issued[y.batch].dom
    <3>1. y = r \/ y \in Held
      BY <1>1, <1>2, <1>4 DEF Held
    <3>2. CASE y = r
      <4>1. p \in Held
        BY <1>2, <1>4, <1>5, <3>2 DEF Held
      <4>2. QED
        BY <1>3, <3>2, <4>1 DEF FaultInv, DomainInv
    <3>3. CASE y \in Held
      BY <3>3 DEF FaultInv, DomainInv
    <3>4. QED
      BY <3>1, <3>2, <3>3
  <2>2. QED
    BY <1>1, <1>4, <2>1 DEF FaultInv, DomainInv
<1>11. QED
  BY <1>7, <1>9, <1>10 DEF FaultInv

LEMMA CompleteFaults ==
  ASSUME EnoughRoom, PageInv, OutcomeInv, FaultInv, NEW result \in Outcome, Complete(result),
         UNCHANGED <<deviceVars, generation, issued>>
  PROVE  FaultInv'
<1>1. PICK b \in running :
        /\ result \in RunResults(b)
        /\ engFaults' = IF result # "none" /\ ~reset THEN Fault(engFaults, b.dom) ELSE engFaults
        /\ PushDone([batch |-> b.batch, gen |-> b.gen, dom |-> b.dom, error |-> result,
                     reset |-> FALSE])
        /\ running' = {} /\ UNCHANGED <<pending, reset, ticket, packets>>
  BY DEF Complete
<1> DEFINE c == [batch |-> b.batch, gen |-> b.gen, dom |-> b.dom, error |-> result, reset |-> FALSE]
<1>2. b \in Batch /\ b.dom \in Domains \cup {NoDomain}
  BY EngineNumbers DEF Batch
<1>3. /\ c \in Completion /\ c.batch = b.batch /\ c.gen = b.gen /\ c.dom = b.dom /\ c.error = result
      /\ b.error # "none" => result = b.error
  BY <1>1, <1>2 DEF Batch, Completion, RunResults
<1> HIDE DEF c
<1>4. Entries(done') \subseteq Entries(done) \cup {c} /\ c \in Entries(done')
  <2>1. PushDone(c)
    BY <1>1 DEF c
  <2>2. QED
    BY <1>3, <2>1, PushEffect DEF PageInv, TypeOK
<1>5. UNCHANGED <<credit, qFaults, finishing, entries, dpc>>
  BY DEF deviceVars
<1>6. /\ Entries(pending)' = Entries(pending) /\ Entries(done)' = Entries(done')
      /\ Entries(engFaults)' = Entries(engFaults') /\ Entries(qFaults)' = Entries(qFaults)
      /\ Entries(entries)' = Entries(entries) /\ \A x : Ours(x)' <=> Ours(x)
  BY <1>1, <1>5 DEF Entries, Ours
<1>7. /\ Finished' \subseteq Finished \cup {c} /\ (Ours(c) <=> Ours(b))
      /\ \A x \in Finished' : Ours(x)
  BY <1>3, <1>4, <1>5, <1>6 DEF Finished, Ours
<1>8. /\ Distinct(engFaults') /\ Entries(engFaults) \subseteq Entries(engFaults')
      /\ Ours(b) /\ result # "none" /\ b.dom # NoDomain => b.dom \in Entries(engFaults')
  <2>1. /\ Distinct(Fault(engFaults, b.dom))
        /\ Entries(Fault(engFaults, b.dom)) = Entries(engFaults) \cup ({b.dom} \ {NoDomain})
    BY <1>2, ListTypes, FaultAdds DEF FaultInv, EngineFaultInv
  <2>2. Ours(b) => ~reset
    BY DEF OutcomeInv, EngineInv, GenerationInv, Ours
  <2>3. QED
    BY <1>1, <2>1, <2>2 DEF FaultInv, EngineFaultInv
<1>9. Ours(b) => \A x \in Finished : x.batch < b.batch
  BY DEF OutcomeInv, EngineInv, LineInv, Finished
<1>10. EngineFaultInv'
  <2>1. ASSUME NEW x \in Finished', x.error # "none", x.dom # NoDomain PROVE x.dom \in Entries(engFaults')
    BY <1>3, <1>7, <1>8, <2>1 DEF FaultInv, EngineFaultInv
  <2>2. ASSUME NEW x \in Finished', NEW y \in Finished', x.batch < y.batch, x.dom = y.dom,
               x.dom # NoDomain, x.error # "none"
        PROVE  y.error # "none"
    <3>1. CASE x \in Finished /\ y \in Finished
      BY <2>2, <3>1 DEF FaultInv, EngineFaultInv
    <3>2. CASE x \in Finished /\ y = c
      <4>1. x.dom \in Entries(engFaults) /\ Ours(b)
        BY <1>7, <2>2, <3>2 DEF FaultInv, EngineFaultInv
      <4>2. b.error # "none"
        BY <1>3, <2>2, <3>2, <4>1 DEF FaultInv, EngineFaultInv
      <4>3. QED
        BY <1>3, <3>2, <4>2
    <3>3. CASE x = c
      <4>1. b.batch \in Nat /\ \A z \in Finished : z.batch \in Nat
        BY EngineNumbers DEF Finished
      <4>2. QED
        BY <1>3, <1>7, <1>9, <2>2, <3>3, <4>1 DEF Finished
    <3>4. QED
      BY <1>7, <3>1, <3>2, <3>3
  <2>3. QED
    BY <1>1, <1>6, <1>8, <2>1, <2>2 DEF EngineFaultInv, Distinct
<1>11. ASSUME NEW d, Spoiled(d) PROVE Spoiled(d)'
  <2>1. Ours(c) /\ c.dom = d => c.error # "none"
    BY <1>3, <1>7, <1>11 DEF Spoiled
  <2>2. QED
    BY <1>1, <1>6, <1>7, <1>8, <1>11, <2>1 DEF Spoiled
<1>12. HostFaultInv'
  BY <1>5, <1>6, <1>11 DEF FaultInv, HostFaultInv, Distinct
<1>13. DomainInv'
  <2>1. ASSUME NEW y \in Held' PROVE y.dom = issued[y.batch].dom
    <3>1. y = c \/ y \in Held
      BY <1>1, <1>4, <1>5, <1>6 DEF Held
    <3>2. CASE y = c
      <4>1. b \in Held
        BY <1>6, <1>7, <3>2 DEF Held
      <4>2. QED
        BY <1>3, <3>2, <4>1 DEF FaultInv, DomainInv
    <3>3. CASE y \in Held
      BY <3>3 DEF FaultInv, DomainInv
    <3>4. QED
      BY <3>1, <3>2, <3>3
  <2>2. QED
    BY <1>5, <1>6, <2>1 DEF FaultInv, DomainInv
<1>14. QED
  BY <1>10, <1>12, <1>13 DEF FaultInv

LEMMA AckFaults ==
  ASSUME PageInv, OutcomeInv, FaultInv, ResetDone, UNCHANGED <<deviceVars, generation, issued>>
  PROVE  FaultInv'
<1>1. UNCHANGED <<pending, running, engFaults, credit, qFaults, finishing, entries, dpc>>
  BY DEF ResetDone, deviceVars
<1>2. \/ UNCHANGED <<reset, done, history>>
      \/ \E c \in Completion : c.batch = 0 /\ c.reset /\ c.gen = ticket /\ PushDone(c) /\ ~reset'
  BY AckEffect DEF PageInv, TypeOK
<1>3. \A x \in Entries(done') : x \in Entries(done) \/ x.batch = 0
  <2>1. CASE UNCHANGED done
    BY <2>1
  <2>2. ASSUME NEW c \in Completion, c.batch = 0, PushDone(c)
        PROVE  \A x \in Entries(done') : x \in Entries(done) \/ x.batch = 0
    BY <2>2, PushEffect DEF PageInv, TypeOK
  <2>3. QED
    BY <1>2, <2>1, <2>2
<1>4. /\ Entries(pending)' = Entries(pending) /\ Entries(done)' = Entries(done')
      /\ Entries(engFaults)' = Entries(engFaults) /\ Entries(qFaults)' = Entries(qFaults)
      /\ Entries(entries)' = Entries(entries) /\ \A x : Ours(x)' <=> Ours(x)
  BY <1>1 DEF Entries, Ours
<1>5. Finished' \subseteq Finished /\ Held' \subseteq Held
  BY <1>1, <1>3, <1>4 DEF Finished, Held, Ours
<1>6. \A d : Spoiled(d) => Spoiled(d)'
  BY <1>1, <1>4, <1>5 DEF Spoiled
<1>7. EngineFaultInv'
  BY <1>1, <1>4, <1>5 DEF FaultInv, EngineFaultInv, Distinct
<1>8. HostFaultInv' /\ DomainInv'
  BY <1>1, <1>4, <1>5, <1>6 DEF FaultInv, HostFaultInv, DomainInv, Distinct
<1>9. QED
  BY <1>7, <1>8 DEF FaultInv

LEMMA WorkerFaults ==
  ASSUME EnoughRoom, PageInv, OutcomeInv, FaultInv, Worker, UNCHANGED <<deviceVars, generation, issued>>
  PROVE  FaultInv'
<1>1. CASE ResetSnapshot
  <2>1. UNCHANGED <<pending, running, done, engFaults, credit, qFaults, finishing, entries, dpc>>
    BY <1>1 DEF ResetSnapshot, deviceVars
  <2>2. QED
    BY <2>1, FaultFrame
<1>2. QED
  BY <1>1, TakeFaults, CompleteFaults, AckFaults DEF Worker

-----------------------------------------------------------------------------
(* Steps of the device. *)
LEMMA ResetFaults ==
  ASSUME PageInv, OutcomeInv, DeviceReset, UNCHANGED issued
  PROVE  FaultInv'
<1>1. /\ dpc = "idle" /\ generation' = generation + 1 /\ pending' = <<>> /\ engFaults' = <<>>
      /\ qFaults' = <<>> /\ entries' = <<>> /\ UNCHANGED <<running, done, credit, finishing>>
  BY DEF DeviceReset, ResetAdmitted, ResetEngine
<1>2. credit = {} /\ finishing = {}
  BY <1>1 DEF PageInv, DeviceInv
<1>3. \A x \in Entries(done) \cup running : x.gen # generation + 1
  <2>1. \A x \in Entries(done) \cup running : x.gen <= generation /\ x.gen \in Nat /\ generation \in Nat
    BY EngineNumbers DEF OutcomeInv, EngineInv, GenerationInv
  <2>2. QED
    BY <2>1
<1>4. /\ Entries(pending)' = {} /\ Entries(entries)' = {} /\ Entries(qFaults)' = {}
      /\ Entries(done)' = Entries(done)
  BY <1>1 DEF Entries
<1>5. Finished' = {} /\ Held' = {} /\ \A r \in running' : ~Ours(r)'
  BY <1>1, <1>2, <1>3, <1>4 DEF Finished, Held, Ours
<1>6. EngineFaultInv' /\ HostFaultInv' /\ DomainInv'
  BY <1>1, <1>2, <1>4, <1>5 DEF EngineFaultInv, HostFaultInv, DomainInv, Distinct
<1>7. QED
  BY <1>6 DEF FaultInv

LEMMA PollFaults ==
  ASSUME PageInv, OutcomeInv, FaultInv, CompleteBegin, UNCHANGED issued
  PROVE  FaultInv'
<1>1. /\ UNCHANGED <<pending, running, engFaults, qFaults, finishing, entries, generation>>
      /\ done # <<>> /\ done' = Tail(done) /\ dpc = "idle"
      /\ credit' \subseteq {Head(done)} \cup credit
  BY DEF CompleteBegin, Poll, wireVars
<1>2. Entries(done) = {Head(done)} \cup Entries(done')
  BY <1>1, TailEntries DEF PageInv, TypeOK, EngineTypeOK
<1>3. /\ Entries(pending)' = Entries(pending) /\ Entries(done)' = Entries(done')
      /\ Entries(engFaults)' = Entries(engFaults) /\ Entries(qFaults)' = Entries(qFaults)
      /\ Entries(entries)' = Entries(entries) /\ \A x : Ours(x)' <=> Ours(x)
  BY <1>1 DEF Entries, Ours
<1>4. Finished' \subseteq Finished /\ Held' \subseteq Held
  BY <1>1, <1>2, <1>3 DEF Finished, Held
<1>5. \A d : Spoiled(d) => Spoiled(d)'
  BY <1>1, <1>3, <1>4 DEF Spoiled
<1>6. finishing' = {}
  BY <1>1 DEF PageInv, DeviceInv
<1>7. EngineFaultInv'
  BY <1>1, <1>3, <1>4 DEF FaultInv, EngineFaultInv, Distinct
<1>8. HostFaultInv' /\ DomainInv'
  BY <1>1, <1>3, <1>4, <1>5, <1>6 DEF FaultInv, HostFaultInv, DomainInv, Distinct
<1>9. QED
  BY <1>7, <1>8 DEF FaultInv

(* A synchronous entry has none behind it. *)
LEMMA QueryAlone ==
  ASSUME PageInv, OutcomeInv, SyncInv, dpc = "drain", entries # <<>>, Head(entries).query,
         TakenAs(Head(entries), completed + InHand + 1 - 1)
  PROVE  Entries(Tail(entries)) = {}
<1> DEFINE b == Head(entries).batch
<1>1. /\ consumed \in Nat /\ completed \in Nat /\ produced \in Nat /\ pgProduced \in Nat
      /\ Len(entries) \in Nat /\ entries \in Seq(QueueEntry)
  BY PageNumbers DEF PageInv, TypeOK, DeviceTypeOK
<1>2. finishing = {} /\ InHand = 0 /\ qActive /\ consumed = completed + Len(entries) /\ consumed <= pgProduced
  BY <1>1 DEF PageInv, DeviceInv, InHand
<1>3. EntryIs(b, completed) /\ ~issued[b].async
  BY <1>1, <1>2 DEF TakenAs
<1>4. active /\ OfQueue(b) /\ pgProduced = produced /\ b \in DOMAIN issued
  BY <1>3 DEF EntryIs, PageInv, IssuedInv, JoinInv, OfQueue
<1>5. Len(entries) > 0
  BY <1>1
<1>6. issued[b].index \in completed..produced - 1
  BY <1>1, <1>2, <1>3, <1>4, <1>5 DEF EntryIs
<1>7. completed = produced - 1
  BY <1>2, <1>3, <1>4, <1>6 DEF SyncInv, Awaited, EntryIs
<1>8. Len(entries) = 1
  <2>1. ASSUME NEW n \in Nat, n > 0, consumed = completed + n PROVE n = 1
    <3>1. consumed <= produced
      BY <1>2, <1>4
    <3>2. completed + n <= completed + 1
      BY <1>1, <1>7, <2>1, <3>1
    <3>3. QED
      BY <1>1, <2>1, <3>2
  <2>2. QED
    BY <1>1, <1>2, <1>5, <2>1
<1>9. Tail(entries) \in Seq(QueueEntry) /\ Len(Tail(entries)) = 0
  BY <1>1, <1>5, <1>8
<1>10. DOMAIN Tail(entries) = {}
  <2>1. ASSUME NEW t \in Seq(QueueEntry), Len(t) = 0 PROVE DOMAIN t = {}
    BY <2>1
  <2>2. QED
    BY <1>9, <2>1
<1>11. QED
  BY <1>10 DEF Entries

LEMMA CreditFaults ==
  ASSUME PageInv, OutcomeInv, SyncInv, FaultInv, CreditOldest, UNCHANGED issued
  PROVE  FaultInv'
<1>0. PICK h, rest : h = Head(entries) /\ rest = Tail(entries)
  OBVIOUS
<1>1. PICK c \in credit : \E error \in {c.error} \cup
                                        (IF c.error = "none" /\ h.query THEN {"failed"} ELSE {}) : Pop(error)
  BY <1>0 DEF CreditOldest
<1>2. PICK error : /\ error = c.error \/ (c.error = "none" /\ h.query /\ error = "failed")
                   /\ Pop(error)
  BY <1>1
<1>3. /\ dpc = "drain" /\ entries # <<>> /\ h.engine /\ credit' = {} /\ dpc' = "finish"
      /\ entries' = rest /\ finishing' = {[entry |-> h, error |-> error]}
      /\ UNCHANGED <<engineVars, qFaults, generation>>
  BY <1>0, <1>2 DEF CreditOldest, Pop
<1>4. /\ TakenAs(h, completed + InHand + 1 - 1) /\ h.batch = c.batch
      /\ c \in Held /\ Ours(c) /\ c.batch \in Nat
      /\ \A x \in Held : x = c \/ (c.batch < x.batch /\ x.batch \in Nat)
  BY <1>0, <1>3, CreditedBatch
<1>5. Entries(entries) = {h} \cup Entries(rest)
  BY <1>0, <1>3, TailEntries DEF PageInv, TypeOK, DeviceTypeOK
<1>6. h.query => Entries(rest) = {}
  BY <1>0, <1>3, <1>4, QueryAlone
<1>7. UNCHANGED <<pending, running, done, engFaults>>
  BY <1>3 DEF engineVars
<1>8. /\ Entries(pending)' = Entries(pending) /\ Entries(done)' = Entries(done)
      /\ Entries(engFaults)' = Entries(engFaults) /\ Entries(qFaults)' = Entries(qFaults)
      /\ Entries(entries)' = Entries(rest) /\ \A x : Ours(x)' <=> Ours(x)
  BY <1>3, <1>7 DEF Entries, Ours
<1>9. Finished' \subseteq Finished /\ Held' \subseteq Held
  BY <1>3, <1>7, <1>8 DEF Finished, Held
<1>10. \A d : Spoiled(d) => Spoiled(d)'
  BY <1>7, <1>8, <1>9 DEF Spoiled
<1>11. EngineFaultInv'
  BY <1>7, <1>8, <1>9 DEF FaultInv, EngineFaultInv, Distinct
<1>12. h.dom = c.dom /\ h.dom = issued[h.batch].dom
  BY <1>4, <1>5 DEF FaultInv, DomainInv
<1>13. c \in Finished
  BY <1>4 DEF Finished
<1>14. \A x \in Held' : c.batch < x.batch
  <2>1. ASSUME NEW x \in Held', x = c PROVE FALSE
    <3>1. x \in Entries(done) \cup running \cup Entries(pending)
      BY <1>3, <1>7, <1>8, <2>1 DEF Held
    <3>2. c.batch < x.batch
      BY <1>4, <2>1, <3>1 DEF OutcomeInv, EngineInv, LineInv
    <3>3. QED
      BY <1>4, <2>1, <3>2
  <2>2. QED
    BY <1>4, <1>9, <2>1
<1>15. ASSUME h.dom # NoDomain, error # "none" PROVE Spoiled(h.dom)'
  <2>1. CASE error = c.error
    <3>1. h.dom \in Entries(engFaults)
      BY <1>12, <1>13, <1>15, <2>1 DEF FaultInv, EngineFaultInv
    <3>2. ASSUME NEW x \in Finished', x.dom = h.dom PROVE x.error # "none"
      <4>1. x \in Held' /\ x \in Finished
        BY <1>9, <3>2 DEF Finished, Held
      <4>2. QED
        BY <1>12, <1>13, <1>14, <1>15, <2>1, <3>2, <4>1 DEF FaultInv, EngineFaultInv
    <3>3. ASSUME NEW x \in running, Ours(x), x.dom = h.dom PROVE x.error # "none"
      BY <3>1, <3>3 DEF FaultInv, EngineFaultInv
    <3>4. \A x \in Finished' \cup running' : Ours(x)' /\ x.dom = h.dom => x.error # "none"
      BY <1>7, <1>8, <3>2, <3>3
    <3>5. h.dom \in Entries(engFaults)'
      BY <1>8, <3>1
    <3>6. QED
      BY <3>4, <3>5 DEF Spoiled
  <2>2. CASE h.query
    <3>1. ASSUME NEW x \in Held' PROVE FALSE
      <4>1. PICK e \in Entries(entries) : e.batch = x.batch
        BY <1>9 DEF OutcomeInv, EngineInv, OwnInv
      <4>2. e = h
        BY <1>5, <1>6, <2>2, <4>1
      <4>3. c.batch < x.batch /\ x.batch = c.batch
        BY <1>4, <1>14, <4>1, <4>2
      <4>4. QED
        BY <1>4, <4>3
    <3>2. QED
      BY <3>1 DEF Spoiled, Finished, Held
  <2>3. QED
    BY <1>2, <2>1, <2>2
<1>16. ASSUME h.dom # NoDomain, error = "none" PROVE h.dom \notin Entries(qFaults)
  <2>1. c.error = "none"
    BY <1>2, <1>16
  <2>2. QED
    BY <1>4, <1>12, <1>13, <2>1 DEF FaultInv, HostFaultInv, Spoiled
<1>17. \A f \in finishing' : f.entry = h /\ f.error = error
  BY <1>3
<1>18. HostFaultInv'
  <2>1. Distinct(qFaults')
    BY <1>3 DEF FaultInv, HostFaultInv
  <2>2. \A d \in Entries(qFaults)' : Spoiled(d)'
    BY <1>8, <1>10 DEF FaultInv, HostFaultInv
  <2>3. ASSUME NEW f \in finishing', f.entry.dom # NoDomain
        PROVE  /\ f.error # "none" => Spoiled(f.entry.dom)'
               /\ f.error = "none" => f.entry.dom \notin Entries(qFaults)'
               /\ dpc' # "count"
    BY <1>3, <1>8, <1>15, <1>16, <1>17, <2>3
  <2>4. QED
    BY <2>1, <2>2, <2>3 DEF HostFaultInv, Distinct
<1>19. DomainInv'
  BY <1>5, <1>8, <1>9, <1>12, <1>17 DEF FaultInv, DomainInv
<1>20. QED
  BY <1>11, <1>18, <1>19 DEF FaultInv

LEMMA FinishFaults ==
  ASSUME EnoughRoom, PageInv, OutcomeInv, FaultInv, FinishStatus \/ FinishCount, UNCHANGED issued
  PROVE  FaultInv'
<1>1. UNCHANGED <<pending, running, done, engFaults, credit, generation, entries>>
  BY DEF FinishStatus, FinishCount, engineVars, wireVars
<1>2. /\ Entries(pending)' = Entries(pending) /\ Entries(done)' = Entries(done)
      /\ Entries(engFaults)' = Entries(engFaults)
      /\ Entries(entries)' = Entries(entries) /\ \A x : Ours(x)' <=> Ours(x)
  BY <1>1 DEF Entries, Ours
<1>3. Held' = Held /\ Finished' = Finished
  BY <1>1, <1>2 DEF Held, Finished
<1>4. \A d : Spoiled(d)' <=> Spoiled(d)
  BY <1>1, <1>2, <1>3 DEF Spoiled
<1>5. EngineFaultInv'
  BY <1>1, <1>2, <1>3 DEF FaultInv, EngineFaultInv, Distinct
<1>6. CASE FinishCount
  <2>1. finishing' = {} /\ qFaults' = qFaults
    BY <1>6 DEF FinishCount
  <2>2. Entries(qFaults)' = Entries(qFaults)
    BY <2>1 DEF Entries
  <2>3. HostFaultInv' /\ DomainInv'
    BY <1>1, <1>2, <1>3, <1>4, <2>1, <2>2 DEF FaultInv, HostFaultInv, DomainInv, Distinct
  <2>4. QED
    BY <1>5, <2>3 DEF FaultInv
<1>7. CASE FinishStatus
  <2>1. PICK f \in finishing : qFaults' = IF f.error # "none" THEN Fault(qFaults, f.entry.dom) ELSE qFaults
    BY <1>7 DEF FinishStatus
  <2>2. finishing' = finishing /\ finishing = {f}
    BY <1>7 DEF FinishStatus, PageInv, DeviceInv, AtMostOne
  <2>3. f.entry.dom \in Domains \cup {NoDomain}
    BY DEF PageInv, TypeOK, DeviceTypeOK, QueueEntry
  <2>4. /\ Distinct(Fault(qFaults, f.entry.dom))
        /\ Entries(Fault(qFaults, f.entry.dom)) = Entries(qFaults) \cup ({f.entry.dom} \ {NoDomain})
    BY <2>3, ListTypes, FaultAdds DEF FaultInv, HostFaultInv
  <2>5. /\ Distinct(qFaults') /\ Entries(qFaults)' = Entries(qFaults')
        /\ Entries(qFaults') \subseteq Entries(qFaults) \cup {f.entry.dom}
        /\ f.error = "none" => qFaults' = qFaults
        /\ f.error # "none" => Entries(qFaults') = Entries(qFaults) \cup ({f.entry.dom} \ {NoDomain})
    BY <2>1, <2>4 DEF FaultInv, HostFaultInv, Entries
  <2>6. ASSUME NEW d \in Entries(qFaults') PROVE Spoiled(d)'
    <3>1. CASE d \in Entries(qFaults)
      BY <1>4, <3>1 DEF FaultInv, HostFaultInv
    <3>2. CASE d \notin Entries(qFaults)
      <4>1. f.error # "none" /\ d = f.entry.dom /\ d # NoDomain
        BY <2>5, <3>2
      <4>2. QED
        BY <1>4, <4>1 DEF FaultInv, HostFaultInv
    <3>3. QED
      BY <3>1, <3>2
  <2>7. HostFaultInv'
    BY <1>4, <2>2, <2>5, <2>6 DEF FaultInv, HostFaultInv, Distinct
  <2>8. DomainInv'
    BY <1>1, <1>2, <1>3, <2>2 DEF FaultInv, DomainInv
  <2>9. QED
    BY <1>5, <2>7, <2>8 DEF FaultInv
<1>8. QED
  BY <1>6, <1>7

LEMMA ConsumeFaults ==
  ASSUME EnoughRoom, PageInv, HeadInv, OutcomeInv, FaultInv, ConsumeEntry, UNCHANGED driverVars
  PROVE  FaultInv'
<1>1. YoungInv
  BY DEF OutcomeInv, EngineInv
<1>2. /\ finishing = {} /\ credit = {} /\ dpc = "take" /\ Len(entries) < Depth
      /\ UNCHANGED <<pageVars, wireVars, credit, qFaults>>
  BY <1>1, ConsumeEffect
<1>3. PICK b, q : TakesUp(b, q) /\
        \/ Submits(b, q) /\ entries' = Append(entries, q) /\ UNCHANGED <<dpc, finishing>>
        \/ /\ ~q.engine /\ q.error # "none" /\ entries' = Append(entries, q)
           /\ Refusals \/ ~Accepts
           /\ UNCHANGED <<engineVars, dpc, finishing>>
        \/ /\ entries = <<>> /\ q.error # "none" /\ UNCHANGED <<engineVars, entries>>
           /\ finishing' = {[entry |-> q, error |-> q.error]} /\ dpc' = "finish"
  BY <1>1, ConsumeEffect
<1>4. Accepts /\ ~Refusals
  BY <1>2, EngineAccepts DEF OutcomeInv, EnoughRoom
<1>5. /\ q \in QueueEntry /\ q.batch = b /\ q.dom = issued[b].dom /\ q.dom \in Domains \cup {NoDomain}
      /\ q.error = "skipped" <=> Faulted(qFaults, q.dom)
  BY <1>3 DEF TakesUp, QueueEntry
<1>6. UNCHANGED <<issued, generation>>
  BY <1>2 DEF driverVars, wireVars
<1>7. Entries(qFaults)' = Entries(qFaults) /\ \A x : Ours(x)' <=> Ours(x)
  BY <1>2, <1>6 DEF Entries, Ours
<1>8. CASE Submits(b, q) /\ entries' = Append(entries, q) /\ UNCHANGED <<dpc, finishing>>
  <2>1. PICK p \in Batch : p.batch = b /\ p.gen = generation /\ p.dom = q.dom /\ p.error = q.error
                           /\ pending' = Append(pending, p)
    BY <1>8 DEF Submits
  <2>2. UNCHANGED <<running, done, engFaults>> /\ q.engine
    BY <1>8 DEF Submits
  <2>3. /\ Entries(pending') = Entries(pending) \cup {p} /\ Entries(entries') = Entries(entries) \cup {q}
    BY <1>5, <1>8, <2>1, AppendEntries DEF PageInv, TypeOK, EngineTypeOK, DeviceTypeOK
  <2>4. /\ Entries(pending)' = Entries(pending) \cup {p} /\ Entries(entries)' = Entries(entries) \cup {q}
        /\ Entries(done)' = Entries(done) /\ Entries(engFaults)' = Entries(engFaults)
    BY <2>2, <2>3 DEF Entries
  <2>5. Finished' = Finished /\ Held' \subseteq Held \cup {p}
    BY <1>2, <1>7, <2>2, <2>4 DEF Finished, Held
  <2>6. EngineFaultInv'
    BY <1>7, <2>2, <2>4, <2>5 DEF FaultInv, EngineFaultInv, Distinct
  <2>7. ASSUME NEW d \in Entries(qFaults) PROVE Spoiled(d)'
    <3>1. Spoiled(d) /\ d # NoDomain
      BY ListTypes DEF FaultInv, HostFaultInv
    <3>2. p.dom = d => p.error # "none"
      BY <1>5, <2>1, <3>1 DEF Faulted
    <3>3. QED
      BY <1>7, <2>2, <2>4, <2>5, <3>1, <3>2 DEF Spoiled
  <2>8. HostFaultInv'
    BY <1>2, <1>7, <1>8, <2>7 DEF FaultInv, HostFaultInv, Distinct
  <2>9. DomainInv'
    BY <1>2, <1>5, <1>6, <1>8, <2>1, <2>2, <2>4, <2>5 DEF FaultInv, DomainInv
  <2>10. QED
    BY <2>6, <2>8, <2>9 DEF FaultInv
<1>9. CASE entries = <<>> /\ q.error # "none" /\ UNCHANGED <<engineVars, entries>>
           /\ finishing' = {[entry |-> q, error |-> q.error]} /\ dpc' = "finish"
  <2>1. Entries(entries) = {} /\ Held = {}
    BY <1>9 DEF OutcomeInv, EngineInv, OwnInv, Entries
  <2>2. UNCHANGED <<pending, running, done, engFaults>>
    BY <1>9 DEF engineVars
  <2>3. /\ Entries(pending)' = Entries(pending) /\ Entries(entries)' = Entries(entries)
        /\ Entries(done)' = Entries(done) /\ Entries(engFaults)' = Entries(engFaults)
    BY <1>9, <2>2 DEF Entries
  <2>4. Finished' = Finished /\ Held' = Held
    BY <1>2, <1>7, <2>2, <2>3 DEF Finished, Held
  <2>5. EngineFaultInv'
    BY <1>7, <2>2, <2>3, <2>4 DEF FaultInv, EngineFaultInv, Distinct
  <2>6. ASSUME NEW d PROVE Spoiled(d)'
    <3>1. Finished = {} /\ (\A x \in running : ~Ours(x)) /\ (\A x \in Entries(pending) : ~Ours(x))
      BY <2>1 DEF Held, Finished
    <3>2. QED
      BY <1>7, <2>2, <2>3, <2>4, <3>1 DEF Spoiled
  <2>7. \A f \in finishing' : f.entry = q /\ f.error = q.error
    BY <1>9
  <2>8. HostFaultInv'
    BY <1>2, <1>7, <1>9, <2>6, <2>7 DEF FaultInv, HostFaultInv, Distinct
  <2>9. DomainInv'
    BY <1>5, <1>6, <2>1, <2>3, <2>4, <2>7 DEF DomainInv
  <2>10. QED
    BY <2>5, <2>8, <2>9 DEF FaultInv
<1>10. QED
  BY <1>3, <1>4, <1>8, <1>9

LEMMA HandlerFaults ==
  ASSUME PageInv, OutcomeInv, FaultInv, UNCHANGED issued,
         ConsumeBegin \/ ConsumeEnd \/ CompleteEnd \/ ReadWait \/ CompareWait
  PROVE  FaultInv'
<1>1. /\ UNCHANGED <<engineVars, generation, qFaults, finishing, entries>>
      /\ dpc' # "count"
  <2>1. CASE ConsumeBegin
    BY <2>1 DEF ConsumeBegin
  <2>2. CASE ConsumeEnd \/ CompleteEnd \/ ReadWait \/ CompareWait
    BY <2>2 DEF ConsumeEnd, CompleteEnd, ReadWait, CompareWait, wireVars
  <2>3. QED
    BY <2>1, <2>2
<1>2. UNCHANGED credit
  <2>1. CASE CompleteEnd
    <3>1. CASE entries = <<>>
      <4>1. Held = {}
        BY <3>1 DEF OutcomeInv, EngineInv, OwnInv, Entries
      <4>2. credit = {}
        BY <4>1 DEF Held, OutcomeInv, EngineInv, GenerationInv
      <4>3. QED
        BY <2>1, <4>2 DEF CompleteEnd
    <3>2. QED
      BY <2>1, <3>1 DEF CompleteEnd, Drained
  <2>2. QED
    BY <2>1 DEF ConsumeBegin, ConsumeEnd, ReadWait, CompareWait
<1>3. UNCHANGED <<pending, running, done, engFaults>>
  BY <1>1 DEF engineVars
<1>4. QED
  BY <1>1, <1>2, <1>3, FaultFrame

LEMMA DeviceFaults ==
  ASSUME EnoughRoom, PageInv, HeadInv, OutcomeInv, SyncInv, FaultInv, DeviceStep
  PROVE  FaultInv'
<1>1. UNCHANGED issued /\ UNCHANGED driverVars
  BY DEF DeviceStep, driverVars
<1>2. ~DrainUnowned
  <2> SUFFICES ASSUME DrainUnowned PROVE FALSE
    OBVIOUS
  <2>1. entries # <<>> /\ ~Head(entries).engine
    BY DEF DrainUnowned
  <2>2. Head(entries) \in Entries(entries)
    BY <2>1, TailEntries DEF PageInv, TypeOK, DeviceTypeOK
  <2>3. QED
    BY <2>1, <2>2 DEF FaultInv, DomainInv
<1>3. CASE ConsumeEntry
  BY <1>1, <1>3, ConsumeFaults
<1>4. CASE CompleteBegin
  BY <1>1, <1>4, PollFaults
<1>5. CASE CreditOldest
  BY <1>1, <1>5, CreditFaults
<1>6. CASE FinishStatus \/ FinishCount
  BY <1>1, <1>6, FinishFaults
<1>7. CASE ConsumeBegin \/ ConsumeEnd \/ CompleteEnd \/ ReadWait \/ CompareWait
  BY <1>1, <1>7, HandlerFaults
<1>8. QED
  BY <1>2, <1>3, <1>4, <1>5, <1>6, <1>7 DEF DeviceStep, Device

LEMMA IssuedGrows ==
  ASSUME PageInv, Fill
  PROVE  \A b \in DOMAIN issued : b \in DOMAIN issued' /\ issued'[b] = issued[b]
<1>1. issued' = issued \/ \E x : issued' = Append(issued, x)
  BY DEF Fill
<1>2. issued \in Seq(Issued_)
  BY DEF PageInv, TypeOK, DriverTypeOK
<1>3. ASSUME NEW x, NEW b \in DOMAIN issued
      PROVE  b \in DOMAIN Append(issued, x) /\ Append(issued, x)[b] = issued[b]
  BY <1>2
<1>4. QED
  BY <1>1, <1>3

(* The driver adds to what was issued, and changes nothing of it. *)
LEMMA DriverIssues ==
  ASSUME PageInv, Call \/ Proceed
  PROVE  /\ UNCHANGED <<engineVars, deviceVars, generation>>
         /\ \A b \in DOMAIN issued : b \in DOMAIN issued' /\ issued'[b] = issued[b]
<1>1. UNCHANGED <<engineVars, deviceVars>>
  BY DEF Call, Proceed
<1>2. CASE StaysStep
  <2>1. Moves
    BY <1>1, <1>2, StaysTypes
  <2>2. QED
    BY <1>1, <2>1 DEF Moves, Counting
<1>3. CASE ReapBegin \/ ReapOne \/ LoseOne \/ EnableStores \/ Enabled(qActive) \/ Publish
  BY <1>1, <1>3 DEF ReapBegin, ReapOne, LoseOne, EnableStores, Enabled, Publish, PageUntouched, wireVars
<1>4. CASE Fill
  BY <1>1, <1>4, IssuedGrows DEF Fill, wireVars
<1>5. QED
  BY <1>2, <1>3, <1>4 DEF Call, Proceed, StaysStep

LEMMA FaultStep ==
  ASSUME EnoughRoom, PageInv, HeadInv, OutcomeInv, SyncInv, FaultInv, [Next]_vars
  PROVE  FaultInv'
<1>1. CASE Call \/ Proceed
  <2>1. /\ UNCHANGED <<engineVars, deviceVars, generation>>
        /\ \A b \in DOMAIN issued : issued'[b] = issued[b]
    BY <1>1, DriverIssues
  <2>2. UNCHANGED <<pending, running, done, engFaults, credit, qFaults, finishing, entries, dpc>>
    BY <2>1 DEF engineVars, deviceVars
  <2>3. QED
    BY <2>1, <2>2, FaultFrame
<1>2. CASE ControlStep
  <2>1. /\ UNCHANGED <<pending, running, done, engFaults, credit, qFaults, finishing, entries, dpc>>
        /\ UNCHANGED <<generation, issued>>
    BY <1>2 DEF ControlStep, WriteControl, engineVars, wireVars
  <2>2. QED
    BY <2>1, FaultFrame
<1>3. CASE InterruptStep \/ UNCHANGED vars
  <2>1. /\ UNCHANGED <<pending, running, done, engFaults, credit, qFaults, finishing, entries, dpc>>
        /\ UNCHANGED <<generation, issued>>
    BY <1>3 DEF InterruptStep, Interrupt, vars, engineVars, deviceVars, wireVars, driverVars
  <2>2. QED
    BY <2>1, FaultFrame
<1>4. CASE DeviceStep
  BY <1>4, DeviceFaults
<1>5. CASE ResetStep
  BY <1>5, ResetFaults DEF ResetStep, driverVars
<1>6. CASE WorkerStep
  <2>1. Worker /\ UNCHANGED <<deviceVars, generation, issued>>
    BY <1>6 DEF WorkerStep, EngineStep, wireVars, driverVars
  <2>2. QED
    BY <2>1, WorkerFaults
<1>7. QED
  BY <1>1, <1>2, <1>3, <1>4, <1>5, <1>6 DEF Next, Quiet

LEMMA FaultInit == Init => FaultInv
<1> SUFFICES ASSUME Init PROVE FaultInv
  OBVIOUS
<1>1. /\ pending = <<>> /\ running = {} /\ done = <<>> /\ engFaults = <<>> /\ qFaults = <<>>
      /\ entries = <<>> /\ credit = {} /\ finishing = {}
  BY DEF Init, EngineInit, DeviceInit
<1>2. /\ Entries(pending) = {} /\ Entries(done) = {} /\ Entries(engFaults) = {} /\ Entries(qFaults) = {}
      /\ Entries(entries) = {}
  BY <1>1 DEF Entries
<1>3. Finished = {} /\ Held = {}
  BY <1>1, <1>2 DEF Finished, Held
<1>4. QED
  BY <1>1, <1>2, <1>3 DEF FaultInv, EngineFaultInv, HostFaultInv, DomainInv, Distinct

-----------------------------------------------------------------------------
(* A request that waits for its entry goes on waiting for it, unless the watchdog
   stops the driver. *)
LEMMA SyncFrame ==
  ASSUME PageInv, SyncInv, UNCHANGED driverVars, completed' \in Nat, completed' >= completed,
         qActive' => qActive
  PROVE  SyncInv'
<1>1. UNCHANGED <<active, qGeneration, produced, issued, pc, glFaulted, call, reapFor, waitFor, waited>>
  BY DEF driverVars, queueVars, clientVars, localVars
<1>2. WaitsForEntry' <=> WaitsForEntry
  BY <1>1 DEF WaitsForEntry, Waiting, Reaping
<1>3. \A b \in DOMAIN issued : Awaited(b)' => Awaited(b)
  <2>1. completed'..produced' - 1 \subseteq completed..produced - 1
    BY <1>1, PageNumbers
  <2>2. QED
    BY <1>1, <2>1 DEF Awaited, OfQueue
<1>4. QED
  BY <1>1, <1>2, <1>3 DEF SyncInv, Waiting, Reaping

LEMMA LostQueue ==
  ASSUME PageInv, pc # "enabled", ~Current
  PROVE  ~(active /\ qActive)
BY DEF PageInv, JoinInv, Current

LEMMA SyncMoves ==
  ASSUME SyncInv, Moves, pc' # "ring",
         \A b \in DOMAIN issued : active /\ qActive /\ Awaited(b) /\ WaitsForEntry => WaitsForEntry',
         (Reaping' \/ pc' = "waited") /\ waited' = "lost" => ~(active /\ qActive)
  PROVE  SyncInv'
<1>1. /\ UNCHANGED <<active, qGeneration, produced, issued, completed, qActive>>
      /\ pc' \notin {"publish", "ring"}
  BY DEF Moves, Counting, queueVars, deviceVars
<1>2. \A b \in DOMAIN issued : Awaited(b)' <=> Awaited(b)
  BY <1>1 DEF Awaited, OfQueue
<1>3. QED
  BY <1>1, <1>2 DEF SyncInv

LEMMA SyncStays ==
  ASSUME PageInv, OutcomeInv, SyncInv, StaysStep, UNCHANGED <<engineVars, deviceVars>>
  PROVE  SyncInv'
<1>1. Moves
  BY StaysTypes
<1>2. /\ ensureFor \in {"admit", "buffer"} /\ waitFor.use \in {"slot", "buffer", "entry"}
      /\ waited \in {"reached", "lost", "timeout"} /\ call.async \in BOOLEAN
  BY DEF PageInv, TypeOK, DriverTypeOK, Wait_, Call_
<1>3. CASE \/ Request \/ Ensure \/ ReadGeneration \/ Admit \/ Report \/ BufferBegin
           \/ Claim \/ ClaimBuffer \/ Answer
  <2>1. /\ pc' \notin {"ring", "waited"} /\ glFaulted' = glFaulted
        /\ ~Reaping'
        /\ WaitsForEntry => glFaulted
    <3>1. CASE Request \/ Ensure \/ ReadGeneration
      BY <1>2, <3>1 DEF Request, Ensure, ReadGeneration, At, clientVars, WaitsForEntry, Waiting, Reaping
    <3>2. CASE Admit \/ Report
      BY <3>2 DEF Admit, Report, Return, At, clientVars, WaitsForEntry, Waiting, Reaping
    <3>3. CASE BufferBegin \/ Claim \/ ClaimBuffer
      BY <3>3 DEF BufferBegin, Claim, ClaimBuffer, WaitOn, Leave, Return, At, clientVars, WaitsForEntry,
                  Waiting, Reaping
    <3>4. CASE Answer
      BY <3>4 DEF Answer, Leave, Return, At, clientVars, WaitsForEntry, Waiting, Reaping
    <3>5. QED
      BY <1>3, <3>1, <3>2, <3>3, <3>4
  <2>2. WaitsForEntry => WaitsForEntry'
    BY <2>1 DEF WaitsForEntry
  <2>3. QED
    BY <1>1, <2>1, <2>2, SyncMoves
<1>4. CASE WaitLook \/ WaitArm \/ WaitRecheck \/ Wake \/ Watchdog
  <2>1. /\ Waiting /\ glFaulted' = glFaulted /\ waitFor' = waitFor /\ pc' # "ring" /\ pc' # "waited"
        /\ \/ Waiting'
           \/ waitFor.use = "buffer" /\ pc' = "fill"
           \/ Reaping'
    BY <1>4 DEF WaitLook, WaitArm, WaitRecheck, Wake, Watchdog, WaitResult, Disarm, At, clientVars,
                localVars, Waiting, Reaping
  <2>2. WaitsForEntry => WaitsForEntry'
    BY <2>1 DEF WaitsForEntry, Waiting, Reaping
  <2>3. Reaping' /\ waited' = "lost" => ~Current
    <3>1. CASE WaitLook
      BY <3>1, <2>1 DEF WaitLook, WaitResult, Reaping
    <3>2. CASE WaitArm \/ WaitRecheck \/ Wake
      BY <3>2 DEF WaitArm, WaitRecheck, Wake, Disarm, Reaping
    <3>3. CASE Watchdog
      BY <3>3 DEF Watchdog, WaitResult, TimedOut
    <3>4. QED
      BY <1>4, <3>1, <3>2, <3>3
  <2>4. pc # "enabled"
    BY <2>1 DEF Waiting
  <2>5. QED
    BY <1>1, <2>1, <2>2, <2>3, <2>4, LostQueue, SyncMoves
<1>5. CASE Waited
  <2>1. /\ pc = "waited" /\ pc' \in {"claimBuffer", "answer", "idle"}
        /\ glFaulted => glFaulted'
    BY <1>5 DEF Waited, At, Leave, Return, clientVars
  <2>2. ASSUME NEW b \in DOMAIN issued, active, qActive, Awaited(b), WaitsForEntry PROVE WaitsForEntry'
    <3>1. glFaulted \/ waitFor.use = "entry"
      BY <2>1, <2>2 DEF WaitsForEntry
    <3>2. waited # "lost"
      BY <2>1, <2>2 DEF SyncInv
    <3>3. waitFor.use = "entry" => waited # "reached"
      <4>1. Reached("entry") => completed >= produced
        BY <2>1, <2>2 DEF OutcomeInv, AnswerInv
      <4>2. completed < produced
        <5>1. issued[b].index \in completed..produced - 1
          BY <2>2 DEF Awaited
        <5>2. completed \in Nat /\ produced \in Nat
          BY PageNumbers
        <5>3. QED
          BY ONLY <5>1, <5>2
      <4>3. QED
        BY <4>1, <4>2, PageNumbers, SMTT(30) DEF Reached
    <3>4. glFaulted \/ waited = "timeout"
      BY <1>2, <3>1, <3>2, <3>3
    <3>5. glFaulted'
      BY <1>5, <2>1, <3>4 DEF Waited
    <3>6. QED
      BY <3>5 DEF WaitsForEntry
  <2>3. ~Reaping' /\ pc' # "waited" /\ pc' # "ring"
    BY <2>1 DEF Reaping
  <2>4. QED
    BY <1>1, <2>2, <2>3, SyncMoves
<1>6. CASE Ring
  <2>1. /\ pc = "ring" /\ glFaulted' = glFaulted /\ pc' \in {"idle", "wait"}
        /\ ~call.async => pc' = "wait" /\ waitFor'.use = "entry"
    BY <1>2, <1>6 DEF Ring, At, Return, WaitOn, clientVars
  <2>2. ASSUME NEW b \in DOMAIN issued, active, qActive, Awaited(b) PROVE WaitsForEntry'
    <3>1. issued[b].index = produced - 1
      BY <2>2 DEF SyncInv
    <3>2. issued # <<>> /\ OfQueue(Len(issued)) /\ issued[Len(issued)].index = produced - 1
      BY <2>1, <2>2 DEF OutcomeInv, AnswerInv
    <3>3. Len(issued) \in DOMAIN issued
      BY <3>2 DEF PageInv, TypeOK, DriverTypeOK
    <3>4. b = Len(issued)
      BY <2>2, <3>1, <3>2, <3>3, OneIndex DEF Awaited, OfQueue
    <3>5. ~call.async
      BY <2>1, <2>2, <3>4 DEF SyncInv, Awaited
    <3>6. QED
      BY <2>1, <3>5 DEF WaitsForEntry, Waiting
  <2>3. ~Reaping' /\ pc' # "waited" /\ pc' # "ring"
    BY <2>1 DEF Reaping
  <2>4. QED
    BY <1>1, <2>2, <2>3, SyncMoves
<1>7. QED
  BY <1>3, <1>4, <1>5, <1>6 DEF StaysStep

LEMMA SyncReaps ==
  ASSUME PageInv, SyncInv, ReapBegin \/ ReapOne \/ LoseOne, UNCHANGED <<engineVars, deviceVars>>
  PROVE  SyncInv'
<1>1. /\ UNCHANGED <<qGeneration, produced, issued, completed, qActive, glFaulted, waitFor, waited, call,
                     reapFor>>
      /\ pc \in {"reap", "reaping", "lose"} /\ (active' => active)
      /\ pc' \in {"reap", "reaping", "lose", reapFor}
  BY DEF ReapBegin, ReapOne, LoseOne, At, PageUntouched, queueVars, clientVars, localVars, deviceVars
<1>2. reapFor \in {"admit", "register", "report", "claim", "waited"}
  BY DEF PageInv, TypeOK, DriverTypeOK
<1>3. pc' \notin {"publish", "ring"} /\ (Reaping' \/ pc' = "waited" => Reaping)
  BY <1>1, <1>2 DEF Reaping
<1>4a. Reaping => Reaping' \/ pc' = "waited"
  BY <1>1 DEF Reaping
<1>4b. WaitsForEntry => WaitsForEntry'
  BY <1>1, <1>4a DEF WaitsForEntry, Waiting
<1>4. \A b \in DOMAIN issued : Awaited(b)' <=> Awaited(b)
  BY <1>1 DEF Awaited, OfQueue
<1>5. active' /\ qActive' => \A b \in DOMAIN issued' :
        Awaited(b)' => issued'[b].index = produced' - 1 /\ WaitsForEntry'
  BY <1>1, <1>4, <1>4b DEF SyncInv
<1>6. (Reaping' \/ pc' = "waited") /\ waited' = "lost" => ~(active' /\ qActive')
  BY <1>1, <1>3 DEF SyncInv
<1>7. QED
  BY <1>3, <1>5, <1>6 DEF SyncInv

LEMMA SyncEnables ==
  ASSUME PageInv, SyncInv,
         \/ (EnableStores \/ Enabled(qActive)) /\ UNCHANGED <<engineVars, deviceVars>>
         \/ ControlStep
  PROVE  SyncInv'
<1>1. ensureFor \in {"admit", "buffer"} /\ completed \in Nat
  BY DEF PageInv, TypeOK, DriverTypeOK, DeviceTypeOK
<1>2. pc \in {"stores", "control", "enabled"} /\ ~active
  BY DEF PageInv, JoinInv, EnableStores, Enabled, ControlStep, WriteControl, At
<1>3. pc' \in {"control", "enabled", "admit", "buffer"}
  BY <1>1 DEF EnableStores, Enabled, ControlStep, WriteControl
<1>4. ~active' \/ (produced' = 0 /\ completed' = completed)
  BY <1>2 DEF EnableStores, Enabled, ControlStep, WriteControl, queueVars, deviceVars
<1>5. ~active' \/ \A b \in DOMAIN issued' : ~Awaited(b)'
  BY <1>1, <1>4 DEF Awaited
<1>6. QED
  BY <1>3, <1>5 DEF SyncInv, Reaping

LEMMA SyncFills ==
  ASSUME PageInv, SyncInv, Fill, UNCHANGED <<engineVars, deviceVars>>
  PROVE  SyncInv'
<1>1. /\ pc = "fill" /\ UNCHANGED <<active, qGeneration, produced, completed, qActive, glFaulted>>
      /\ pc' \in {"publish", "idle"}
  BY DEF Fill, At, Leave, Return, queueVars, deviceVars
<1>2. WaitsForEntry => glFaulted
  BY <1>1 DEF WaitsForEntry, Waiting, Reaping
<1>3. CASE Valid /\ ~glFaulted
  <2>1. PICK r : issued' = Append(issued, r) /\ r.async = call.async /\ r.index = produced
    BY <1>3 DEF Fill
  <2>2. call' = call /\ pc' = "publish"
    BY <1>3 DEF Fill, localVars
  <2>3. /\ DOMAIN issued' = DOMAIN issued \cup {Len(issued')} /\ issued' # <<>>
        /\ issued'[Len(issued')] = r /\ \A b \in DOMAIN issued : issued'[b] = issued[b]
    <3>1. issued \in Seq(Issued_)
      BY DEF PageInv, TypeOK, DriverTypeOK
    <3>2. QED
      BY <2>1, <3>1
  <2>4. ASSUME NEW b \in DOMAIN issued', active, qActive, Awaited(b)' PROVE FALSE
    <3>1. CASE b = Len(issued')
      <4>1. produced \in completed..produced - 1
        BY <1>1, <2>1, <2>3, <2>4, <3>1 DEF Awaited
      <4>2. QED
        BY <4>1, PageNumbers, SMTT(30)
    <3>2. CASE b \in DOMAIN issued
      <4>1. Awaited(b)
        BY <1>1, <2>3, <2>4, <3>2 DEF Awaited, OfQueue
      <4>2. QED
        BY <1>2, <1>3, <2>4, <3>2, <4>1 DEF SyncInv
    <3>3. QED
      BY <2>3, <3>1, <3>2
  <2>5. QED
    BY <1>1, <1>3, <2>1, <2>2, <2>3, <2>4 DEF SyncInv, Reaping
<1>4. CASE ~(Valid /\ ~glFaulted)
  <2>1. issued' = issued /\ pc' = "idle"
    BY <1>4 DEF Fill, Leave, Return
  <2>2. \A b \in DOMAIN issued : Awaited(b)' <=> Awaited(b)
    BY <1>1, <2>1 DEF Awaited, OfQueue
  <2>3. WaitsForEntry => WaitsForEntry'
    BY <1>1, <1>2 DEF WaitsForEntry
  <2>4. QED
    BY <1>1, <2>1, <2>2, <2>3 DEF SyncInv, Reaping
<1>5. QED
  BY <1>3, <1>4

LEMMA SyncPublishes ==
  ASSUME PageInv, SyncInv, Publish, UNCHANGED <<engineVars, deviceVars>>
  PROVE  SyncInv'
<1>1. /\ pc = "publish" /\ pc' = "ring" /\ produced' = produced + 1
      /\ UNCHANGED <<active, qGeneration, issued, completed, qActive, glFaulted, call>>
  BY DEF Publish, At, clientVars, localVars, deviceVars
<1>2. ~WaitsForEntry
  BY <1>1 DEF SyncInv, WaitsForEntry, Waiting, Reaping
<1>3. completed \in Nat /\ produced \in Nat
  BY PageNumbers
<1>4. ASSUME NEW b \in DOMAIN issued, active, qActive, Awaited(b)' PROVE issued[b].index = produced
  <2>1. ~Awaited(b)
    BY <1>2, <1>4 DEF SyncInv
  <2>2. OfQueue(b) /\ ~issued[b].async /\ issued[b].index \in completed..produced
    BY <1>1, <1>3, <1>4 DEF Awaited, OfQueue
  <2>3. QED
    BY <1>3, <2>1, <2>2 DEF Awaited
<1>5. WaitsForEntry'
  BY <1>1 DEF WaitsForEntry
<1>6. QED
  BY <1>1, <1>3, <1>4, <1>5 DEF SyncInv, Reaping

LEMMA SyncStep ==
  ASSUME PageInv, HeadInv, OutcomeInv, SyncInv, [Next]_vars
  PROVE  SyncInv'
<1>1. CASE Call
  BY <1>1, SyncStays DEF Call, StaysStep
<1>2. CASE Proceed
  <2>1. UNCHANGED <<engineVars, deviceVars>>
    BY <1>2 DEF Proceed
  <2>2. CASE StaysStep
    BY <2>1, <2>2, SyncStays
  <2>3. CASE ReapBegin \/ ReapOne \/ LoseOne
    BY <2>1, <2>3, SyncReaps
  <2>4. CASE EnableStores \/ Enabled(qActive)
    BY <2>1, <2>4, SyncEnables
  <2>5. CASE Fill
    BY <2>1, <2>5, SyncFills
  <2>6. CASE Publish
    BY <2>1, <2>6, SyncPublishes
  <2>7. QED
    BY <1>2, <2>2, <2>3, <2>4, <2>5, <2>6 DEF Proceed, StaysStep
<1>3. CASE ControlStep
  BY <1>3, SyncEnables
<1>4. CASE InterruptStep
  <2>1. /\ UNCHANGED <<active, qGeneration, produced, issued, pc, glFaulted, call, reapFor, waitFor, waited>>
        /\ UNCHANGED <<completed, qActive>>
    BY <1>4 DEF InterruptStep, Interrupt, queueVars, clientVars, localVars, deviceVars
  <2>2. WaitsForEntry' <=> WaitsForEntry
    BY <2>1 DEF WaitsForEntry, Waiting, Reaping
  <2>3. \A b \in DOMAIN issued : Awaited(b)' <=> Awaited(b)
    BY <2>1 DEF Awaited, OfQueue
  <2>4. QED
    BY <2>1, <2>2, <2>3 DEF SyncInv, Waiting, Reaping
<1>5. CASE DeviceStep \/ ResetStep \/ WorkerStep \/ UNCHANGED vars
  <2>1. UNCHANGED driverVars
    BY <1>5 DEF DeviceStep, ResetStep, WorkerStep, vars
  <2>2. completed' \in {completed, completed + 1} /\ (qActive' => qActive)
    <3>1. CASE DeviceStep
      <4>0. CASE ConsumeBegin
        BY <4>0 DEF ConsumeBegin
      <4>1. CASE ConsumeEntry
        BY <4>1 DEF ConsumeEntry
      <4>2. CASE ConsumeEnd \/ CompleteBegin \/ DrainUnowned \/ CreditOldest \/ CompleteEnd
        BY <4>2 DEF ConsumeEnd, CompleteBegin, DrainUnowned, CreditOldest, CompleteEnd
      <4>3. CASE FinishStatus \/ FinishCount \/ ReadWait \/ CompareWait
        BY <4>3 DEF FinishStatus, FinishCount, ReadWait, CompareWait
      <4>4. QED
        BY <3>1, <4>0, <4>1, <4>2, <4>3 DEF DeviceStep, Device
    <3>2. CASE ResetStep
      BY <3>2 DEF ResetStep, DeviceReset
    <3>3. CASE WorkerStep \/ UNCHANGED vars
      BY <3>3 DEF WorkerStep, EngineStep, vars, deviceVars
    <3>4. QED
      BY <1>5, <3>1, <3>2, <3>3
  <2>3. completed' \in Nat /\ completed' >= completed
    BY <2>2, PageNumbers
  <2>4. QED
    BY <2>1, <2>2, <2>3, SyncFrame
<1>6. QED
  BY <1>1, <1>2, <1>3, <1>4, <1>5 DEF Next, Quiet

LEMMA SyncInit == Init => SyncInv
BY DEF Init, DriverInit, SyncInv, Reaping

-----------------------------------------------------------------------------
(* What the driver records is what the device wrote, in order. *)
LEMMA ChainFrame ==
  ASSUME ChainInv, UNCHANGED <<issued, settled>>,
         ~(active' /\ qActive') \/ UNCHANGED <<active, qActive, qGeneration, reaped, completed, status, qFaults>>,
         pc' # "reaping" \/ UNCHANGED <<pc, upTo, qGeneration, reaped, status>>
  PROVE  ChainInv'
<1>1. (\A b \in DOMAIN issued' : settled'[b] # "unset" => issued'[b].live) /\ DomainStaysFailed'
  BY DEF ChainInv, DomainStaysFailed
<1>2. ASSUME active', qActive' PROVE Chained(completed)' /\ Listed(completed)'
  <2>1. UNCHANGED <<active, qActive, qGeneration, reaped, completed, status, qFaults>>
    BY <1>2
  <2>2. Chained(completed) /\ Listed(completed)
    BY <1>2, <2>1 DEF ChainInv
  <2>3. Chained(completed)'
    BY <2>1, <2>2 DEF Chained, OutcomeOf, SameStream, OfQueue
  <2>4. Entries(qFaults)' = Entries(qFaults)
    BY <2>1 DEF Entries
  <2>5. Listed(completed)'
    BY <2>1, <2>2, <2>4 DEF Listed, OutcomeOf, OfQueue
  <2>6. QED
    BY <2>3, <2>5
<1>3. pc' = "reaping" => Chained(upTo)'
  BY DEF ChainInv, Chained, OutcomeOf, SameStream, OfQueue
<1>4. QED
  BY <1>1, <1>2, <1>3 DEF ChainInv

LEMMA Earlier ==
  ASSUME PageInv, NEW a \in DOMAIN issued, NEW b \in DOMAIN issued, SameStream(a, b), OfQueue(b),
         issued[a].live
  PROVE  OfQueue(a) /\ issued[a].index < issued[b].index
BY DEF PageInv, IssuedInv, SameStream, OfQueue

LEMMA ChainedKeeps ==
  ASSUME PageInv, NEW n \in Nat, Chained(n), UNCHANGED <<issued, qGeneration>>,
         \A b \in DOMAIN issued : OfQueue(b) /\ issued[b].index < n => OutcomeOf(b)' = OutcomeOf(b)
  PROVE  /\ Chained(n)'
         /\ Listed(n) /\ Entries(qFaults) \subseteq Entries(qFaults') => Listed(n)'
<1>1. \A b \in DOMAIN issued : OfQueue(b)' <=> OfQueue(b)
  BY DEF OfQueue
<1>2. Chained(n)'
  <2> SUFFICES ASSUME NEW a \in DOMAIN issued, NEW b \in DOMAIN issued,
                      SameStream(a, b), OfQueue(a), OfQueue(b), issued[b].index < n,
                      OutcomeOf(a)' \in Error
               PROVE  OutcomeOf(b)' # "none"
    BY <1>1 DEF Chained, SameStream
  <2>1. issued[a].index < issued[b].index /\ issued[a].index \in Nat /\ issued[b].index \in Nat
    BY Earlier, IssuedNumbers DEF OfQueue
  <2>2. issued[a].index < n
    BY <2>1
  <2>3. OutcomeOf(a)' = OutcomeOf(a) /\ OutcomeOf(b)' = OutcomeOf(b)
    BY <2>2
  <2>4. QED
    BY <2>3 DEF Chained
<1>3. ASSUME Listed(n), Entries(qFaults) \subseteq Entries(qFaults') PROVE Listed(n)'
  <2>1. Entries(qFaults)' = Entries(qFaults')
    BY DEF Entries
  <2>2. ASSUME NEW b \in DOMAIN issued, OfQueue(b), issued[b].index < n, OutcomeOf(b)' \in Error,
               issued[b].dom # NoDomain
        PROVE  issued[b].dom \in Entries(qFaults')
    BY <1>3, <2>2 DEF Listed
  <2>3. QED
    BY <1>1, <2>1, <2>2 DEF Listed
<1>4. QED
  BY <1>2, <1>3

(* The entry about to be recorded is a batch of the live queue. *)
LEMMA Recorded ==
  ASSUME PageInv, active, reaped # produced
  PROVE  \E b \in DOMAIN issued :
           /\ OfQueue(b) /\ issued[b].index = reaped /\ b \in Batches
           /\ owners[SlotOf(reaped)] = [batch |-> b, dom |-> issued[b].dom, async |-> issued[b].async]
<1>1. reaped \in Nat /\ produced \in Nat /\ reaped <= produced
  BY PageNumbers DEF PageInv, WindowInv
<1>2. reaped \in reaped..produced - 1
  BY <1>1
<1>3. PICK b \in DOMAIN issued : OfQueue(b) /\ issued[b].index = reaped /\ SlotHolds(b) /\ b \in Batches
  BY <1>2, HeldBatch
<1>4. QED
  BY <1>3 DEF SlotHolds

(* Recording the outcome of the next entry. *)
LEMMA ChainRecords ==
  ASSUME PageInv, OutcomeInv, ChainInv, NEW b \in DOMAIN issued, OfQueue(b), issued[b].index = reaped,
         active, NEW o \in Outcome, settled' = [settled EXCEPT ![b] = o], issued' = issued,
         o = "none" => Chained(reaped + 1) /\ OutcomeOf(b) = o
  PROVE  /\ \A x \in DOMAIN issued' : settled'[x] # "unset" => issued'[x].live
         /\ DomainStaysFailed'
<1>1. b \in Batches /\ settled \in [Batches -> Status] /\ reaped \in Nat
  BY IssuedNumbers, PageNumbers DEF PageInv, TypeOK, DriverTypeOK
<1>2. settled'[b] = o /\ \A x \in DOMAIN issued : x # b => settled'[x] = settled[x]
  BY <1>1, IssuedNumbers
<1>3. \A x \in DOMAIN issued' : settled'[x] # "unset" => issued'[x].live
  BY <1>2 DEF ChainInv, OfQueue
<1>4. ASSUME NEW x \in DOMAIN issued, NEW y \in DOMAIN issued, SameStream(x, y), settled'[x] \in Error,
             settled'[y] = "none"
      PROVE  FALSE
  <2>1. x # y /\ issued[x].live
    BY <1>2, <1>3, <1>4, IssuedNumbers DEF SameStream, Error
  <2>2. CASE x = b
    <3>1. settled[y] # "unset" /\ y \in Batches
      BY <1>2, <1>4, <2>1, <2>2, IssuedNumbers
    <3>2. issued[y].live
      BY <3>1 DEF ChainInv
    <3>3. OfQueue(y)
      BY <1>4, <2>2, <3>2 DEF SameStream, OfQueue
    <3>4. issued[y].index < reaped
      BY <3>1, <3>3 DEF OutcomeInv, FateInv
    <3>5. reaped < issued[y].index
      BY <1>4, <2>1, <2>2, <3>3, Earlier
    <3>6. QED
      BY <1>1, <3>4, <3>5, IssuedNumbers
  <2>3. CASE y = b
    <3>1. o = "none" /\ settled[x] \in Error
      BY <1>2, <1>4, <2>1, <2>3
    <3>2. OfQueue(x) /\ issued[x].index < reaped
      BY <1>4, <2>1, <2>3, Earlier
    <3>3. OutcomeOf(x) \in Error
      BY <3>1, <3>2 DEF OutcomeOf
    <3>4. issued[b].index < reaped + 1
      BY <1>1
    <3>5. QED
      BY <1>4, <2>3, <3>1, <3>2, <3>3, <3>4 DEF Chained
  <2>4. CASE x # b /\ y # b
    BY <1>2, <1>4, <2>4 DEF ChainInv, DomainStaysFailed, SameStream
  <2>5. QED
    BY <2>2, <2>3, <2>4
<1>5. DomainStaysFailed'
  BY <1>4 DEF DomainStaysFailed, SameStream
<1>6. QED
  BY <1>3, <1>5

(* Reaping moves an outcome, and changes none. *)
LEMMA ReapedOutcome ==
  ASSUME PageInv, ReapOne, NEW x \in DOMAIN issued, OfQueue(x)
  PROVE  OutcomeOf(x)' = OutcomeOf(x)
<1>1. pc = "reaping" /\ UNCHANGED <<issued, status>>
  BY DEF ReapOne, At, PageUntouched, pageVars
<1>2. CASE reaped = upTo
  BY <1>1, <1>2 DEF ReapOne, OutcomeOf
<1>3. CASE reaped # upTo
  <2>1. /\ reaped \in Nat /\ upTo \in Nat /\ produced \in Nat /\ reaped <= upTo /\ upTo <= produced /\ active
    BY <1>1, PageNumbers DEF PageInv, WindowInv, JoinInv
  <2>2. reaped # produced
    BY <1>3, <2>1
  <2>3. PICK b \in DOMAIN issued :
           /\ OfQueue(b) /\ issued[b].index = reaped /\ b \in Batches
           /\ owners[SlotOf(reaped)] = [batch |-> b, dom |-> issued[b].dom, async |-> issued[b].async]
    BY <2>1, <2>2, Recorded
  <2>4. settled' = [settled EXCEPT ![b] = status[SlotOf(reaped)]] /\ reaped' = reaped + 1
    BY <1>3, <2>3 DEF ReapOne, Record
  <2>5. settled \in [Batches -> Status] /\ x \in Batches /\ issued[x].index \in Nat
    BY IssuedNumbers DEF PageInv, TypeOK, DriverTypeOK
  <2>6. CASE x = b
    <3>1. settled'[b] = status[SlotOf(reaped)] /\ reaped < reaped + 1 /\ ~(reaped < reaped)
      BY <2>1, <2>3, <2>4, <2>5
    <3>2. QED
      BY <1>1, <2>3, <2>4, <2>6, <3>1 DEF OutcomeOf
  <2>7. CASE x # b
    <3>1. issued[x].index # reaped
      BY <2>3, <2>7, OneIndex DEF OfQueue
    <3>2. issued[x].index < reaped + 1 <=> issued[x].index < reaped
      BY <2>1, <2>5, <3>1
    <3>3. settled'[x] = settled[x]
      BY <2>4, <2>5, <2>7
    <3>4. QED
      BY <1>1, <2>4, <3>2, <3>3 DEF OutcomeOf
  <2>8. QED
    BY <2>6, <2>7
<1>4. QED
  BY <1>2, <1>3

LEMMA ChainReapOne ==
  ASSUME PageInv, OutcomeInv, ChainInv, ReapOne, UNCHANGED <<engineVars, deviceVars>>
  PROVE  ChainInv'
<1>1. /\ pc = "reaping" /\ UNCHANGED <<issued, active, qGeneration, produced, status, completed, qActive, qFaults>>
  BY DEF ReapOne, At, PageUntouched, pageVars, deviceVars
<1>2. CASE reaped = upTo
  <2>1. settled' = settled /\ pc' = reapFor /\ reaped' = reaped
    BY <1>2 DEF ReapOne
  <2>2. pc' # "reaping"
    BY <2>1 DEF PageInv, TypeOK, DriverTypeOK
  <2>3. QED
    BY <1>1, <2>1, <2>2, ChainFrame
<1>3. CASE reaped # upTo
  <2>1. /\ reaped \in Nat /\ upTo \in Nat /\ completed \in Nat /\ produced \in Nat
        /\ reaped <= upTo /\ upTo <= produced /\ (qActive => upTo <= completed) /\ active
    BY <1>1, PageNumbers DEF PageInv, WindowInv, JoinInv
  <2>2. reaped < upTo /\ reaped # produced
    BY <1>3, <2>1
  <2>3. PICK b \in DOMAIN issued :
           /\ OfQueue(b) /\ issued[b].index = reaped /\ b \in Batches
           /\ owners[SlotOf(reaped)] = [batch |-> b, dom |-> issued[b].dom, async |-> issued[b].async]
    BY <2>1, <2>2, Recorded
  <2> DEFINE o == status[SlotOf(reaped)]
  <2>4. settled' = [settled EXCEPT ![b] = o] /\ reaped' = reaped + 1 /\ upTo' = upTo /\ pc' = pc
    BY <1>3, <2>3 DEF ReapOne, Record
  <2>5. o \in Outcome
    <3>1. reaped \in reaped..upTo - 1
      BY <2>1, <2>2
    <3>2. o # "unset"
      BY <1>1, <3>1 DEF PageInv, StatusInv
    <3>3. o \in Status
      BY <2>1, SlotType DEF PageInv, TypeOK, PageTypeOK
    <3>4. QED
      BY <3>2, <3>3 DEF Status, Outcome
  <2>6. OutcomeOf(b) = o
    BY <2>1, <2>3 DEF OutcomeOf
  <2> HIDE DEF o
  <2>7. Chained(upTo)
    BY <1>1 DEF ChainInv
  <2>8. Chained(reaped + 1)
    <3>1. \A x \in DOMAIN issued : issued[x].index < reaped + 1 => issued[x].index < upTo
      BY <2>1, <2>2, IssuedNumbers
    <3>2. QED
      BY <2>7, <3>1 DEF Chained
  <2>9. /\ \A x \in DOMAIN issued' : settled'[x] # "unset" => issued'[x].live
        /\ DomainStaysFailed'
    BY <1>1, <2>1, <2>3, <2>4, <2>5, <2>6, <2>8, ChainRecords
  <2>10. \A x \in DOMAIN issued : OfQueue(x) => OutcomeOf(x)' = OutcomeOf(x)
    BY ReapedOutcome
  <2>11. Chained(upTo)'
    <3>1. PICK n \in Nat : n = upTo
      BY <2>1
    <3>2. Chained(n)'
      BY <1>1, <2>7, <2>10, <3>1, ChainedKeeps
    <3>3. QED
      BY <2>4, <3>1, <3>2 DEF Chained
  <2>12. ASSUME active, qActive PROVE Chained(completed)' /\ Listed(completed)'
    <3>1. PICK n \in Nat : n = completed
      BY <2>1
    <3>2. Chained(n) /\ Listed(n)
      BY <2>12, <3>1 DEF ChainInv
    <3>3. Chained(n)' /\ Listed(n)'
      BY <1>1, <2>10, <3>2, ChainedKeeps
    <3>4. QED
      BY <1>1, <3>1, <3>3 DEF Chained, Listed
  <2>13. QED
    BY <1>1, <2>9, <2>11, <2>12 DEF ChainInv
<1>4. QED
  BY <1>2, <1>3

LEMMA ChainReaps ==
  ASSUME PageInv, OutcomeInv, ChainInv, ReapBegin \/ LoseOne, UNCHANGED <<engineVars, deviceVars>>
  PROVE  ChainInv'
<1>1. UNCHANGED <<issued, qGeneration, status, completed, qActive, qFaults>>
  BY DEF ReapBegin, LoseOne, PageUntouched, pageVars, deviceVars, queueVars
<1>2. reapFor # "reaping"
  BY DEF PageInv, TypeOK, DriverTypeOK
<1>3. CASE ReapBegin
  <2>1. UNCHANGED <<active, reaped, settled, produced>>
    BY <1>3 DEF ReapBegin, queueVars
  <2>2. CASE Current
    <3>1. active /\ qActive
      BY <2>2 DEF Current, PageInv, JoinInv
    <3>2. /\ pgCompleted = completed /\ reaped <= completed /\ completed <= produced
          /\ completed \in Nat /\ reaped \in Nat /\ produced \in Nat
      <4>1. /\ completed \in Nat /\ reaped \in Nat /\ produced \in Nat /\ consumed \in Nat
            /\ Len(entries) \in Nat /\ InHand \in Nat
        BY PageNumbers
      <4>2. pgCompleted = completed /\ reaped <= completed /\ pgProduced = produced
            /\ consumed = completed + Len(entries) + InHand /\ consumed <= pgProduced
        BY <3>1 DEF PageInv, DeviceInv, WindowInv, JoinInv
      <4>3. QED
        BY <4>1, <4>2
    <3>3. completed - reaped \in 0..(produced - reaped)
      BY <3>2
    <3>4. upTo' = completed
      BY <1>3, <2>2, <3>2, <3>3 DEF ReapBegin, CompletedWord
    <3>5. Chained(completed)' /\ Listed(completed)'
      BY <1>1, <2>1, <3>1 DEF ChainInv, Chained, Listed, OutcomeOf, SameStream, OfQueue, Entries
    <3>6. Chained(upTo)'
      BY <1>1, <3>4, <3>5 DEF Chained
    <3>7. QED
      BY <1>1, <2>1, <3>5, <3>6 DEF ChainInv, DomainStaysFailed
  <2>3. CASE ~Current
    <3>1. pc' # "reaping"
      BY <1>2, <1>3, <2>3 DEF ReapBegin
    <3>2. QED
      BY <1>1, <2>1, <3>1, ChainFrame
  <2>4. QED
    BY <2>2, <2>3
<1>4. CASE LoseOne
  <2>1. pc = "lose" /\ pc' \in {"lose", reapFor} /\ active /\ ~qActive
    BY <1>4 DEF LoseOne, At, PageInv, JoinInv
  <2>2. CASE reaped = produced
    <3>1. settled' = settled
      BY <1>4, <2>2 DEF LoseOne
    <3>2. QED
      BY <1>1, <1>2, <2>1, <3>1, ChainFrame
  <2>3. CASE reaped # produced
    <3>1. PICK b \in DOMAIN issued :
           /\ OfQueue(b) /\ issued[b].index = reaped /\ b \in Batches
           /\ owners[SlotOf(reaped)] = [batch |-> b, dom |-> issued[b].dom, async |-> issued[b].async]
      BY <2>1, <2>3, Recorded
    <3>2. settled' = [settled EXCEPT ![b] = "generation"]
      BY <1>4, <2>3, <3>1 DEF LoseOne, Record
    <3>3. /\ \A x \in DOMAIN issued' : settled'[x] # "unset" => issued'[x].live
          /\ DomainStaysFailed'
      BY <1>1, <2>1, <3>1, <3>2, ChainRecords DEF Outcome, Error
    <3>4. QED
      BY <1>1, <1>2, <2>1, <3>3 DEF ChainInv
  <2>4. QED
    BY <2>2, <2>3
<1>5. QED
  BY <1>3, <1>4

LEMMA ChainEnables ==
  ASSUME PageInv, ChainInv,
         \/ (EnableStores \/ Enabled(qActive)) /\ UNCHANGED <<engineVars, deviceVars>>
         \/ ControlStep
  PROVE  ChainInv'
<1>1. /\ pc \in {"stores", "control", "enabled"} /\ ~active
      /\ UNCHANGED <<issued, settled>>
  BY DEF PageInv, JoinInv, EnableStores, Enabled, ControlStep, WriteControl, At
<1>2. pc' # "reaping"
  BY DEF EnableStores, Enabled, ControlStep, WriteControl, PageInv, TypeOK, DriverTypeOK
<1>3. CASE ~(active' /\ qActive')
  BY <1>1, <1>2, <1>3, ChainFrame
<1>4. CASE active' /\ qActive'
  <2>1. pc = "enabled" /\ qActive /\ completed' = completed
    BY <1>1, <1>4 DEF EnableStores, Enabled, ControlStep, WriteControl, At, queueVars, deviceVars
  <2>2. completed = 0
    <3>1. /\ consumed = completed + Len(entries) + InHand /\ consumed <= pgProduced /\ pgProduced = 0
      BY <2>1 DEF PageInv, DeviceInv, JoinInv
    <3>2. completed \in Nat /\ consumed \in Nat /\ Len(entries) \in Nat /\ InHand \in Nat
      BY PageNumbers, SMTT(30)
    <3>3. QED
      BY <3>1, <3>2
  <2>3. \A b \in DOMAIN issued' : ~(issued'[b].index < completed')
    BY <1>1, <2>1, <2>2, IssuedNumbers
  <2>4. Chained(completed)' /\ Listed(completed)'
    BY <2>3 DEF Chained, Listed
  <2>5. QED
    BY <1>1, <1>2, <2>4 DEF ChainInv, DomainStaysFailed
<1>5. QED
  BY <1>3, <1>4

(* The slot of the entry that is written next belongs to none that waits for Reap. *)
LEMMA FreeSlot ==
  ASSUME NEW s \in Nat, NEW i \in Nat, NEW j \in Nat, s <= i, i < j, j < s + Depth
  PROVE  SlotOf(i) # SlotOf(j)
<1>1. Depth \in Nat
  BY PageConstants DEF PageConstants
<1>2. j - i < Depth
  BY <1>1
<1>3. QED
  BY <1>2, SlotDiffers

LEMMA FilledOutcome ==
  ASSUME PageInv, Fill, UNCHANGED deviceVars, active, qActive, NEW b \in DOMAIN issued, issued[b].index < completed
  PROVE  OutcomeOf(b)' = OutcomeOf(b)
<1>1. /\ pc = "fill" /\ UNCHANGED <<reaped, settled>>
      /\ status' = status \/ status' = [status EXCEPT ![SlotOf(produced)] = "unset"]
  BY DEF Fill, At, queueVars
<1>2. /\ completed \in Nat /\ reaped \in Nat /\ produced \in Nat /\ Depth \in Nat
      /\ completed <= produced /\ produced < reaped + Depth
  <2>1. /\ completed \in Nat /\ reaped \in Nat /\ produced \in Nat /\ consumed \in Nat
        /\ Len(entries) \in Nat /\ InHand \in Nat /\ Depth \in Nat
    BY PageNumbers, SMTT(30)
  <2>2. /\ consumed = completed + Len(entries) + InHand /\ consumed <= pgProduced /\ pgProduced = produced
        /\ produced - reaped < Depth
    BY <1>1 DEF PageInv, DeviceInv, WindowInv, JoinInv
  <2>3. QED
    BY <2>1, <2>2
<1>3. issued[b].index \in Nat /\ issued'[b] = issued[b]
  BY IssuedNumbers, IssuedGrows
<1>4. CASE issued[b].index < reaped
  BY <1>1, <1>3, <1>4 DEF OutcomeOf
<1>5. CASE ~(issued[b].index < reaped)
  <2>1. SlotOf(issued[b].index) # SlotOf(produced)
    <3>1. reaped <= issued[b].index /\ issued[b].index < produced
      BY <1>2, <1>3, <1>5
    <3>2. QED
      BY <1>2, <1>3, <3>1, FreeSlot
  <2>2. status'[SlotOf(issued[b].index)] = status[SlotOf(issued[b].index)]
    BY <1>1, <1>3, <2>1, SlotType DEF PageInv, TypeOK, PageTypeOK
  <2>3. QED
    BY <1>1, <1>3, <1>5, <2>2 DEF OutcomeOf
<1>6. QED
  BY <1>4, <1>5

LEMMA ChainFills ==
  ASSUME PageInv, OutcomeInv, ChainInv, Fill, UNCHANGED <<engineVars, deviceVars>>
  PROVE  ChainInv'
<1>1. /\ pc = "fill" /\ UNCHANGED <<active, qGeneration, produced, reaped, settled, completed, qActive, qFaults>>
      /\ pc' # "reaping"
  BY DEF Fill, At, Leave, Return, queueVars, deviceVars
<1>2. CASE ~(Valid /\ ~glFaulted)
  <2>1. UNCHANGED <<issued, status>>
    BY <1>2 DEF Fill
  <2>2. QED
    BY <1>1, <2>1, ChainFrame
<1>3. CASE Valid /\ ~glFaulted
  <2>1. /\ status' = [status EXCEPT ![SlotOf(produced)] = "unset"]
        /\ \E r : issued' = Append(issued, r) /\ r.index = produced
    BY <1>3 DEF Fill
  <2>2. PICK r : issued' = Append(issued, r) /\ r.index = produced
    BY <2>1
  <2>3. PICK n \in Nat : n = Len(issued) + 1
    BY IssuedNumbers
  <2>4. /\ DOMAIN issued' = DOMAIN issued \cup {n} /\ issued'[n] = r /\ n \notin DOMAIN issued
        /\ \A b \in DOMAIN issued : issued'[b] = issued[b] /\ b < n
    <3>1. issued \in Seq(Issued_)
      BY DEF PageInv, TypeOK, DriverTypeOK
    <3>2. QED
      BY <2>2, <2>3, <3>1
  <2>5. n \in Batches /\ settled[n] = "unset"
    <3>1. Len(issued) < MaxBatches /\ MaxBatches \in Nat
      <4>1. call.kind # "open"
        BY <1>1 DEF PageInv, RoomInv
      <4>2. QED
        BY <1>1, <4>1, PageNumbers DEF PageInv, RoomInv, BeforeFill
    <3>2. n \in Batches
      BY <2>3, <3>1, PageNumbers, SMTT(30) DEF Batches
    <3>3. QED
      BY <2>4, <3>2 DEF OutcomeInv, FateInv
  <2>6. \A b \in DOMAIN issued' : settled'[b] # "unset" => issued'[b].live
    BY <1>1, <2>4, <2>5 DEF ChainInv
  <2>7. DomainStaysFailed'
    <3> SUFFICES ASSUME NEW a \in DOMAIN issued', NEW b \in DOMAIN issued', a < b,
                        issued'[a].dom = issued'[b].dom, issued'[a].dom # NoDomain,
                        issued'[a].queue = issued'[b].queue, settled'[a] \in Error
                 PROVE  settled'[b] # "none"
      BY DEF DomainStaysFailed
    <3>1. CASE b = n
      BY <1>1, <2>5, <3>1
    <3>2. CASE a = n
      BY <1>1, <2>5, <3>2 DEF Error
    <3>3. CASE a \in DOMAIN issued /\ b \in DOMAIN issued
      BY <1>1, <2>4, <3>3 DEF ChainInv, DomainStaysFailed
    <3>4. QED
      BY <2>4, <3>1, <3>2, <3>3
  <2>8. ASSUME active, qActive PROVE Chained(completed)' /\ Listed(completed)'
    <3>1. completed \in Nat /\ produced \in Nat /\ completed <= produced
      <4>1. consumed \in Nat /\ completed \in Nat /\ produced \in Nat /\ Len(entries) \in Nat /\ InHand \in Nat
        BY PageNumbers, SMTT(30)
      <4>2. consumed = completed + Len(entries) + InHand /\ consumed <= produced
        BY <2>8 DEF PageInv, DeviceInv, JoinInv
      <4>3. QED
        BY <4>1, <4>2
    <3>2. ASSUME NEW b \in DOMAIN issued', issued'[b].index < completed
          PROVE  b \in DOMAIN issued
      BY <2>2, <2>4, <3>1, <3>2
    <3>3. \A b \in DOMAIN issued : issued[b].index < completed => OutcomeOf(b)' = OutcomeOf(b)
      BY <2>8, FilledOutcome
    <3>4. Chained(completed) /\ Listed(completed)
      BY <2>8 DEF ChainInv
    <3>5. \A b \in DOMAIN issued : OfQueue(b)' <=> OfQueue(b)
      BY <1>1, <2>4 DEF OfQueue
    <3>6. Chained(completed)'
      <4> SUFFICES ASSUME NEW a \in DOMAIN issued', NEW b \in DOMAIN issued', SameStream(a, b)',
                          OfQueue(a)', OfQueue(b)', issued'[b].index < completed, OutcomeOf(a)' \in Error
                   PROVE  OutcomeOf(b)' # "none"
        BY <1>1 DEF Chained
      <4>1. b \in DOMAIN issued /\ a \in DOMAIN issued
        <5>1. b \in DOMAIN issued /\ b < n /\ a < b
          BY <2>4, <3>2 DEF SameStream
        <5>2. QED
          BY <2>3, <2>4, <5>1, IssuedNumbers
      <4>2. SameStream(a, b) /\ OfQueue(a) /\ OfQueue(b) /\ issued[b].index < completed
        BY <2>4, <3>5, <4>1 DEF SameStream
      <4>3. issued[a].index < issued[b].index
        BY <4>1, <4>2, Earlier DEF OfQueue
      <4>4. issued[a].index < completed
        BY <3>1, <4>1, <4>2, <4>3, IssuedNumbers
      <4>5. OutcomeOf(a)' = OutcomeOf(a) /\ OutcomeOf(b)' = OutcomeOf(b)
        BY <3>3, <4>1, <4>2, <4>4
      <4>6. QED
        BY <3>4, <4>1, <4>2, <4>5 DEF Chained
    <3>7. Entries(qFaults)' = Entries(qFaults)
      BY <1>1 DEF Entries
    <3>8. Listed(completed)'
      BY <1>1, <2>4, <3>2, <3>3, <3>4, <3>5, <3>7 DEF Listed
    <3>9. QED
      BY <3>6, <3>8
  <2>9. QED
    BY <1>1, <2>6, <2>7, <2>8 DEF ChainInv
<1>4. QED
  BY <1>2, <1>3

(* The device writes an outcome, then counts it. *)
LEMMA FinishingEntry ==
  ASSUME PageInv, finishing # {}
  PROVE  /\ qActive /\ active /\ reaped <= completed /\ completed < produced /\ produced <= reaped + Depth
         /\ qGeneration = generation /\ (pc = "reaping" => upTo <= completed)
<1>1. /\ completed \in Nat /\ reaped \in Nat /\ produced \in Nat /\ consumed \in Nat /\ pgProduced \in Nat
      /\ Len(entries) \in Nat /\ Depth \in Nat
  BY PageNumbers
<1>2. qActive /\ InHand = 1
  BY DEF PageInv, DeviceInv, InHand
<1>3. consumed = completed + Len(entries) + 1 /\ consumed <= pgProduced
  BY <1>2 DEF PageInv, DeviceInv
<1>4. completed < pgProduced
  BY <1>1, <1>3
<1>5. active /\ qGeneration = generation /\ pgProduced = produced /\ reaped <= completed
  BY <1>2, <1>4, Serving
<1>6. produced - reaped <= Depth /\ (pc = "reaping" => upTo <= completed)
  BY <1>2, <1>5 DEF PageInv, WindowInv
<1>7. QED
  BY <1>1, <1>2, <1>4, <1>5, <1>6

LEMMA WrittenOutcome ==
  ASSUME PageInv, FinishStatus, UNCHANGED driverVars, NEW b \in DOMAIN issued, issued[b].index < completed
  PROVE  OutcomeOf(b)' = OutcomeOf(b)
<1>1. UNCHANGED <<reaped, issued, settled>>
  BY DEF driverVars, queueVars
<1>2. PICK f \in finishing : status' = [status EXCEPT ![f.entry.slot] = f.error]
  BY DEF FinishStatus
<1>3. reaped <= completed /\ completed < produced /\ produced <= reaped + Depth
  BY <1>2, FinishingEntry
<1>4. f.entry.slot = SlotOf(completed)
  BY <1>2 DEF PageInv, StatusInv
<1>5. completed \in Nat /\ reaped \in Nat /\ produced \in Nat /\ Depth \in Nat /\ issued[b].index \in Nat
  BY PageNumbers, IssuedNumbers
<1>6. CASE issued[b].index < reaped
  BY <1>1, <1>6 DEF OutcomeOf
<1>7. CASE ~(issued[b].index < reaped)
  <2>1. SlotOf(issued[b].index) # SlotOf(completed)
    <3>1. reaped <= issued[b].index /\ completed < reaped + Depth
      BY <1>3, <1>5, <1>7
    <3>2. QED
      BY <1>5, <3>1, FreeSlot
  <2>2. status'[SlotOf(issued[b].index)] = status[SlotOf(issued[b].index)]
    BY <1>2, <1>4, <1>5, <2>1, SlotType DEF PageInv, TypeOK, PageTypeOK
  <2>3. QED
    BY <1>1, <1>7, <2>2 DEF OutcomeOf
<1>8. QED
  BY <1>6, <1>7

LEMMA ChainWrites ==
  ASSUME EnoughRoom, PageInv, FaultInv, ChainInv, FinishStatus, UNCHANGED driverVars
  PROVE  ChainInv'
<1>1. /\ UNCHANGED <<completed, qActive>> /\ dpc = "finish"
      /\ UNCHANGED <<active, qGeneration, produced, reaped, issued, settled, pc, upTo>>
  BY DEF FinishStatus, driverVars, queueVars, localVars
<1>2. PICK f \in finishing : /\ status' = [status EXCEPT ![f.entry.slot] = f.error]
                             /\ qFaults' = IF f.error # "none" THEN Fault(qFaults, f.entry.dom) ELSE qFaults
  BY DEF FinishStatus
<1>3. /\ active /\ qActive /\ reaped <= completed /\ completed < produced /\ produced <= reaped + Depth
      /\ (pc = "reaping" => upTo <= completed)
  BY <1>2, FinishingEntry
<1>4. f.entry.slot = SlotOf(completed)
  BY <1>2 DEF PageInv, StatusInv
<1>5. completed \in Nat /\ reaped \in Nat /\ produced \in Nat /\ Depth \in Nat /\ upTo \in Nat
  BY PageNumbers
<1>6. Entries(qFaults) \subseteq Entries(qFaults')
  <2>1. f.entry.dom \in Domains \cup {NoDomain}
    BY DEF PageInv, TypeOK, DeviceTypeOK, QueueEntry
  <2>2. Entries(Fault(qFaults, f.entry.dom)) = Entries(qFaults) \cup ({f.entry.dom} \ {NoDomain})
    BY <2>1, ListTypes, FaultAdds DEF FaultInv, HostFaultInv
  <2>3. QED
    BY <1>2, <2>2
<1>7. \A b \in DOMAIN issued : issued[b].index < completed => OutcomeOf(b)' = OutcomeOf(b)
  BY WrittenOutcome
<1>8. Chained(completed)' /\ Listed(completed)'
  <2>1. PICK n \in Nat : n = completed
    BY <1>5
  <2>2. Chained(n)' /\ Listed(n)'
    BY <1>1, <1>3, <1>6, <1>7, <2>1, ChainedKeeps DEF ChainInv
  <2>3. QED
    BY <1>1, <2>1, <2>2 DEF Chained, Listed
<1>9. pc = "reaping" => Chained(upTo)'
  <2> SUFFICES ASSUME pc = "reaping" PROVE Chained(upTo)'
    OBVIOUS
  <2>1. PICK n \in Nat : n = upTo
    BY <1>5
  <2>2. \A b \in DOMAIN issued : issued[b].index < n => issued[b].index < completed
    BY <1>3, <1>5, <2>1, IssuedNumbers
  <2>3. Chained(n)'
    BY <1>1, <1>7, <2>1, <2>2, ChainedKeeps DEF ChainInv
  <2>4. QED
    BY <1>1, <2>1, <2>3 DEF Chained
<1>10. QED
  BY <1>1, <1>8, <1>9 DEF ChainInv, DomainStaysFailed

LEMMA CountedBatch ==
  ASSUME PageInv, OutcomeInv, FaultInv, dpc = "count", NEW f \in finishing
  PROVE  \E c \in DOMAIN issued :
           /\ OfQueue(c) /\ EntryIs(c, completed) /\ issued[c].index = completed
           /\ OutcomeOf(c) = f.error /\ f.entry.dom = issued[c].dom
<1>1. active /\ qActive /\ reaped <= completed /\ qGeneration = generation
  BY FinishingEntry
<1>2. PICK c \in DOMAIN issued : c = f.entry.batch /\ EntryIs(c, completed) /\ issued[c].index = completed
  BY DEF OutcomeInv, FinishInv, EntryIs
<1>3. OfQueue(c)
  BY <1>1, <1>2 DEF EntryIs, OfQueue
<1>4. OutcomeOf(c) = f.error
  <2>1. ~(issued[c].index < reaped)
    BY <1>1, <1>2, PageNumbers
  <2>2. QED
    BY <1>2, <2>1 DEF OutcomeOf, OutcomeInv, FinishInv
<1>5. f.entry.dom = issued[c].dom
  BY <1>2 DEF FaultInv, DomainInv
<1>6. QED
  BY <1>2, <1>3, <1>4, <1>5

LEMMA ChainCounts ==
  ASSUME PageInv, OutcomeInv, FaultInv, ChainInv, FinishCount, UNCHANGED driverVars
  PROVE  ChainInv'
<1>1. /\ UNCHANGED <<status, qActive, qFaults>> /\ dpc = "count" /\ completed' = completed + 1
      /\ UNCHANGED <<active, qGeneration, produced, reaped, issued, settled, pc, upTo>>
  BY DEF FinishCount, driverVars, queueVars, localVars
<1>2. PICK f : f \in finishing
  BY <1>1 DEF PageInv, DeviceInv
<1>3. active /\ qActive /\ reaped <= completed /\ qGeneration = generation
  BY <1>2, FinishingEntry
<1>4. PICK c \in DOMAIN issued :
        OfQueue(c) /\ issued[c].index = completed /\ OutcomeOf(c) = f.error /\ f.entry.dom = issued[c].dom
  BY <1>1, <1>2, CountedBatch
<1>5. completed \in Nat /\ reaped \in Nat
  BY PageNumbers
<1>8. ASSUME NEW b \in DOMAIN issued, OfQueue(b), issued[b].index < completed + 1
      PROVE  b = c \/ issued[b].index < completed
  <2>1. issued[b].index = completed \/ issued[b].index < completed
    BY <1>5, <1>8, IssuedNumbers
  <2>2. QED
    BY <1>4, <1>8, <2>1, OneIndex DEF OfQueue
<1>9. Chained(completed) /\ Listed(completed)
  BY <1>3 DEF ChainInv
<1>10. Chained(completed + 1)
  <2> SUFFICES ASSUME NEW a \in DOMAIN issued, NEW b \in DOMAIN issued,
                      SameStream(a, b), OfQueue(a), OfQueue(b), issued[b].index < completed + 1,
                      OutcomeOf(a) \in Error, OutcomeOf(b) = "none"
               PROVE  FALSE
    BY DEF Chained
  <2>1. CASE issued[b].index < completed
    BY <1>9, <2>1 DEF Chained
  <2>2. CASE b = c
    <3>1. issued[a].index < completed
      BY <1>4, <2>2, Earlier DEF OfQueue
    <3>2. issued[a].dom \in Entries(qFaults)
      BY <1>9, <3>1 DEF Listed, SameStream
    <3>3. f.error = "none" /\ f.entry.dom = issued[a].dom /\ f.entry.dom # NoDomain
      BY <1>4, <2>2 DEF SameStream
    <3>4. QED
      BY <1>2, <3>2, <3>3 DEF FaultInv, HostFaultInv
  <2>3. QED
    BY <1>8, <2>1, <2>2
<1>11. Listed(completed + 1)
  <2> SUFFICES ASSUME NEW b \in DOMAIN issued, OfQueue(b), issued[b].index < completed + 1,
                      OutcomeOf(b) \in Error, issued[b].dom # NoDomain
               PROVE  issued[b].dom \in Entries(qFaults)
    BY DEF Listed
  <2>1. CASE issued[b].index < completed
    BY <1>9, <2>1 DEF Listed
  <2>2. CASE b = c
    <3>1. f.error # "none"
      BY <1>4, <2>2 DEF Error
    <3>2. QED
      BY <1>1, <1>2, <1>4, <2>2, <3>1 DEF FaultInv, HostFaultInv
  <2>3. QED
    BY <1>8, <2>1, <2>2
<1>12. Chained(completed)' /\ Listed(completed)'
  <2>1. PICK n : n = completed + 1
    OBVIOUS
  <2>2. Chained(n) /\ Listed(n)
    BY <1>10, <1>11, <2>1
  <2>3. Entries(qFaults)' = Entries(qFaults)
    BY <1>1 DEF Entries
  <2>4. Chained(completed)' /\ Listed(completed)'
    BY <1>1, <2>1, <2>2, <2>3 DEF Chained, Listed, OutcomeOf, SameStream, OfQueue
  <2>5. QED
    BY <2>4
<1>13. QED
  BY <1>1, <1>12 DEF ChainInv, DomainStaysFailed, Chained, OutcomeOf, SameStream, OfQueue

LEMMA ChainStep ==
  ASSUME EnoughRoom, PageInv, HeadInv, OutcomeInv, SyncInv, FaultInv, ChainInv, [Next]_vars
  PROVE  ChainInv'
<1>1. CASE Call \/ Proceed
  <2>1. UNCHANGED <<engineVars, deviceVars>>
    BY <1>1 DEF Call, Proceed
  <2>2. CASE StaysStep
    <3>1. Moves
      BY <2>1, <2>2, StaysTypes
    <3>2. /\ UNCHANGED <<issued, settled, active, qActive, qGeneration, reaped, completed, status, qFaults>>
          /\ pc' # "reaping"
      BY <3>1 DEF Moves, Counting, queueVars, deviceVars
    <3>3. QED
      BY <3>2, ChainFrame
  <2>3. CASE ReapBegin \/ ReapOne \/ LoseOne
    BY <2>1, <2>3, ChainReaps, ChainReapOne
  <2>4. CASE EnableStores \/ Enabled(qActive)
    BY <2>1, <2>4, ChainEnables
  <2>5. CASE Fill
    BY <2>1, <2>5, ChainFills
  <2>6. CASE Publish
    <3>1. /\ UNCHANGED <<issued, settled, active, qActive, qGeneration, reaped, completed, status, qFaults>>
          /\ pc' # "reaping"
      BY <2>1, <2>6 DEF Publish, deviceVars
    <3>2. QED
      BY <3>1, ChainFrame
  <2>7. QED
    BY <1>1, <2>2, <2>3, <2>4, <2>5, <2>6 DEF Call, Proceed, StaysStep
<1>2. CASE ControlStep
  BY <1>2, ChainEnables
<1>3. CASE InterruptStep \/ WorkerStep \/ UNCHANGED vars
  <2>1. UNCHANGED <<issued, settled, active, qActive, qGeneration, reaped, completed, status, qFaults, pc, upTo>>
    BY <1>3 DEF InterruptStep, Interrupt, WorkerStep, EngineStep, vars, pageVars, deviceVars, driverVars,
                queueVars, localVars
  <2>2. QED
    BY <2>1, ChainFrame
<1>4. CASE ResetStep
  <2>1. /\ UNCHANGED <<issued, settled, qGeneration, reaped, status, pc, upTo>> /\ ~qActive'
    BY <1>4 DEF ResetStep, DeviceReset, driverVars, queueVars, localVars
  <2>2. QED
    BY <2>1, ChainFrame
<1>5. CASE DeviceStep
  <2>1. UNCHANGED driverVars /\ UNCHANGED <<issued, settled, active, qGeneration, reaped, pc, upTo>>
    BY <1>5 DEF DeviceStep, driverVars, queueVars, localVars
  <2>2. CASE FinishStatus
    BY <2>1, <2>2, ChainWrites
  <2>3. CASE FinishCount
    BY <2>1, <2>3, ChainCounts
  <2>4. CASE ConsumeBegin
    <3>1. /\ UNCHANGED <<completed, status, qFaults>>
          /\ UNCHANGED qActive \/ ~qActive'
      BY <2>4 DEF ConsumeBegin
    <3>2. QED
      BY <2>1, <3>1, ChainFrame
  <2>5. CASE ConsumeEntry
    <3>1. UNCHANGED <<completed, status, qFaults, qActive>>
      BY <2>5 DEF ConsumeEntry, pageVars
    <3>2. QED
      BY <2>1, <3>1, ChainFrame
  <2>6. CASE \/ ConsumeEnd \/ CompleteBegin \/ DrainUnowned \/ CreditOldest
             \/ CompleteEnd \/ ReadWait \/ CompareWait
    <3>1. UNCHANGED <<completed, status, qFaults, qActive>>
      BY <2>6 DEF ConsumeEnd, CompleteBegin, DrainUnowned, CreditOldest, CompleteEnd, ReadWait,
                  CompareWait, pageVars
    <3>2. QED
      BY <2>1, <3>1, ChainFrame
  <2>7. QED
    BY <1>5, <2>2, <2>3, <2>4, <2>5, <2>6 DEF DeviceStep, Device
<1>6. QED
  BY <1>1, <1>2, <1>3, <1>4, <1>5 DEF Next, Quiet

LEMMA ChainInit == Init => ChainInv
BY DEF Init, DriverInit, ChainInv, DomainStaysFailed

(* All of it together. *)
StreamInv == SyncInv /\ FaultInv /\ ChainInv

LEMMA StreamInit == Init => StreamInv
BY SyncInit, FaultInit, ChainInit DEF StreamInv

LEMMA StreamStep ==
  ASSUME EnoughRoom PROVE PageInv /\ HeadInv /\ OutcomeInv /\ StreamInv /\ [Next]_vars => StreamInv'
BY SyncStep, FaultStep, ChainStep DEF StreamInv

-----------------------------------------------------------------------------
(* The contract.  Every entry published in this generation is a batch, so the contract's
   two lists can be read off the page and the driver's record.             *)
Placed == qActive => \A i \in 0..pgProduced - 1 : \E b \in DOMAIN issued : EntryIs(b, i)

SentSound ==
  /\ SentDomains \in Seq(Domains \cup {NoDomain})
  /\ Len(SentDomains) = IF qActive THEN pgProduced ELSE 0
  /\ qActive => \A i \in 0..pgProduced - 1, b \in DOMAIN issued :
       EntryIs(b, i) => SentDomains[i + 1] = issued[b].dom

WrittenSound ==
  /\ WrittenOutcomes \in Seq(Status)
  /\ Len(WrittenOutcomes) = IF qActive THEN completed ELSE 0
  /\ qActive => \A i \in 0..completed - 1, b \in DOMAIN issued :
       EntryIs(b, i) => WrittenOutcomes[i + 1] = OutcomeOf(b)

(* A list given by a function on 1..n. *)
LEMMA ListByFunction ==
  ASSUME NEW S, NEW n \in Nat, NEW f \in [1..n -> S]
  PROVE  f \in Seq(S) /\ Len(f) = n
<1>1. f \in Seq(S)
  BY SeqDef
<1>2. Len(f) \in Nat /\ DOMAIN f = 1..Len(f) /\ DOMAIN f = 1..n
  BY <1>1, LenProperties
<1>3. QED
  BY <1>1, <1>2

LEMMA BatchAtEntry ==
  ASSUME PageInv, NEW i, NEW b \in DOMAIN issued, EntryIs(b, i)
  PROVE  BatchAt(i) = b
<1>1. PICK a \in DOMAIN issued : a = BatchAt(i) /\ EntryIs(a, i)
  BY DEF BatchAt, EntryIs
<1>2. a = b
  BY <1>1, OneIndex DEF EntryIs
<1>3. QED
  BY <1>1, <1>2

LEMMA InWindow ==
  ASSUME PageInv, qActive
  PROVE  /\ completed \in Nat /\ pgProduced \in Nat /\ completed <= pgProduced
         /\ 0..completed - 1 \subseteq 0..pgProduced - 1
         /\ pgProduced - completed <= Depth /\ pgProduced - consumed \in 0..Depth
         /\ pgProduced > 0 => active /\ qGeneration = generation /\ pgProduced = produced
         /\ active => qGeneration = generation /\ pgProduced = produced /\ reaped <= completed
<1>1. /\ completed \in Nat /\ consumed \in Nat /\ pgProduced \in Nat /\ Len(entries) \in Nat /\ InHand \in Nat
      /\ Depth \in Nat
  BY PageNumbers, SMTT(30)
<1>2. consumed = completed + Len(entries) + InHand /\ consumed <= pgProduced /\ pgProduced - completed <= Depth
  BY DEF PageInv, DeviceInv
<1>3. pgProduced > 0 => active /\ qGeneration = generation /\ pgProduced = produced
  BY <1>1 DEF PageInv, JoinInv
<1>4. active => qGeneration = generation /\ pgProduced = produced /\ reaped <= completed
  BY DEF PageInv, JoinInv, WindowInv
<1>5. QED
  BY <1>1, <1>2, <1>3, <1>4

LEMMA SentReads == PageInv /\ Placed => SentSound
<1> SUFFICES ASSUME PageInv, Placed PROVE SentSound
  OBVIOUS
<1>1. CASE ~qActive
  <2>1. SentDomains = <<>>
    BY <1>1 DEF SentDomains
  <2>2. QED
    BY <1>1, <2>1 DEF SentSound
<1>2. CASE qActive
  <2>1. PICK n \in Nat : n = pgProduced
    BY PageNumbers
  <2>2. SentDomains = [i \in 1..n |-> issued[BatchAt(i - 1)].dom]
    BY <1>2, <2>1 DEF SentDomains
  <2>3. ASSUME NEW i \in 1..n PROVE issued[BatchAt(i - 1)].dom \in Domains \cup {NoDomain}
    <3>1. PICK b \in DOMAIN issued : EntryIs(b, i - 1)
      BY <1>2, <2>1 DEF Placed
    <3>2. BatchAt(i - 1) = b
      BY <3>1, BatchAtEntry
    <3>3. QED
      BY <3>2, IssuedNumbers DEF Issued_
  <2>4. SentDomains \in [1..n -> Domains \cup {NoDomain}]
    BY <2>2, <2>3
  <2>5. SentDomains \in Seq(Domains \cup {NoDomain}) /\ Len(SentDomains) = n
    BY <2>4, ListByFunction
  <2>6. ASSUME NEW i \in 0..n - 1, NEW b \in DOMAIN issued, EntryIs(b, i)
        PROVE  SentDomains[i + 1] = issued[b].dom
    <3>1. i + 1 \in 1..n /\ (i + 1) - 1 = i
      BY <2>1
    <3>2. SentDomains[i + 1] = issued[BatchAt((i + 1) - 1)].dom
      BY <2>2, <3>1
    <3>3. QED
      BY <2>6, <3>1, <3>2, BatchAtEntry
  <2>7. QED
    BY <1>2, <2>1, <2>5, <2>6 DEF SentSound
<1>3. QED
  BY <1>1, <1>2

LEMMA WrittenReads == PageInv /\ Placed => WrittenSound
<1> SUFFICES ASSUME PageInv, Placed PROVE WrittenSound
  OBVIOUS
<1>1. CASE ~qActive
  <2>1. WrittenOutcomes = <<>>
    BY <1>1 DEF WrittenOutcomes
  <2>2. QED
    BY <1>1, <2>1 DEF WrittenSound
<1>2. CASE qActive
  <2>1. PICK n \in Nat, r \in Nat : n = completed /\ r = reaped
    BY PageNumbers
  <2>2. WrittenOutcomes = [i \in 1..n |-> IF i <= r THEN settled[BatchAt(i - 1)] ELSE status[SlotOf(i - 1)]]
    BY <1>2, <2>1 DEF WrittenOutcomes
  <2>3. ASSUME NEW i \in 1..n
        PROVE  (IF i <= r THEN settled[BatchAt(i - 1)] ELSE status[SlotOf(i - 1)]) \in Status
    <3>1. PICK b \in DOMAIN issued : EntryIs(b, i - 1)
      BY <1>2, <2>1, InWindow DEF Placed
    <3>2. BatchAt(i - 1) = b /\ b \in Batches
      BY <3>1, BatchAtEntry, IssuedNumbers
    <3>3. settled[b] \in Status /\ status[SlotOf(i - 1)] \in Status
      BY <3>2, SlotType DEF PageInv, TypeOK, DriverTypeOK, PageTypeOK
    <3>4. QED
      BY <3>2, <3>3
  <2>4. WrittenOutcomes \in [1..n -> Status]
    BY <2>2, <2>3
  <2>5. WrittenOutcomes \in Seq(Status) /\ Len(WrittenOutcomes) = n
    BY <2>4, ListByFunction
  <2>6. ASSUME NEW i \in 0..n - 1, NEW b \in DOMAIN issued, EntryIs(b, i)
        PROVE  WrittenOutcomes[i + 1] = OutcomeOf(b)
    <3>1. i + 1 \in 1..n /\ (i + 1) - 1 = i /\ (i + 1 <= r <=> i < r)
      BY <2>1
    <3>2. WrittenOutcomes[i + 1]
            = IF i + 1 <= r THEN settled[BatchAt((i + 1) - 1)] ELSE status[SlotOf((i + 1) - 1)]
      BY <2>2, <3>1
    <3>3. BatchAt(i) = b /\ issued[b].index = i
      BY <2>6, BatchAtEntry DEF EntryIs
    <3>4. QED
      BY <2>1, <3>1, <3>2, <3>3 DEF OutcomeOf
  <2>7. QED
    BY <1>2, <2>1, <2>5, <2>6 DEF WrittenSound
<1>3. QED
  BY <1>1, <1>2

(* The step leaves what was sent, or what was written, of this generation alone. *)
SentKept ==
  UNCHANGED qActive /\ (qActive =>
    /\ UNCHANGED <<generation, pgProduced>>
    /\ \A b \in DOMAIN issued : b \in DOMAIN issued' /\ issued'[b] = issued[b])

WrittenKept ==
  qActive => /\ UNCHANGED completed
             /\ \A i \in 0..completed - 1, b \in DOMAIN issued : EntryIs(b, i) => OutcomeOf(b)' = OutcomeOf(b)

LEMMA LongerList ==
  ASSUME NEW S, NEW s \in Seq(S), NEW t \in Seq(S), NEW x \in S, Len(t) = Len(s) + 1,
         \A i \in 1..Len(s) : t[i] = s[i], t[Len(s) + 1] = x
  PROVE  t = Append(s, x)
<1>1. Append(s, x) \in Seq(S) /\ Len(Append(s, x)) = Len(s) + 1 /\ Len(s) \in Nat
  OBVIOUS
<1>2. ASSUME NEW i \in 1..Len(t) PROVE t[i] = Append(s, x)[i]
  <2>1. CASE i \in 1..Len(s)
    BY <2>1
  <2>2. CASE i = Len(s) + 1
    BY <2>2
  <2>3. QED
    BY <1>1, <2>1, <2>2
<1>3. QED
  BY <1>1, <1>2, SeqEqual

LEMMA SentStutters ==
  ASSUME PageInv, Placed, SentSound, SentSound', SentKept
  PROVE  SentDomains' = SentDomains
<1>1. PICK s \in Seq(Domains \cup {NoDomain}), t \in Seq(Domains \cup {NoDomain}) :
        s = SentDomains /\ t = SentDomains'
  BY DEF SentSound
<1>2. CASE ~qActive
  BY <1>2 DEF SentKept, SentDomains
<1>3. CASE qActive
  <2>1. PICK n \in Nat : n = pgProduced
    BY PageNumbers
  <2>2. Len(s) = n /\ Len(t) = n
    BY <1>1, <1>3, <2>1 DEF SentSound, SentKept
  <2>3. ASSUME NEW i \in 1..n PROVE s[i] = t[i]
    <3>1. i - 1 \in 0..n - 1 /\ (i - 1) + 1 = i
      OBVIOUS
    <3>2. PICK b \in DOMAIN issued : EntryIs(b, i - 1)
      BY <1>3, <2>1, <3>1 DEF Placed
    <3>3. EntryIs(b, i - 1)' /\ b \in DOMAIN issued' /\ issued'[b] = issued[b]
      BY <1>3, <3>2 DEF EntryIs, SentKept
    <3>4. s[(i - 1) + 1] = issued[b].dom
      BY <1>1, <1>3, <2>1, <3>1, <3>2 DEF SentSound
    <3>5. t[(i - 1) + 1] = issued'[b].dom
      BY <1>1, <1>3, <2>1, <3>1, <3>3 DEF SentSound, SentKept
    <3>6. QED
      BY <3>1, <3>3, <3>4, <3>5
  <2>4. s = t
    BY <2>2, <2>3, SeqEqual
  <2>5. QED
    BY <1>1, <2>4
<1>4. QED
  BY <1>2, <1>3

LEMMA WrittenStutters ==
  ASSUME PageInv, Placed, WrittenSound, WrittenSound', SentKept, WrittenKept
  PROVE  WrittenOutcomes' = WrittenOutcomes
<1>1. PICK s \in Seq(Status), t \in Seq(Status) : s = WrittenOutcomes /\ t = WrittenOutcomes'
  BY DEF WrittenSound
<1>2. CASE ~qActive
  BY <1>2 DEF SentKept, WrittenOutcomes
<1>3. CASE qActive
  <2>1. PICK n \in Nat : n = completed
    BY PageNumbers
  <2>2. Len(s) = n /\ Len(t) = n
    BY <1>1, <1>3, <2>1 DEF WrittenSound, SentKept, WrittenKept
  <2>3. ASSUME NEW i \in 1..n PROVE s[i] = t[i]
    <3>1. i - 1 \in 0..n - 1 /\ (i - 1) + 1 = i
      OBVIOUS
    <3>2. PICK b \in DOMAIN issued : EntryIs(b, i - 1)
      BY <1>3, <2>1, <3>1, InWindow DEF Placed
    <3>3. EntryIs(b, i - 1)' /\ b \in DOMAIN issued' /\ OutcomeOf(b)' = OutcomeOf(b)
      BY <1>3, <2>1, <3>1, <3>2 DEF EntryIs, SentKept, WrittenKept
    <3>4. s[(i - 1) + 1] = OutcomeOf(b)
      BY <1>1, <1>3, <2>1, <3>1, <3>2 DEF WrittenSound
    <3>5. t[(i - 1) + 1] = OutcomeOf(b)'
      BY <1>1, <1>3, <2>1, <3>1, <3>3 DEF WrittenSound, SentKept, WrittenKept
    <3>6. QED
      BY <3>1, <3>3, <3>4, <3>5
  <2>4. s = t
    BY <2>2, <2>3, SeqEqual
  <2>5. QED
    BY <1>1, <2>4
<1>4. QED
  BY <1>2, <1>3

(* The steps of the contract. *)
Reading == PageInv /\ Placed /\ SentSound /\ WrittenSound

LEMMA ContractStutters ==
  ASSUME Reading, Reading', SentKept, WrittenKept
  PROVE  UNCHANGED Contract!contractVars
<1>1. qActive' = qActive
  BY DEF SentKept
<1>2. SentDomains' = SentDomains
  BY SentStutters DEF Reading
<1>3. WrittenOutcomes' = WrittenOutcomes
  BY WrittenStutters DEF Reading
<1>4. QED
  BY <1>1, <1>2, <1>3 DEF Contract!contractVars

(* The batch just written becomes entry Produced. *)
LEMMA ContractPublishes ==
  ASSUME Reading, Reading', Publish, UNCHANGED <<engineVars, deviceVars>>, qActive
  PROVE  \E dom \in Domains \cup {NoDomain} : Contract!Publish(dom)
<1>1. /\ pc = "publish" /\ produced' = produced + 1 /\ pgProduced' = produced + 1
      /\ UNCHANGED <<qActive, generation, completed, issued, settled, reaped, status>>
  BY DEF Publish, At, deviceVars, wireVars
<1>2. /\ active /\ qGeneration = generation /\ pgProduced = produced /\ reaped <= completed
      /\ produced - reaped < Depth
  BY <1>1 DEF Reading, PageInv, JoinInv, WindowInv
<1>3. PICK n \in Nat, c \in Nat, r \in Nat : n = pgProduced /\ c = completed /\ r = reaped
  BY PageNumbers DEF Reading
<1>4. n - c < Depth
  BY <1>2, <1>3, PageNumbers DEF Reading
<1>5. PICK b \in DOMAIN issued : EntryIs(b, n)
  <2>1. issued # <<>> /\ OfQueue(Len(issued)) /\ issued[Len(issued)].index = produced
    BY <1>1, <1>2 DEF Reading, PageInv, IssuedInv
  <2>2. Len(issued) \in DOMAIN issued
    BY <2>1 DEF Reading, PageInv, TypeOK, DriverTypeOK
  <2>3. QED
    BY <1>2, <1>3, <2>1, <2>2 DEF EntryIs, OfQueue
<1>6. PICK d \in Domains \cup {NoDomain} : d = issued[b].dom
  BY IssuedNumbers DEF Reading, Issued_
<1>7. PICK s \in Seq(Domains \cup {NoDomain}), t \in Seq(Domains \cup {NoDomain}) :
        s = SentDomains /\ t = SentDomains'
  BY DEF Reading, SentSound
<1>8. Len(s) = n /\ Len(t) = n + 1
  BY <1>1, <1>2, <1>3, <1>7 DEF Reading, SentSound
<1>9. ASSUME NEW i \in 1..n PROVE t[i] = s[i]
  <2>1. i - 1 \in 0..n - 1 /\ i - 1 \in 0..(n + 1) - 1 /\ (i - 1) + 1 = i
    OBVIOUS
  <2>2. PICK a \in DOMAIN issued : EntryIs(a, i - 1)
    BY <1>3, <2>1 DEF Reading, Placed
  <2>3. s[(i - 1) + 1] = issued[a].dom
    BY <1>3, <1>7, <2>1, <2>2 DEF Reading, SentSound
  <2>4. t[(i - 1) + 1] = issued[a].dom
    BY <1>1, <1>2, <1>3, <1>7, <2>1, <2>2 DEF Reading, SentSound, EntryIs
  <2>5. QED
    BY <2>1, <2>3, <2>4
<1>10. t[n + 1] = d
  <2>1. n \in 0..(n + 1) - 1
    OBVIOUS
  <2>2. QED
    BY <1>1, <1>2, <1>3, <1>5, <1>6, <1>7, <2>1 DEF Reading, SentSound, EntryIs
<1>11. SentDomains' = Append(SentDomains, d)
  BY <1>7, <1>8, <1>9, <1>10, LongerList
<1>12. WrittenOutcomes' = WrittenOutcomes
  BY <1>1 DEF WrittenOutcomes, BatchAt
<1>13. Len(SentDomains) = n /\ Len(WrittenOutcomes) = c
  BY <1>3 DEF Reading, SentSound, WrittenSound
<1>14. Contract!Publish(d)
  BY <1>1, <1>4, <1>11, <1>12, <1>13 DEF Contract!Publish
<1>15. QED
  BY <1>14

(* The outcome of the oldest unfinished entry is counted: a success is of a stream that
   has not failed. *)
LEMMA ContractFinishes ==
  ASSUME Reading, Reading', OutcomeInv, FaultInv, ChainInv, FinishCount, UNCHANGED driverVars
  PROVE  \E outcome \in Error \cup {"none"} : Contract!Finish(outcome)
<1>1. /\ dpc = "count" /\ completed' = completed + 1
      /\ UNCHANGED <<qActive, generation, pgProduced, issued, settled, reaped, status>>
  BY DEF FinishCount, driverVars, queueVars, wireVars
<1>2. PICK f : f \in finishing
  BY <1>1 DEF Reading, PageInv, DeviceInv
<1>3. PICK o \in Outcome : o = f.error
  BY <1>2 DEF Reading, PageInv, TypeOK, DeviceTypeOK
<1>4. PICK b \in DOMAIN issued :
        /\ OfQueue(b) /\ EntryIs(b, completed) /\ issued[b].index = completed
        /\ OutcomeOf(b) = o /\ f.entry.dom = issued[b].dom
  BY <1>1, <1>2, <1>3, CountedBatch DEF Reading
<1>5. qActive /\ active /\ qGeneration = generation /\ completed < pgProduced
  BY <1>2, FinishingEntry, InWindow DEF Reading
<1>6. PICK c \in Nat, n \in Nat : c = completed /\ n = pgProduced /\ c < n
  BY <1>5, InWindow DEF Reading
<1>7. PICK s \in Seq(Status), t \in Seq(Status) : s = WrittenOutcomes /\ t = WrittenOutcomes'
  BY DEF Reading, WrittenSound
<1>8. Len(s) = c /\ Len(t) = c + 1 /\ o \in Status
  BY <1>1, <1>5, <1>6, <1>7 DEF Reading, WrittenSound, Status, Outcome
<1>9. \A a \in DOMAIN issued : OutcomeOf(a)' = OutcomeOf(a)
  BY <1>1 DEF OutcomeOf
<1>10. ASSUME NEW i \in 1..c
       PROVE  \E a \in DOMAIN issued : /\ EntryIs(a, i - 1) /\ s[i] = OutcomeOf(a) /\ t[i] = OutcomeOf(a)
                                       /\ SentDomains[i] = issued[a].dom
  <2>1. i - 1 \in 0..c - 1 /\ i - 1 \in 0..(c + 1) - 1 /\ i - 1 \in 0..n - 1 /\ (i - 1) + 1 = i
    BY <1>6
  <2>2. PICK a \in DOMAIN issued : EntryIs(a, i - 1)
    BY <1>5, <1>6, <2>1 DEF Reading, Placed
  <2>3. s[(i - 1) + 1] = OutcomeOf(a) /\ SentDomains[(i - 1) + 1] = issued[a].dom
    BY <1>5, <1>6, <1>7, <2>1, <2>2 DEF Reading, WrittenSound, SentSound
  <2>4. EntryIs(a, i - 1)' /\ a \in DOMAIN issued'
    BY <1>1, <2>2 DEF EntryIs
  <2>5. t[(i - 1) + 1] = OutcomeOf(a)'
    BY <1>1, <1>5, <1>6, <1>7, <2>1, <2>4 DEF Reading, WrittenSound
  <2>6. QED
    BY <1>9, <2>1, <2>2, <2>3, <2>5
<1>11. t[c + 1] = o
  <2>1. c \in 0..(c + 1) - 1
    OBVIOUS
  <2>2. EntryIs(b, c)' /\ b \in DOMAIN issued'
    BY <1>1, <1>4, <1>6 DEF EntryIs
  <2>3. t[c + 1] = OutcomeOf(b)'
    BY <1>1, <1>5, <1>6, <1>7, <2>1, <2>2 DEF Reading, WrittenSound
  <2>4. QED
    BY <1>4, <1>9, <2>3
<1>12. WrittenOutcomes' = Append(WrittenOutcomes, o)
  <2>1. \A i \in 1..Len(s) : t[i] = s[i]
    BY <1>8, <1>10
  <2>2. t = Append(s, o)
    BY <1>8, <1>11, <2>1, LongerList
  <2>3. QED
    BY <1>7, <2>2
<1>13. SentDomains' = SentDomains
  BY <1>1 DEF SentDomains, BatchAt
<1>14. Len(SentDomains) = n /\ Len(WrittenOutcomes) = c /\ SentDomains[c + 1] = issued[b].dom
  <2>1. c \in 0..n - 1
    BY <1>6
  <2>2. QED
    BY <1>4, <1>5, <1>6, <2>1 DEF Reading, SentSound, WrittenSound
<1>15. o = "none" => ~Contract!HasFailed(SentDomains[c + 1])
  <2> SUFFICES ASSUME o = "none", Contract!HasFailed(SentDomains[c + 1]) PROVE FALSE
    OBVIOUS
  <2>1. PICK d : d = issued[b].dom
    OBVIOUS
  <2>2. d # NoDomain /\ \E i \in DOMAIN WrittenOutcomes : SentDomains[i] = d /\ WrittenOutcomes[i] \in Error
    BY <1>14, <2>1 DEF Contract!HasFailed
  <2>3. DOMAIN s = 1..c
    BY <1>8
  <2>4. PICK i \in 1..c : SentDomains[i] = d /\ s[i] \in Error
    BY <1>7, <2>2, <2>3
  <2>5. PICK a \in DOMAIN issued : EntryIs(a, i - 1) /\ OutcomeOf(a) \in Error /\ issued[a].dom = d
    BY <1>10, <2>4
  <2>6. OfQueue(a) /\ issued[a].index < completed
    BY <1>5, <1>6, <2>5 DEF EntryIs, OfQueue
  <2>7. d \in Entries(qFaults)
    BY <1>5, <2>2, <2>5, <2>6 DEF ChainInv, Listed
  <2>8. QED
    BY <1>2, <1>3, <1>4, <2>1, <2>2, <2>7 DEF FaultInv, HostFaultInv
<1>16. Contract!Finish(o)
  BY <1>1, <1>5, <1>6, <1>12, <1>13, <1>14, <1>15 DEF Contract!Finish
<1>17. QED
  BY <1>16 DEF Outcome

(* QUEUE_CONTROL and an engine reset. *)
LEMMA ContractEnables ==
  ASSUME Reading, Reading', ControlStep
  PROVE  Contract!Enable \/ UNCHANGED Contract!contractVars
<1>1. /\ pc = "control" /\ UNCHANGED <<generation, pgProduced, issued, settled, reaped, status>>
  BY DEF ControlStep, WriteControl, At, queueVars, wireVars
<1>2. ~qActive /\ pgProduced = 0
  BY <1>1 DEF Reading, PageInv, JoinInv
<1>3. CASE UNCHANGED qActive
  <2>1. SentKept /\ WrittenKept
    BY <1>2, <1>3 DEF SentKept, WrittenKept
  <2>2. QED
    BY <2>1, ContractStutters
<1>4. CASE qActive' /\ completed' = 0
  <2>1. SentDomains = <<>> /\ WrittenOutcomes = <<>>
    BY <1>2 DEF SentDomains, WrittenOutcomes
  <2>2. PICK s \in Seq(Domains \cup {NoDomain}), t \in Seq(Status) :
          s = SentDomains' /\ t = WrittenOutcomes' /\ Len(s) = 0 /\ Len(t) = 0
    BY <1>1, <1>2, <1>4 DEF Reading, SentSound, WrittenSound
  <2>3. s = <<>> /\ t = <<>>
    BY <2>2, EmptySeq
  <2>4. QED
    BY <1>2, <1>4, <2>1, <2>2, <2>3 DEF Contract!Enable
<1>5. QED
  BY <1>3, <1>4 DEF ControlStep, EnableQueue, Restart

LEMMA ContractResets ==
  ASSUME Reading, Reading', ResetStep
  PROVE  Contract!Reset \/ UNCHANGED Contract!contractVars
<1>1. ~qActive'
  BY DEF ResetStep, DeviceReset
<1>2. SentDomains' = <<>> /\ WrittenOutcomes' = <<>>
  BY <1>1 DEF SentDomains, WrittenOutcomes
<1>3. CASE qActive
  BY <1>1, <1>2, <1>3 DEF Contract!Reset, Reading, PageInv, TypeOK, DeviceTypeOK
<1>4. CASE ~qActive
  <2>1. SentKept /\ WrittenKept
    BY <1>1, <1>4 DEF SentKept, WrittenKept, Reading, PageInv, TypeOK, DeviceTypeOK
  <2>2. QED
    BY <2>1, ContractStutters
<1>5. QED
  BY <1>3, <1>4

(* The driver's other steps. *)
LEMMA ContractProceeds ==
  ASSUME Reading, Reading', Call \/ Proceed
  PROVE  Contract!Next \/ UNCHANGED Contract!contractVars
<1>1. /\ UNCHANGED <<engineVars, deviceVars, generation>>
      /\ \A b \in DOMAIN issued : b \in DOMAIN issued' /\ issued'[b] = issued[b]
  BY DriverIssues DEF Reading
<1>2. UNCHANGED <<qActive, completed, generation>>
  BY <1>1 DEF deviceVars
<1>3. CASE Publish /\ qActive
  <2>1. \E dom \in Domains \cup {NoDomain} : Contract!Publish(dom)
    BY <1>1, <1>3, ContractPublishes
  <2>2. QED
    BY <2>1 DEF Contract!Next
<1>4. CASE ~qActive
  <2>1. SentKept /\ WrittenKept
    BY <1>2, <1>4 DEF SentKept, WrittenKept
  <2>2. QED
    BY <2>1, ContractStutters
<1>5. CASE qActive /\ ~Publish
  <2>1. ~LoseOne /\ ~EnableStores
    BY <1>5 DEF Reading, PageInv, JoinInv, LoseOne, EnableStores, At
  <2>2. CASE StaysStep
    <3>1. UNCHANGED <<pgProduced, reaped, issued, settled, status>>
      <4>1. Moves
        BY <1>1, <2>2, StaysTypes DEF Reading
      <4>2. QED
        BY <4>1 DEF Moves, Counting, queueVars
    <3>2. SentKept /\ WrittenKept
      BY <1>1, <1>2, <3>1 DEF SentKept, WrittenKept, OutcomeOf
    <3>3. QED
      BY <3>2, ContractStutters
  <2>3. CASE ReapBegin \/ ReapOne
    <3>1. pgProduced' = pgProduced
      BY <2>3 DEF ReapBegin, ReapOne, PageUntouched, pageVars
    <3>2. ASSUME NEW i \in 0..completed - 1, NEW b \in DOMAIN issued, EntryIs(b, i)
          PROVE  OutcomeOf(b)' = OutcomeOf(b)
      <4>1. CASE ReapBegin
        BY <4>1 DEF ReapBegin, PageUntouched, pageVars, queueVars, OutcomeOf
      <4>2. CASE ReapOne
        <5>1. active /\ qGeneration = generation
          BY <1>5, <3>2, InWindow DEF Reading
        <5>2. OfQueue(b)
          BY <3>2, <5>1 DEF EntryIs, OfQueue
        <5>3. QED
          BY <4>2, <5>2, ReapedOutcome DEF Reading
      <4>3. QED
        BY <2>3, <4>1, <4>2
    <3>3. SentKept /\ WrittenKept
      BY <1>1, <1>2, <3>1, <3>2 DEF SentKept, WrittenKept
    <3>4. QED
      BY <3>3, ContractStutters
  <2>4. CASE Enabled(qActive)
    <3>1. /\ pc = "enabled" /\ pgProduced' = pgProduced
      BY <2>4 DEF Enabled, At, PageUntouched, pageVars
    <3>2. 0..completed - 1 = {}
      BY <1>5, <3>1, InWindow DEF Reading, PageInv, JoinInv
    <3>3. SentKept /\ WrittenKept
      BY <1>1, <1>2, <3>1, <3>2 DEF SentKept, WrittenKept
    <3>4. QED
      BY <3>3, ContractStutters
  <2>5. CASE Fill
    <3>1. pc = "fill" /\ pgProduced' = pgProduced
      BY <2>5 DEF Fill, At
    <3>2. active
      BY <1>5, <3>1 DEF Reading, PageInv, JoinInv
    <3>3. ASSUME NEW i \in 0..completed - 1, NEW b \in DOMAIN issued, EntryIs(b, i)
          PROVE  OutcomeOf(b)' = OutcomeOf(b)
      <4>1. issued[b].index < completed
        BY <3>3, PageNumbers, SMTT(30) DEF EntryIs, Reading
      <4>2. QED
        BY <1>1, <1>5, <2>5, <3>2, <4>1, FilledOutcome DEF Reading
    <3>4. SentKept /\ WrittenKept
      BY <1>1, <1>2, <3>1, <3>3 DEF SentKept, WrittenKept
    <3>5. QED
      BY <3>4, ContractStutters
  <2>6. QED
    BY <1>5, <2>1, <2>2, <2>3, <2>4, <2>5 DEF Call, Proceed, StaysStep
<1>6. QED
  BY <1>3, <1>4, <1>5

LEMMA ContractServes ==
  ASSUME Reading, Reading', OutcomeInv, FaultInv, ChainInv, DeviceStep
  PROVE  Contract!Next \/ UNCHANGED Contract!contractVars
<1>1. UNCHANGED driverVars /\ UNCHANGED <<issued, settled, reaped>>
  BY DEF DeviceStep, driverVars, queueVars
<1>2. CASE FinishCount
  <2>1. \E outcome \in Error \cup {"none"} : Contract!Finish(outcome)
    BY <1>1, <1>2, ContractFinishes
  <2>2. QED
    BY <2>1 DEF Contract!Next
<1>3. CASE FinishStatus
  <2>1. UNCHANGED <<qActive, generation, pgProduced, completed>>
    BY <1>3 DEF FinishStatus, wireVars
  <2>2. ASSUME NEW i \in 0..completed - 1, NEW b \in DOMAIN issued, EntryIs(b, i)
        PROVE  OutcomeOf(b)' = OutcomeOf(b)
    <3>1. issued[b].index < completed
      BY <2>2, PageNumbers, SMTT(30) DEF EntryIs, Reading
    <3>2. QED
      BY <1>1, <1>3, <3>1, WrittenOutcome DEF Reading
  <2>3. SentKept /\ WrittenKept
    BY <1>1, <2>1, <2>2 DEF SentKept, WrittenKept
  <2>4. QED
    BY <2>3, ContractStutters
<1>4. ASSUME UNCHANGED <<qActive, generation, pgProduced, completed, status>>
      PROVE  UNCHANGED Contract!contractVars
  <2>1. SentKept /\ WrittenKept
    BY <1>1, <1>4 DEF SentKept, WrittenKept, OutcomeOf
  <2>2. QED
    BY <2>1, ContractStutters
<1>5. CASE ConsumeBegin
  <2>1. UNCHANGED <<generation, pgProduced, completed, status>>
    BY <1>5 DEF ConsumeBegin
  <2>2. qActive => pgProduced - consumed \in 0..Depth /\ pgProduced - completed \in 0..Depth
    <3> SUFFICES ASSUME qActive PROVE pgProduced - consumed \in 0..Depth /\ pgProduced - completed \in 0..Depth
      OBVIOUS
    <3>1. PageInv
      BY DEF Reading
    <3>2. /\ pgProduced - consumed \in 0..Depth /\ pgProduced - completed <= Depth /\ completed <= pgProduced
          /\ pgProduced \in Nat /\ completed \in Nat /\ Depth \in Nat
      BY <3>1, InWindow, PageNumbers
    <3>3. QED
      BY <3>2
  <2>3. UNCHANGED qActive
    BY <1>5, <2>2 DEF ConsumeBegin
  <2>4. QED
    BY <1>4, <2>1, <2>3
<1>6. CASE \/ ConsumeEntry \/ ConsumeEnd \/ CompleteBegin \/ DrainUnowned \/ CreditOldest
           \/ CompleteEnd \/ ReadWait \/ CompareWait
  <2>1. UNCHANGED <<qActive, generation, pgProduced, completed, status>>
    BY <1>6 DEF ConsumeEntry, ConsumeEnd, CompleteBegin, DrainUnowned, CreditOldest, CompleteEnd,
                ReadWait, CompareWait, pageVars, wireVars
  <2>2. QED
    BY <1>4, <2>1
<1>7. QED
  BY <1>2, <1>3, <1>5, <1>6 DEF DeviceStep, Device

(* Every step of the transport is one of the contract, or none. *)
LEMMA ContractStep ==
  Reading /\ Reading' /\ OutcomeInv /\ StreamInv /\ [Next]_vars => [Contract!Next]_(Contract!contractVars)
<1> SUFFICES ASSUME Reading, Reading', OutcomeInv, StreamInv, [Next]_vars
             PROVE  Contract!Next \/ UNCHANGED Contract!contractVars
  OBVIOUS
<1>1. CASE Call \/ Proceed
  BY <1>1, ContractProceeds
<1>2. CASE ControlStep
  BY <1>2, ContractEnables DEF Contract!Next
<1>3. CASE ResetStep
  BY <1>3, ContractResets DEF Contract!Next
<1>4. CASE DeviceStep
  BY <1>4, ContractServes DEF StreamInv
<1>5. CASE InterruptStep \/ WorkerStep \/ UNCHANGED vars
  <2>1. UNCHANGED <<qActive, generation, pgProduced, completed, status, issued, settled, reaped>>
    BY <1>5 DEF InterruptStep, Interrupt, WorkerStep, EngineStep, vars, pageVars, wireVars, deviceVars,
                driverVars, queueVars
  <2>2. SentKept /\ WrittenKept
    BY <2>1 DEF SentKept, WrittenKept, OutcomeOf
  <2>3. QED
    BY <2>2, ContractStutters
<1>6. QED
  BY <1>1, <1>2, <1>3, <1>4, <1>5 DEF Next, Quiet

LEMMA PlacedStep == PageInv /\ Placed /\ [Next]_vars => Placed'
<1> SUFFICES ASSUME PageInv, Placed, [Next]_vars PROVE Placed'
  OBVIOUS
<1>1. CASE Publish /\ UNCHANGED <<engineVars, deviceVars>>
  <2> SUFFICES ASSUME qActive', NEW i \in 0..pgProduced' - 1
               PROVE  \E b \in DOMAIN issued' : EntryIs(b, i)'
    BY DEF Placed
  <2>1. /\ pc = "publish" /\ pgProduced' = produced + 1 /\ qActive
        /\ UNCHANGED <<issued, generation>>
    BY <1>1 DEF Publish, At, deviceVars, wireVars
  <2>2. active /\ qGeneration = generation /\ pgProduced = produced
    BY <2>1 DEF PageInv, JoinInv
  <2>3. CASE i = produced
    <3>1. issued # <<>> /\ OfQueue(Len(issued)) /\ issued[Len(issued)].index = produced
      BY <2>1, <2>2 DEF PageInv, IssuedInv
    <3>2. Len(issued) \in DOMAIN issued
      BY <3>1 DEF PageInv, TypeOK, DriverTypeOK
    <3>3. QED
      BY <2>1, <2>2, <2>3, <3>1, <3>2 DEF EntryIs, OfQueue
  <2>4. CASE i # produced
    <3>1. i \in 0..(produced + 1) - 1 /\ produced \in Nat
      BY <2>1, PageNumbers
    <3>2. i \in 0..produced - 1
      BY <2>4, <3>1
    <3>3. QED
      BY <2>1, <2>2, <3>2 DEF Placed, EntryIs
  <2>5. QED
    BY <2>3, <2>4
<1>2. ASSUME pgProduced' = 0 PROVE Placed'
  BY <1>2 DEF Placed
<1>3. ASSUME qActive' => qActive /\ UNCHANGED <<generation, pgProduced>>,
             \A b \in DOMAIN issued : b \in DOMAIN issued' /\ issued'[b] = issued[b]
      PROVE  Placed'
  BY <1>3 DEF Placed, EntryIs
<1>4. CASE Call \/ Proceed
  <2>1. /\ UNCHANGED <<engineVars, deviceVars, generation>> /\ UNCHANGED qActive
        /\ \A b \in DOMAIN issued : b \in DOMAIN issued' /\ issued'[b] = issued[b]
    BY <1>4, DriverIssues DEF deviceVars
  <2>2. CASE EnableStores
    BY <1>2, <2>2 DEF EnableStores
  <2>3. CASE Publish
    BY <1>1, <2>1, <2>3
  <2>4. CASE StaysStep
    <3>1. Moves
      BY <2>1, <2>4, StaysTypes
    <3>2. QED
      BY <1>3, <2>1, <3>1 DEF Moves, Counting
  <2>5. CASE Fill \/ ReapBegin \/ ReapOne \/ LoseOne \/ Enabled(qActive)
    <3>1. pgProduced' = pgProduced
      BY <2>5 DEF Fill, ReapBegin, ReapOne, LoseOne, Enabled, PageUntouched, pageVars
    <3>2. QED
      BY <1>3, <2>1, <3>1
  <2>6. QED
    BY <1>4, <2>2, <2>3, <2>4, <2>5 DEF Call, Proceed, StaysStep
<1>5. CASE ControlStep
  BY <1>2, <1>5 DEF ControlStep, WriteControl, At, PageInv, JoinInv
<1>6. CASE InterruptStep \/ WorkerStep \/ ResetStep \/ UNCHANGED vars
  <2>1. UNCHANGED issued /\ (qActive' => UNCHANGED <<qActive, generation, pgProduced>>)
    BY <1>6 DEF InterruptStep, Interrupt, WorkerStep, EngineStep, ResetStep, DeviceReset, vars, pageVars,
                wireVars, deviceVars, driverVars
  <2>2. QED
    BY <1>3, <2>1
<1>7. CASE DeviceStep
  <2>1. UNCHANGED issued
    BY <1>7 DEF DeviceStep, driverVars
  <2>2. UNCHANGED <<generation, pgProduced>> /\ (qActive' => qActive)
    <3>1. CASE ConsumeBegin
      BY <3>1 DEF ConsumeBegin
    <3>2. CASE ConsumeEntry \/ ConsumeEnd
      <4>1. CASE ConsumeEntry
        BY <4>1 DEF ConsumeEntry, pageVars, wireVars
      <4>2. CASE ConsumeEnd
        BY <4>2 DEF ConsumeEnd, wireVars
      <4>3. QED
        BY <3>2, <4>1, <4>2
    <3>3. CASE CompleteBegin \/ DrainUnowned \/ CreditOldest \/ CompleteEnd
      BY <3>3 DEF CompleteBegin, DrainUnowned, CreditOldest, CompleteEnd, pageVars, wireVars
    <3>4. CASE FinishStatus \/ FinishCount \/ ReadWait \/ CompareWait
      BY <3>4 DEF FinishStatus, FinishCount, ReadWait, CompareWait, pageVars, wireVars
    <3>5. QED
      BY <1>7, <3>1, <3>2, <3>3, <3>4 DEF DeviceStep, Device
  <2>3. QED
    BY <1>3, <2>1, <2>2
<1>8. QED
  BY <1>4, <1>5, <1>6, <1>7 DEF Next, Quiet

LEMMA ContractInit == Init => Contract!Init
BY DEF Init, DeviceInit, Contract!Init, SentDomains, WrittenOutcomes

(* gl.h, DG_GL_REG_QUEUE: the driver, the page, the device and the engine together
   complete batches in entry order, at most Depth unfinished, and nothing of a domain
   that failed succeeds until the reset. *)
THEOREM ContractCorrect ==
  ASSUME EnoughRoom PROVE Spec => ImplementsContract
<1>1. Init => Placed
  BY DEF Placed, Init, DeviceInit
<1>2. PageInv /\ HeadInv /\ OutcomeInv /\ StreamInv /\ [Next]_vars => StreamInv'
  BY StreamStep
<1>3. PageInv /\ Placed => Reading
  BY SentReads, WrittenReads DEF Reading
<1>4. QED
  BY HeadInit, HeadStep, PageInit_, PageStep, OutcomeInit, OutcomeStep, StreamInit, <1>1, <1>2, PlacedStep,
     <1>3, ContractInit, ContractStep, PTL DEF Spec, ImplementsContract, Contract!Spec

-----------------------------------------------------------------------------
(* The table of unreported failures.  A row names a recorded failure of its stream; a
   stream has one row at most, so a table with a row for each never drops a report. *)
TableRoom == Cardinality(Domains) <= TableSlots

CallInv ==
  /\ call.async => call.dom \in Domains
  /\ call.kind = "open" => \A c \in call.client : clientGen[c] # -2

OrderInv ==
  /\ \A b \in DOMAIN issued : issued[b].live => issued[b].queue <= qGeneration
  /\ \A a, b \in DOMAIN issued :
       a < b /\ issued[a].live /\ issued[b].live => issued[a].queue <= issued[b].queue
  /\ \A b \in DOMAIN issued : issued[b].async => issued[b].dom \in Domains

RowInv ==
  /\ \A i \in 1..TableSlots : faults[i] # NoFault =>
       faults[i].batch \in DOMAIN issued /\ issued[faults[i].batch].dom = faults[i].dom
  /\ \A b \in told : b \in DOMAIN issued /\ settled[b] # "unset"

ReportInv == RowInv /\ FailureReported /\ ReportedOnce

TableInv == CallInv /\ OrderInv /\ ReportInv

(* A row left free is there for a stream that has none. *)
LEMMA RowFree ==
  ASSUME EnoughRoom, TableRoom, PageInv, ReportInv, NEW dom \in Domains, ~Reports(faults, dom)
  PROVE  FreeSlots(faults) # {}
<1> SUFFICES ASSUME FreeSlots(faults) = {} PROVE FALSE
  OBVIOUS
<1> DEFINE streams == [i \in 1..TableSlots |-> faults[i].dom]
           others  == Domains \ {dom}
<1>1. \A i \in 1..TableSlots : faults[i] # NoFault /\ faults[i] \in Fault_
  BY DEF FreeSlots, PageInv, TypeOK, DriverTypeOK
<1>2. streams \in [1..TableSlots -> others]
  BY <1>1 DEF Reports, Fault_
<1>3. \A i, j \in 1..TableSlots : streams[i] = streams[j] => i = j
  BY <1>1 DEF ReportInv, ReportedOnce
<1> HIDE DEF streams
<1>4. streams \in Injection(1..TableSlots, others)
  BY <1>2, <1>3 DEF Injection, IsInjective
<1>5. IsFiniteSet(others) /\ Cardinality(others) = Cardinality(Domains) - 1
  BY FS_RemoveElement DEF EnoughRoom
<1> HIDE DEF others
<1>6. Cardinality(1..TableSlots) <= Cardinality(others)
  BY <1>4, <1>5, FS_Injection
<1>7. Cardinality(1..TableSlots) = TableSlots /\ TableSlots \in Nat
  <2>1. ASSUME NEW m \in Nat PROVE Cardinality(1..m) = m
    BY FS_Interval
  <2>2. QED
    BY <2>1, TableConstants DEF TableConstants
<1>8. Cardinality(Domains) \in Nat
  BY FS_CardinalityType DEF EnoughRoom
<1>9. QED
  BY <1>5, <1>6, <1>7, <1>8 DEF TableRoom

(* What the driver's own steps do to the table: nothing, ... *)
LEMMA ReportFrame ==
  ASSUME PageInv, OrderInv, ReportInv, UNCHANGED <<faults, told, settled, issued>>,
         \A c \in Clients : clientGen[c] = -2 => clientGen'[c] = -2
  PROVE  ReportInv'
<1>1. \A b \in DOMAIN issued : issued[b].async /\ ClosedFor(b) => ClosedFor(b)'
  BY DriverConstants DEF DriverConstants, OrderInv, ClosedFor
<1>2. \A b : Reported(b)' <=> Reported(b)
  BY DEF Reported
<1>3. FailureReported'
  BY <1>1, <1>2 DEF ReportInv, FailureReported
<1>4. QED
  BY <1>3 DEF ReportInv, RowInv, ReportedOnce

(* ... drop what a closing client was not told, ... *)
LEMMA ReportLeaves ==
  ASSUME PageInv, OrderInv, ReportInv, Leave(faults), UNCHANGED <<told, settled, issued>>
  PROVE  ReportInv'
<1>1. CASE call.kind # "close"
  BY <1>1, ReportFrame DEF Leave
<1>2. CASE call.kind = "close"
  <2>1. /\ faults' = DropFaults(faults, ClientDomains)
        /\ clientGen' = [c \in Clients |-> IF c \in call.client THEN -2 ELSE clientGen[c]]
    BY <1>2 DEF Leave
  <2>2. \A i \in 1..TableSlots :
          /\ faults'[i] # NoFault => faults'[i] = faults[i]
          /\ faults[i] # NoFault /\ faults[i].dom \notin ClientDomains => faults'[i] = faults[i]
    BY <2>1 DEF DropFaults, FaultsIn
  <2>3. ASSUME NEW b \in DOMAIN issued, issued[b].async, ~ClosedFor(b)'
        PROVE  ~ClosedFor(b) /\ issued[b].dom \notin ClientDomains
    <3>1. issued[b].dom \in Domains /\ ClientOf[issued[b].dom] \in Clients
      BY <2>3, DriverConstants DEF DriverConstants, OrderInv
    <3>2. ~(ClientOf[issued[b].dom] \in call.client) /\ clientGen[ClientOf[issued[b].dom]] # -2
      BY <2>1, <2>3, <3>1 DEF ClosedFor
    <3>3. QED
      BY <3>1, <3>2 DEF ClosedFor, ClientDomains, DomainsOf
  <2>4. FailureReported'
    <3> SUFFICES ASSUME NEW b \in DOMAIN issued, issued[b].async, settled[b] \in Error, ~ClosedFor(b)'
                 PROVE  \E a \in 1..b : issued[a].dom = issued[b].dom /\ Reported(a)'
      BY DEF FailureReported
    <3>1. PICK a \in 1..b : issued[a].dom = issued[b].dom /\ Reported(a)
      BY <2>3 DEF ReportInv, FailureReported
    <3>2. Reported(a)'
      BY <2>2, <2>3, <3>1 DEF Reported, ReportInv, RowInv
    <3>3. QED
      BY <3>1, <3>2
  <2>5. RowInv' /\ ReportedOnce'
    BY <2>2 DEF ReportInv, RowInv, ReportedOnce
  <2>6. QED
    BY <2>4, <2>5 DEF ReportInv
<1>3. QED
  BY <1>1, <1>2

(* ... tell a failure, ... *)
LEMMA ReportDefers ==
  ASSUME PageInv, OrderInv, ReportInv, NEW domains, FaultsIn(faults, domains) # {}, Defer(domains),
         UNCHANGED <<settled, issued, clientGen>>
  PROVE  ReportInv'
<1>1. PICK i \in 1..TableSlots :
        /\ faults[i] # NoFault /\ told' = told \cup {faults[i].batch}
        /\ faults' = [faults EXCEPT ![i] = NoFault]
  <2>1. TakeSlot(faults, domains) \in FaultsIn(faults, domains)
    BY LowestIn DEF FaultsIn, TakeSlot
  <2>2. QED
    BY <2>1 DEF Defer, FaultsIn, WithoutSlot
<1>2. \A j \in 1..TableSlots :
        /\ faults'[j] # NoFault => j # i /\ faults'[j] = faults[j]
        /\ j # i => faults'[j] = faults[j]
  BY <1>1 DEF PageInv, TypeOK, DriverTypeOK
<1>3. \A b : Reported(b) => Reported(b)'
  BY <1>1, <1>2 DEF Reported
<1>4. FailureReported'
  BY <1>3 DEF ReportInv, FailureReported, ClosedFor
<1>5. RowInv'
  <2>1. settled[faults[i].batch] # "unset"
    <3>1. settled[faults[i].batch] = faults[i].error /\ faults[i].error \in Error
      BY <1>1 DEF ReportInv, ReportedOnce, PageInv, TypeOK, DriverTypeOK, Fault_
    <3>2. QED
      BY <3>1 DEF Error
  <2>2. QED
    BY <1>1, <1>2, <2>1 DEF ReportInv, RowInv
<1>6. ReportedOnce'
  <2>1. ASSUME NEW j \in 1..TableSlots, faults'[j] # NoFault PROVE faults[j].batch # faults[i].batch
    BY <1>1, <1>2, <2>1 DEF ReportInv, RowInv, ReportedOnce
  <2>2. QED
    BY <1>1, <1>2, <2>1 DEF ReportInv, ReportedOnce
<1>7. QED
  BY <1>4, <1>5, <1>6 DEF ReportInv

(* ... or record an outcome. *)
LEMMA RowOlder ==
  ASSUME PageInv, OutcomeInv, ChainInv, OrderInv, ReportInv, active,
         NEW b \in DOMAIN issued, OfQueue(b), issued[b].index = reaped, Reports(faults, issued[b].dom)
  PROVE  \E a \in 1..b : issued[a].dom = issued[b].dom /\ Reported(a)
<1>1. PICK i \in 1..TableSlots : faults[i] # NoFault /\ faults[i].dom = issued[b].dom
  BY DEF Reports
<1>2. PICK a \in DOMAIN issued : a = faults[i].batch /\ issued[a].dom = issued[b].dom
  BY <1>1 DEF ReportInv, RowInv
<1>3. settled[a] # "unset"
  <2>1. settled[a] = faults[i].error /\ faults[i].error \in Error
    BY <1>1, <1>2 DEF ReportInv, ReportedOnce, PageInv, TypeOK, DriverTypeOK, Fault_
  <2>2. QED
    BY <2>1 DEF Error
<1>4. issued[a].live /\ a \in Batches
  BY <1>2, <1>3, IssuedNumbers DEF ChainInv
<1>5. a \in Nat \ {0} /\ b \in Nat /\ issued[a].queue \in Nat /\ issued[b].queue \in Nat
      /\ issued[a].index \in Nat /\ issued[b].index \in Nat /\ qGeneration \in Nat
  <2>1. a \in 1..Len(issued) /\ Len(issued) \in Nat
    BY <1>2, IssuedNumbers
  <2>2. QED
    BY <2>1, IssuedNumbers, PageNumbers
<1>6. ~(b < a)
  <2> SUFFICES ASSUME b < a PROVE FALSE
    OBVIOUS
  <2>1. issued[b].queue <= issued[a].queue /\ issued[a].queue <= qGeneration
    BY <1>2, <1>4 DEF OrderInv, OfQueue
  <2>2. issued[a].queue = qGeneration
    BY <1>5, <2>1 DEF OfQueue
  <2>3. issued[b].index < issued[a].index
    BY <1>2, <1>4, <2>2 DEF PageInv, IssuedInv, OfQueue
  <2>4. issued[a].index < reaped
    BY <1>3, <1>4, <2>2 DEF OutcomeInv, FateInv, OfQueue
  <2>5. QED
    BY <1>5, <2>3, <2>4
<1>7. a \in 1..b /\ Reported(a)
  BY <1>1, <1>2, <1>5, <1>6 DEF Reported
<1>8. QED
  BY <1>2, <1>7

LEMMA ReportRecords ==
  ASSUME EnoughRoom, TableRoom, PageInv, OutcomeInv, ChainInv, OrderInv, ReportInv,
         active, reaped # produced, NEW o \in Status, Record(owners[SlotOf(reaped)], o),
         UNCHANGED <<told, issued, clientGen>>
  PROVE  ReportInv'
<1>1. PICK b \in DOMAIN issued :
        /\ OfQueue(b) /\ issued[b].index = reaped /\ b \in Batches
        /\ owners[SlotOf(reaped)] = [batch |-> b, dom |-> issued[b].dom, async |-> issued[b].async]
  BY Recorded
<1> DEFINE r == [dom |-> issued[b].dom, error |-> o, batch |-> b]
           failing == o \in Error /\ issued[b].async /\ issued[b].dom # NoDomain
<1>2. /\ faults' = IF failing THEN AddFault(faults, r) ELSE faults
      /\ settled' = [settled EXCEPT ![b] = o]
  BY <1>1 DEF Record, FaultOf
<1>3. r.dom = issued[b].dom /\ r.error = o /\ r.batch = b
  OBVIOUS
<1>4. issued[b].async => issued[b].dom \in Domains /\ issued[b].dom # NoDomain
  BY EngineConstants DEF EngineConstants, OrderInv
<1>5. failing => r \in Fault_ /\ r # NoFault
  BY <1>1, <1>4, FaultConstants DEF FaultConstants, Fault_
<1> HIDE DEF r
<1>6. settled[b] = "unset"
  <2>1. reaped \in Nat
    BY PageNumbers
  <2>2. QED
    BY <1>1, <2>1 DEF OutcomeInv, FateInv
<1>7. settled'[b] = o /\ \A x : x # b => settled'[x] = settled[x]
  BY <1>1, <1>2 DEF PageInv, TypeOK, DriverTypeOK
<1>8. \A i \in 1..TableSlots : faults[i] # NoFault =>
        faults[i].error \in Error /\ settled[faults[i].batch] = faults[i].error /\ faults[i].batch # b
  <2>1. ASSUME NEW i \in 1..TableSlots, faults[i] # NoFault
        PROVE  faults[i].error \in Error /\ settled[faults[i].batch] = faults[i].error
    BY <2>1 DEF ReportInv, ReportedOnce, PageInv, TypeOK, DriverTypeOK, Fault_
  <2>2. QED
    BY <1>6, <2>1 DEF Error
<1>9. b \notin told
  BY <1>6 DEF ReportInv, RowInv
<1>10. CASE failing /\ ~Reports(faults, issued[b].dom)
  <2>1. FreeSlots(faults) # {}
    BY <1>4, <1>10, RowFree
  <2>2. PICK k \in 1..TableSlots : faults[k] = NoFault /\ faults' = [faults EXCEPT ![k] = r]
    <3>1. Lowest(FreeSlots(faults)) \in FreeSlots(faults)
      BY <2>1, LowestIn DEF FreeSlots
    <3>2. QED
      BY <1>2, <1>3, <1>10, <2>1, <3>1 DEF AddFault, FreeSlots
  <2>3. faults'[k] = r /\ \A i \in 1..TableSlots : i # k => faults'[i] = faults[i]
    BY <2>2 DEF PageInv, TypeOK, DriverTypeOK
  <2>4. Reported(b)' /\ \A a : Reported(a) => Reported(a)'
    BY <1>3, <1>5, <1>10, <2>2, <2>3 DEF Reported
  <2>5. FailureReported'
    <3> SUFFICES ASSUME NEW x \in DOMAIN issued, issued[x].async, settled'[x] \in Error, ~ClosedFor(x)'
                 PROVE  \E a \in 1..x : issued[a].dom = issued[x].dom /\ Reported(a)'
      BY DEF FailureReported
    <3>1. CASE x = b
      <4>1. b \in 1..b
        BY IssuedNumbers
      <4>2. QED
        BY <2>4, <3>1, <4>1
    <3>2. CASE x # b
      BY <1>7, <2>4, <3>2 DEF ReportInv, FailureReported, ClosedFor
    <3>3. QED
      BY <3>1, <3>2
  <2>6. RowInv'
    BY <1>3, <1>6, <1>7, <1>9, <2>2, <2>3 DEF ReportInv, RowInv
  <2>7. ReportedOnce'
    <3> SUFFICES ASSUME NEW i \in 1..TableSlots, faults'[i] # NoFault
                 PROVE  /\ faults'[i].batch \notin told' /\ settled'[faults'[i].batch] = faults'[i].error
                        /\ \A j \in 1..TableSlots : faults'[j] # NoFault /\ i # j => faults'[i].dom # faults'[j].dom
      BY DEF ReportedOnce
    <3>1. faults'[i].batch \notin told'
      BY <1>3, <1>9, <2>3 DEF ReportInv, ReportedOnce
    <3>2. settled'[faults'[i].batch] = faults'[i].error
      BY <1>3, <1>7, <1>8, <2>3
    <3>3. ASSUME NEW j \in 1..TableSlots, faults'[j] # NoFault, i # j PROVE faults'[i].dom # faults'[j].dom
      BY <1>3, <1>10, <2>3, <3>3 DEF ReportInv, ReportedOnce, Reports
    <3>4. QED
      BY <3>1, <3>2, <3>3
  <2>8. QED
    BY <2>5, <2>6, <2>7 DEF ReportInv
<1>11. CASE faults' = faults /\ (failing => Reports(faults, issued[b].dom))
  <2>1. \A a : Reported(a)' <=> Reported(a)
    BY <1>11 DEF Reported
  <2>2. FailureReported'
    <3> SUFFICES ASSUME NEW x \in DOMAIN issued, issued[x].async, settled'[x] \in Error, ~ClosedFor(x)'
                 PROVE  \E a \in 1..x : issued[a].dom = issued[x].dom /\ Reported(a)'
      BY DEF FailureReported
    <3>1. CASE x = b
      BY <1>1, <1>4, <1>7, <1>11, <2>1, <3>1, RowOlder
    <3>2. CASE x # b
      BY <1>7, <2>1, <3>2 DEF ReportInv, FailureReported, ClosedFor
    <3>3. QED
      BY <3>1, <3>2
  <2>3. RowInv'
    BY <1>6, <1>7, <1>9, <1>11 DEF ReportInv, RowInv
  <2>4. ReportedOnce'
    BY <1>7, <1>8, <1>11 DEF ReportInv, ReportedOnce
  <2>5. QED
    BY <2>2, <2>3, <2>4 DEF ReportInv
<1>12. QED
  BY <1>2, <1>3, <1>10, <1>11 DEF AddFault

LEMMA ReportFills ==
  ASSUME PageInv, OutcomeInv, CallInv, OrderInv, ReportInv, Fill
  PROVE  OrderInv' /\ ReportInv'
<1>1. UNCHANGED <<settled, told, qGeneration>>
  BY DEF Fill, queueVars
<1>2. CASE UNCHANGED issued /\ Leave(faults)
  BY <1>1, <1>2, ReportLeaves DEF OrderInv
<1>3. CASE Valid /\ ~glFaulted
  <2>1. PICK r : /\ issued' = Append(issued, r) /\ r.dom = call.dom /\ r.async = call.async
                 /\ r.queue = qGeneration
                 /\ UNCHANGED <<faults, clientGen>>
    BY <1>3 DEF Fill
  <2>2. PICK n \in Nat : n = Len(issued) + 1
    BY IssuedNumbers
  <2>3. /\ DOMAIN issued' = DOMAIN issued \cup {n} /\ issued'[n] = r /\ n \notin DOMAIN issued
        /\ \A b \in DOMAIN issued : issued'[b] = issued[b] /\ b < n
    <3>1. issued \in Seq(Issued_)
      BY DEF PageInv, TypeOK, DriverTypeOK
    <3>2. QED
      BY <2>1, <2>2, <3>1
  <2>4. settled[n] \notin Error
    <3>1. n \in Batches => settled[n] = "unset"
      BY <2>3 DEF OutcomeInv, FateInv
    <3>2. n \in Batches
      <4>1. Len(issued) < MaxBatches /\ MaxBatches \in Nat
        <5>1. pc = "fill" /\ call.kind # "open"
          BY DEF Fill, At, PageInv, RoomInv
        <5>2. QED
          BY <5>1, PageNumbers DEF PageInv, RoomInv, BeforeFill
      <4>2. QED
        BY <2>2, <4>1, PageNumbers, SMTT(30) DEF Batches
    <3>3. QED
      BY <3>1, <3>2 DEF Error
  <2>5. OrderInv'
    <3>1. qGeneration \in Nat
      BY PageNumbers
    <3>2. ASSUME NEW a \in DOMAIN issued', NEW b \in DOMAIN issued', a < b, issued'[a].live, issued'[b].live
          PROVE  issued'[a].queue <= issued'[b].queue
      <4>1. a \in DOMAIN issued
        BY <2>2, <2>3, <3>2, IssuedNumbers
      <4>2. CASE b = n
        BY <2>1, <2>3, <3>2, <4>1, <4>2 DEF OrderInv
      <4>3. CASE b \in DOMAIN issued
        BY <2>3, <3>2, <4>1, <4>3 DEF OrderInv
      <4>4. QED
        BY <2>3, <4>2, <4>3
    <3>3. QED
      BY <1>1, <2>1, <2>3, <3>1, <3>2 DEF OrderInv, CallInv
  <2>6. FailureReported'
    <3> SUFFICES ASSUME NEW x \in DOMAIN issued', issued'[x].async, settled'[x] \in Error, ~ClosedFor(x)'
                 PROVE  \E a \in 1..x : issued'[a].dom = issued'[x].dom /\ Reported(a)'
      BY DEF FailureReported
    <3>1. x \in DOMAIN issued /\ issued'[x] = issued[x]
      BY <1>1, <2>3, <2>4
    <3>2. PICK a \in 1..x : issued[a].dom = issued[x].dom /\ Reported(a)
      BY <1>1, <2>1, <3>1 DEF ReportInv, FailureReported, ClosedFor
    <3>3. a \in DOMAIN issued
      BY <3>1, IssuedNumbers
    <3>4. QED
      BY <1>1, <2>1, <2>3, <3>1, <3>2, <3>3 DEF Reported
  <2>7. RowInv' /\ ReportedOnce'
    BY <1>1, <2>1, <2>3 DEF ReportInv, RowInv, ReportedOnce
  <2>8. QED
    BY <2>5, <2>6, <2>7 DEF ReportInv
<1>4. QED
  BY <1>2, <1>3 DEF Fill

(* The steps of a request. *)
LEMMA CallReturns ==
  ASSUME Return PROVE CallInv'
BY DEF Return, NoCall, CallInv

LEMMA TableRequests ==
  ASSUME PageInv, TableInv, Request
  PROVE  CallInv' /\ UNCHANGED <<faults, told, clientGen>>
<1>1. UNCHANGED <<faults, told, clientGen>> /\ call' \in Requests
  BY DEF Request, clientVars
<1>2. CASE call' \in OpenCalls
  <2>1. PICK c \in Clients : clientGen[c] = -1 /\ call' = [NoCall EXCEPT !.kind = "open", !.client = {c}]
    BY <1>2 DEF OpenCalls
  <2>2. call'.client = {c} /\ call'.async = FALSE
    BY <2>1 DEF NoCall
  <2>3. QED
    BY <1>1, <2>1, <2>2 DEF CallInv
<1>3. CASE call' \in SubmitCalls
  <2>1. PICK d \in Domains, a \in BOOLEAN :
          call' = [NoCall EXCEPT !.kind = "submit", !.client = {ClientOf[d]}, !.dom = d, !.async = a]
    BY <1>3 DEF SubmitCalls
  <2>2. call'.dom = d /\ call'.kind = "submit"
    BY <2>1 DEF NoCall
  <2>3. QED
    BY <1>1, <2>2 DEF CallInv
<1>4. CASE call' \in CloseCalls
  <2>1. PICK c : call' = [NoCall EXCEPT !.kind = "close", !.client = {c}]
    BY <1>4 DEF CloseCalls
  <2>2. call'.async = FALSE /\ call'.kind = "close"
    BY <2>1 DEF NoCall
  <2>3. QED
    BY <1>1, <2>2 DEF CallInv
<1>5. CASE call' \in KernelCalls
  <2>1. PICK x : call' = [NoCall EXCEPT !.kind = "kernel", !.coherent = x]
    BY <1>5 DEF KernelCalls
  <2>2. call'.async = FALSE /\ call'.kind = "kernel"
    BY <2>1 DEF NoCall
  <2>3. QED
    BY <1>1, <2>2 DEF CallInv
<1>6. QED
  BY <1>1, <1>2, <1>3, <1>4, <1>5 DEF Requests

LEMMA TableStays ==
  ASSUME PageInv, TableInv, StaysStep, UNCHANGED <<engineVars, deviceVars>>
  PROVE  TableInv'
<1>1. UNCHANGED <<issued, settled, qGeneration>>
  <2>1. Moves
    BY StaysTypes
  <2>2. QED
    BY <2>1 DEF Moves, Counting, queueVars
<1>2. OrderInv'
  BY <1>1 DEF TableInv, OrderInv
<1>3. ASSUME UNCHANGED <<faults, told, clientGen>>, CallInv' PROVE TableInv'
  BY <1>1, <1>2, <1>3, ReportFrame DEF TableInv
<1>4. ASSUME Leave(faults), UNCHANGED told PROVE TableInv'
  BY <1>1, <1>2, <1>4, ReportLeaves, CallReturns DEF TableInv, Leave
<1>5. ASSUME NEW domains, FaultsIn(faults, domains) # {}, Defer(domains), Return, UNCHANGED clientGen
      PROVE  TableInv'
  BY <1>1, <1>2, <1>5, ReportDefers, CallReturns DEF TableInv
<1>6. ASSUME UNCHANGED <<call, faults, told, clientGen>> PROVE TableInv'
  <2>1. CallInv'
    BY <1>6 DEF TableInv, CallInv
  <2>2. QED
    BY <1>3, <1>6, <2>1
<1>7. CASE Request
  BY <1>3, <1>7, TableRequests
<1>8. CASE \/ Ensure \/ ReadGeneration \/ ClaimBuffer \/ WaitLook \/ WaitArm \/ WaitRecheck
           \/ Wake \/ Watchdog
  <2>1. UNCHANGED <<call, faults, told, clientGen>>
    BY <1>8 DEF Ensure, ReadGeneration, ClaimBuffer, WaitLook, WaitArm, WaitRecheck, Wake, Watchdog,
                clientVars, localVars
  <2>2. QED
    BY <1>6, <2>1
<1>9. CASE Admit
  <2>1. UNCHANGED <<faults, told>>
    BY <1>9 DEF Admit
  <2>2. CASE Return /\ UNCHANGED clientGen
    BY <1>3, <2>1, <2>2, CallReturns
  <2>3. CASE call.kind = "open" /\ Return
             /\ clientGen' = [c \in Clients |-> IF c \in call.client THEN CurrentGeneration ELSE clientGen[c]]
    <3>1. \A c \in Clients : clientGen[c] = -2 => clientGen'[c] = -2
      BY <2>3 DEF TableInv, CallInv
    <3>2. ReportInv'
      BY <1>1, <2>1, <3>1, ReportFrame DEF TableInv
    <3>3. QED
      BY <1>2, <2>3, <3>2, CallReturns DEF TableInv
  <2>4. CASE call' = [call EXCEPT !.gen = CurrentGeneration] /\ UNCHANGED clientGen
    <3>1. call \in Call_
      BY DEF PageInv, TypeOK, DriverTypeOK
    <3>2. call'.async = call.async /\ call'.dom = call.dom /\ call'.kind = call.kind /\ call'.client = call.client
      BY <2>4, <3>1 DEF Call_
    <3>3. CallInv'
      BY <2>4, <3>2 DEF TableInv, CallInv
    <3>4. QED
      BY <1>3, <2>1, <2>4, <3>3
  <2>5. QED
    BY <1>9, <2>2, <2>3, <2>4 DEF Admit
<1>10. CASE Report
  <2>1. CASE FaultsIn(faults, ClientDomains) # {}
    <3>1. Defer(ClientDomains) /\ Return /\ UNCHANGED clientGen
      BY <1>10, <2>1 DEF Report, clientVars
    <3>2. QED
      BY <1>5, <2>1, <3>1
  <2>2. CASE FaultsIn(faults, ClientDomains) = {}
    BY <1>6, <1>10, <2>2 DEF Report, clientVars
  <2>3. QED
    BY <2>1, <2>2
<1>11. CASE BufferBegin \/ Claim
  <2>1. UNCHANGED told
    BY <1>11 DEF BufferBegin, Claim
  <2>2. Leave(faults) \/ UNCHANGED <<call, faults, clientGen>>
    BY <1>11 DEF BufferBegin, Claim
  <2>3. QED
    BY <1>4, <1>6, <2>1, <2>2
<1>12. CASE Waited
  <2>1. UNCHANGED told
    BY <1>12 DEF Waited
  <2>2. Leave(faults) \/ UNCHANGED <<call, faults, clientGen>>
    BY <1>12 DEF Waited, localVars, clientVars
  <2>3. QED
    BY <1>4, <1>6, <2>1, <2>2
<1>13. CASE Ring
  <2>1. UNCHANGED <<faults, told, clientGen>> /\ (Return \/ UNCHANGED call)
    BY <1>13 DEF Ring, clientVars
  <2>2. QED
    BY <1>3, <1>6, <2>1, CallReturns
<1>14. CASE Answer
  <2>1. CASE SkippedFor /\ FaultsIn(faults, {call.dom}) # {}
    <3>1. Defer({call.dom}) /\ Return /\ UNCHANGED clientGen
      BY <1>14, <2>1 DEF Answer
    <3>2. PICK domains : domains = {call.dom}
      OBVIOUS
    <3>3. FaultsIn(faults, domains) # {} /\ Defer(domains)
      BY <2>1, <3>1, <3>2
    <3>4. QED
      BY <1>5, <3>1, <3>3
  <2>2. CASE ~(SkippedFor /\ FaultsIn(faults, {call.dom}) # {})
    BY <1>4, <1>14, <2>2 DEF Answer
  <2>3. QED
    BY <2>1, <2>2
<1>15. QED
  BY <1>7, <1>8, <1>9, <1>10, <1>11, <1>12, <1>13, <1>14 DEF StaysStep

LEMMA TableProceeds ==
  ASSUME EnoughRoom, TableRoom, PageInv, OutcomeInv, ChainInv, TableInv, Proceed, ~StaysStep
  PROVE  TableInv'
<1>1. CASE ReapOne \/ LoseOne
  <2>1. UNCHANGED <<call, told, issued, clientGen, qGeneration>>
    BY <1>1 DEF ReapOne, LoseOne, clientVars, localVars
  <2>2. OrderInv' /\ CallInv'
    BY <2>1 DEF TableInv, OrderInv, CallInv
  <2>3. active /\ (pc = "reaping" => reaped <= upTo /\ upTo <= produced)
    BY <1>1 DEF ReapOne, LoseOne, At, PageInv, JoinInv, WindowInv
  <2>4. CASE UNCHANGED <<faults, settled>>
    BY <2>1, <2>2, <2>4, ReportFrame DEF TableInv
  <2>5. CASE ReapOne /\ reaped # upTo
    <3>1. reaped # produced /\ status[SlotOf(reaped)] \in Status
      <4>1. pc = "reaping" /\ reaped \in Nat /\ upTo \in Nat /\ produced \in Nat
        BY <2>5, PageNumbers DEF ReapOne, At
      <4>2. QED
        BY <2>3, <2>5, <4>1, SlotType DEF PageInv, TypeOK, PageTypeOK
    <3>2. PICK o \in Status : o = status[SlotOf(reaped)]
      BY <3>1
    <3>3. Record(owners[SlotOf(reaped)], o)
      BY <2>5, <3>2 DEF ReapOne
    <3>4. QED
      BY <2>1, <2>2, <2>3, <3>1, <3>3, ReportRecords DEF TableInv
  <2>6. CASE LoseOne /\ reaped # produced
    <3>1. PICK o \in Status : o = "generation"
      BY DEF Status, Error
    <3>2. Record(owners[SlotOf(reaped)], o)
      BY <2>6, <3>1 DEF LoseOne
    <3>3. QED
      BY <2>1, <2>2, <2>3, <2>6, <3>2, ReportRecords DEF TableInv
  <2>7. QED
    BY <1>1, <2>4, <2>5, <2>6 DEF ReapOne, LoseOne
<1>2. CASE ReapBegin \/ EnableStores \/ Publish
  <2>1. UNCHANGED <<call, faults, told, issued, settled, clientGen, qGeneration>>
    BY <1>2 DEF ReapBegin, EnableStores, Publish, clientVars, localVars, queueVars
  <2>2. OrderInv' /\ CallInv'
    BY <2>1 DEF TableInv, OrderInv, CallInv
  <2>3. QED
    BY <2>1, <2>2, ReportFrame DEF TableInv
<1>3. CASE Enabled(qActive)
  <2>1. /\ pc = "enabled" /\ UNCHANGED <<call, faults, told, issued, settled, clientGen>>
        /\ qGeneration' = IF qActive THEN upTo ELSE qGeneration
    BY <1>3 DEF Enabled, At, clientVars, queueVars
  <2>2. qActive => upTo = generation
    BY <2>1 DEF PageInv, JoinInv
  <2>3. \A b \in DOMAIN issued : issued[b].live => issued[b].queue <= qGeneration'
    BY <2>1, <2>2 DEF TableInv, OrderInv, PageInv, IssuedInv
  <2>4. OrderInv' /\ CallInv'
    BY <2>1, <2>3 DEF TableInv, OrderInv, CallInv
  <2>5. QED
    BY <2>1, <2>4, ReportFrame DEF TableInv
<1>4. CASE Fill
  <2>1. OrderInv' /\ ReportInv'
    BY <1>4, ReportFills DEF TableInv
  <2>2. CallInv'
    <3>1. CASE Valid /\ ~glFaulted
      BY <1>4, <3>1 DEF Fill, localVars, TableInv, CallInv
    <3>2. CASE ~(Valid /\ ~glFaulted)
      BY <1>4, <3>2, CallReturns DEF Fill, Leave
    <3>3. QED
      BY <3>1, <3>2
  <2>3. QED
    BY <2>1, <2>2 DEF TableInv
<1>5. QED
  BY <1>1, <1>2, <1>3, <1>4 DEF Proceed, StaysStep

LEMMA TableStep ==
  ASSUME EnoughRoom, TableRoom, PageInv, OutcomeInv, ChainInv, TableInv, [Next]_vars
  PROVE  TableInv'
<1>1. CASE Call
  BY <1>1, TableStays DEF Call, StaysStep
<1>2. CASE Proceed
  <2>1. CASE StaysStep
    BY <1>2, <2>1, TableStays DEF Proceed
  <2>2. QED
    BY <1>2, <2>1, TableProceeds
<1>3. CASE ControlStep \/ InterruptStep \/ DeviceStep \/ ResetStep \/ WorkerStep \/ UNCHANGED vars
  <2>1. UNCHANGED <<call, faults, told, issued, settled, clientGen, qGeneration>>
    BY <1>3 DEF ControlStep, WriteControl, InterruptStep, Interrupt, DeviceStep, ResetStep, WorkerStep,
                vars, driverVars, queueVars, clientVars, localVars
  <2>2. OrderInv' /\ CallInv'
    BY <2>1 DEF TableInv, OrderInv, CallInv
  <2>3. QED
    BY <2>1, <2>2, ReportFrame DEF TableInv
<1>4. QED
  BY <1>1, <1>2, <1>3 DEF Next, Quiet

LEMMA TableInit == Init => TableInv
<1> SUFFICES ASSUME Init PROVE TableInv
  OBVIOUS
<1>1. /\ issued = <<>> /\ told = {} /\ call = NoCall
      /\ \A i \in 1..TableSlots : faults[i] = NoFault
  BY DEF Init, DriverInit
<1>2. CallInv
  BY <1>1 DEF NoCall, CallInv
<1>3. OrderInv /\ ReportInv
  BY <1>1 DEF OrderInv, ReportInv, RowInv, FailureReported, ReportedOnce
<1>4. QED
  BY <1>2, <1>3 DEF TableInv

(* gl.h and docs/architecture.md: a stream that failed stays failed, its client learns of
   it unless it closes first, and only once.                               *)
THEOREM FailuresCorrect ==
  ASSUME EnoughRoom, TableRoom PROVE Spec => []FailuresTold
<1>1. PageInv /\ HeadInv /\ OutcomeInv /\ StreamInv /\ [Next]_vars => StreamInv'
  BY StreamStep
<1>2. PageInv /\ OutcomeInv /\ StreamInv /\ TableInv /\ [Next]_vars => TableInv'
  BY TableStep DEF StreamInv
<1>3. StreamInv /\ TableInv => FailuresTold
  BY DEF StreamInv, ChainInv, TableInv, ReportInv, FailuresTold
<1>4. QED
  BY HeadInit, HeadStep, PageInit_, PageStep, OutcomeInit, OutcomeStep, StreamInit, TableInit,
     <1>1, <1>2, <1>3, PTL DEF Spec
=============================================================================
