---------------------------- MODULE EngineProofs ----------------------------
(***************************************************************************)
(* For every number of batches, generations, domains and slots: the types  *)
(* of Engine, completion in submission order, and the separation of        *)
(* generations by the reset acknowledgement.                               *)
(***************************************************************************)
EXTENDS Engine, SubmissionProofs, FiniteSetTheorems

-----------------------------------------------------------------------------
(* Type correctness.  `polled' is a position only because every completion ever
   pushed is polled, dropped, or still in the ring.                        *)

Counted == polled + Len(done) = Len(history)

TypeInv == TypeOK /\ Counted

LEMMA PushCount ==
  ASSUME done \in Seq(Completion), Len(done) <= DoneSlots, history \in Seq(Completion),
         Len(done) <= Len(history), NEW c \in Completion, PushDone(c)
  PROVE  Len(done') <= Len(history')
<1>1. CASE Len(done) < DoneSlots
  BY <1>1 DEF PushDone
<1>2. CASE ~(Len(done) < DoneSlots)
  <2>1. done # <<>>
    BY <1>2, EngineConstants DEF EngineConstants
  <2>2. Tail(done) \in Seq(Completion) /\ Len(Tail(done)) = Len(done) - 1
    BY <2>1
  <2>3. QED
    BY <1>2, <2>2 DEF PushDone
<1>3. QED
  BY <1>1, <1>2

LEMMA WorkerCount ==
  ASSUME EngineTypeOK, Len(done) <= Len(history), Worker
  PROVE  Len(done') <= Len(history')
<1>1. CASE Take
  BY <1>1 DEF Take
<1>2. ASSUME NEW r \in Outcome, Complete(r)
      PROVE  Len(done') <= Len(history')
  <2>1. PICK b \in running :
          PushDone([batch |-> b.batch, gen |-> b.gen, dom |-> b.dom, error |-> r, reset |-> FALSE])
    BY <1>2 DEF Complete
  <2>2. b \in Batch
    BY DEF EngineTypeOK
  <2>3. [batch |-> b.batch, gen |-> b.gen, dom |-> b.dom, error |-> r, reset |-> FALSE] \in Completion
    BY <2>2 DEF Batch, Completion
  <2>4. QED
    BY <2>1, <2>3, PushCount DEF EngineTypeOK
<1>3. CASE ResetSnapshot
  BY <1>3 DEF ResetSnapshot
<1>4. CASE ResetDone
  <2>1. PICK g \in packets :
          \/ PushDone([batch |-> 0, gen |-> g, dom |-> NoDomain, error |-> "none", reset |-> TRUE])
          \/ UNCHANGED <<done, history>>
    BY <1>4 DEF ResetDone
  <2>2. [batch |-> 0, gen |-> g, dom |-> NoDomain, error |-> "none", reset |-> TRUE] \in Completion
    BY DEF Completion, Outcome, EngineTypeOK
  <2>3. QED
    BY <2>1, <2>2, PushCount DEF EngineTypeOK
<1>5. QED
  BY <1>1, <1>2, <1>3, <1>4 DEF Worker

LEMMA TypeInit == Init => TypeInv
<1> SUFFICES ASSUME Init PROVE TypeInv
  OBVIOUS
<1>1. EngineTypeOK
  BY EngineInitType DEF Init
<1>2. generation \in Generations
  BY EngineConstants DEF Init, EngineConstants, Generations
<1>3. submitted \in Seq(Batch) /\ polled \in 0..Len(history) /\ Counted
  BY DEF Init, EngineInit, Counted
<1>4. QED
  BY <1>1, <1>2, <1>3 DEF TypeInv, TypeOK

LEMMA TypeStep == TypeInv /\ [Next]_vars => TypeInv'
<1> SUFFICES ASSUME TypeInv, [Next]_vars PROVE TypeInv'
  OBVIOUS
<1> USE DEF TypeInv, TypeOK, Counted
<1>1. CASE SubmitNext
  <2>1. PICK dom \in Domains \cup {NoDomain}, error \in {"none", "failed"} :
          LET b == [batch |-> Len(submitted) + 1, gen |-> generation, dom |-> dom, error |-> error] IN
          Submit(b) /\ submitted' = Append(submitted, b)
    BY <1>1 DEF SubmitNext
  <2> DEFINE b == [batch |-> Len(submitted) + 1, gen |-> generation, dom |-> dom, error |-> error]
  <2>2. Len(submitted) + 1 \in Batches
    BY <1>1, EngineConstants DEF SubmitNext, Batches, EngineConstants
  <2>3. b \in Batch
    BY <2>2 DEF Batch, Outcome, Error
  <2>4. EngineTypeOK'
    BY <2>1, <2>3, SubmitType
  <2>5. done' = done /\ history' = history
    BY <2>1 DEF Submit
  <2>6. QED
    BY <1>1, <2>1, <2>3, <2>4, <2>5 DEF SubmitNext
<1>2. CASE PollNext
  <2>1. EngineTypeOK'
    BY <1>2, PollType DEF PollNext
  <2>2. Len(done') = Len(done) - 1 /\ Len(done') \in Nat /\ history' = history
    BY <1>2 DEF PollNext, Poll, EngineTypeOK
  <2>3. Len(done) \in Nat /\ Len(history) \in Nat
    BY DEF EngineTypeOK
  <2>4. polled' = polled + 1 /\ UNCHANGED <<generation, submitted>>
    BY <1>2 DEF PollNext
  <2>5. polled' + Len(done') = Len(history') /\ polled' \in 0..Len(history')
    BY <2>2, <2>3, <2>4
  <2>6. QED
    BY <2>1, <2>4, <2>5
<1>3. CASE ResetNext
  <2>1. generation + 1 \in Generations
    BY <1>3, EngineConstants DEF ResetNext, Generations, EngineConstants
  <2>2. EngineTypeOK'
    BY <1>3, <2>1, ResetType DEF ResetNext
  <2>3. QED
    BY <1>3, <2>1, <2>2 DEF ResetNext, ResetEngine
<1>4. CASE WorkerNext
  <2>1. EngineTypeOK'
    BY <1>4, WorkerType DEF WorkerNext
  <2>2. Len(done) <= Len(history)
    BY DEF EngineTypeOK
  <2>3. Len(done') <= Len(history')
    BY <1>4, <2>2, WorkerCount DEF WorkerNext
  <2>4. Len(done') \in Nat /\ Len(history') \in Nat
    BY <2>1 DEF EngineTypeOK
  <2>5. QED
    BY <1>4, <2>1, <2>3, <2>4 DEF WorkerNext
<1>5. CASE UNCHANGED vars
  <2>1. EngineTypeOK'
    BY <1>5, EngineFrame DEF vars
  <2>2. QED
    BY <1>5, <2>1 DEF vars, engineVars
<1>6. QED
  BY <1>1, <1>2, <1>3, <1>4, <1>5 DEF Next, Quiet

(* Every variable of the engine keeps its type, the rings and lists keep their
   sizes, and no completion is polled that was not pushed. *)
THEOREM TypeCorrect == Spec => []TypeOK
<1>1. TypeInv => TypeOK
  BY DEF TypeInv
<1>2. QED
  BY TypeInit, TypeStep, <1>1, PTL DEF Spec

-----------------------------------------------------------------------------
(* Order.  What completed is older than what runs, which is older than what
   waits, which waits in the order of submission.                          *)

HistoryOrder ==
  \A h \in DOMAIN history :
    /\ history[h].batch <= Len(submitted)
    /\ \A r \in running : history[h].batch < r.batch
    /\ \A i \in DOMAIN pending : history[h].batch < pending[i].batch

RunningOrder ==
  \A r \in running :
    /\ r.batch <= Len(submitted)
    /\ \A i \in DOMAIN pending : r.batch < pending[i].batch

WaitingOrder ==
  \A i \in DOMAIN pending :
    /\ pending[i].batch <= Len(submitted)
    /\ \A j \in DOMAIN pending : i < j => pending[i].batch < pending[j].batch

OrderInv == CompletesInOrder /\ HistoryOrder /\ RunningOrder /\ WaitingOrder

(* Generations.  A reset that is not acknowledged finds only older completions and
   an older batch running; no packet is out while a batch runs. *)
HistoryGenerations ==
  \A h \in DOMAIN history :
    /\ history[h].gen <= generation
    /\ reset => history[h].gen < generation
    /\ history[h].reset => \A r \in running : history[h].gen <= r.gen

RunningGeneration == \A r \in running : r.gen <= generation /\ (reset => r.gen < generation)

WaitingGeneration == \A i \in DOMAIN pending : pending[i].gen = generation

AckInv ==
  /\ AckSeparates /\ HistoryGenerations /\ RunningGeneration /\ WaitingGeneration
  /\ ticket = generation /\ (packets # {} => reset /\ running = {})

-----------------------------------------------------------------------------
(* The worker's steps, as the two invariants see them. *)

(* Pushing a completion appends it to the history. *)
LEMMA Pushed ==
  ASSUME history \in Seq(Completion), NEW c \in Completion, PushDone(c)
  PROVE  /\ DOMAIN history' = 1..Len(history) + 1 /\ DOMAIN history = 1..Len(history)
         /\ \A h \in DOMAIN history : history'[h] = history[h]
         /\ history'[Len(history) + 1] = c
BY DEF PushDone

(* The worker takes the head of the queue. *)
LEMMA Taken ==
  ASSUME EngineTypeOK, Take
  PROVE  /\ \A r \in running' : r.batch = pending[1].batch /\ r.gen = pending[1].gen
         /\ ~reset /\ running = {} /\ pending # <<>>
         /\ DOMAIN pending = 1..Len(pending) /\ DOMAIN pending' = 1..Len(pending) - 1
         /\ \A i \in DOMAIN pending' : pending'[i] = pending[i + 1]
         /\ Len(pending) \in Nat \ {0}
<1>1. ~reset /\ running = {} /\ pending # <<>> /\ pending' = Tail(pending)
  BY DEF Take, CanTake
<1>2. /\ DOMAIN pending = 1..Len(pending) /\ DOMAIN pending' = 1..Len(pending) - 1
      /\ \A i \in DOMAIN pending' : pending'[i] = pending[i + 1]
      /\ Len(pending) \in Nat \ {0}
  BY <1>1 DEF EngineTypeOK
<1>3. pending[1] \in Batch /\ Head(pending) = pending[1]
  BY <1>1, <1>2 DEF EngineTypeOK
<1>4. LET skipped == [pending[1] EXCEPT !.error = "skipped"] IN
      skipped.batch = pending[1].batch /\ skipped.gen = pending[1].gen
  BY <1>3 DEF Batch
<1>5. QED
  BY <1>1, <1>2, <1>3, <1>4 DEF Take

(* A batch that completes becomes the last completion. *)
LEMMA Completed ==
  ASSUME EngineTypeOK, NEW result \in Outcome, Complete(result)
  PROVE  \E b \in running :
           /\ DOMAIN history' = 1..Len(history) + 1 /\ DOMAIN history = 1..Len(history)
           /\ \A h \in DOMAIN history : history'[h] = history[h]
           /\ history'[Len(history) + 1].batch = b.batch
           /\ history'[Len(history) + 1].gen = b.gen
           /\ history'[Len(history) + 1].reset = FALSE
           /\ running' = {} /\ UNCHANGED <<pending, reset, ticket, packets>>
<1>1. PICK b \in running :
        /\ PushDone([batch |-> b.batch, gen |-> b.gen, dom |-> b.dom,
                     error |-> result, reset |-> FALSE])
        /\ running' = {} /\ UNCHANGED <<pending, reset, ticket, packets>>
  BY DEF Complete
<1> DEFINE c == [batch |-> b.batch, gen |-> b.gen, dom |-> b.dom, error |-> result, reset |-> FALSE]
<1>2. b \in Batch
  BY DEF EngineTypeOK
<1>3. c \in Completion
  BY <1>2 DEF Batch, Completion
<1>4. /\ DOMAIN history' = 1..Len(history) + 1 /\ DOMAIN history = 1..Len(history)
      /\ \A h \in DOMAIN history : history'[h] = history[h]
      /\ history'[Len(history) + 1] = c
  BY <1>1, <1>3, Pushed DEF EngineTypeOK
<1>5. QED
  BY <1>1, <1>4

(* An acknowledgement does too; one that a newer reset supersedes changes nothing. *)
LEMMA Acknowledged ==
  ASSUME EngineTypeOK, ResetDone
  PROVE  /\ packets # {} /\ packets' = {} /\ UNCHANGED <<pending, running, ticket>>
         /\ \/ /\ reset /\ ~reset'
               /\ DOMAIN history' = 1..Len(history) + 1 /\ DOMAIN history = 1..Len(history)
               /\ \A h \in DOMAIN history : history'[h] = history[h]
               /\ history'[Len(history) + 1].batch = 0
               /\ history'[Len(history) + 1].gen = ticket
            \/ UNCHANGED <<reset, history>>
<1>1. PICK g \in packets :
        /\ packets' = {} /\ UNCHANGED <<pending, running, ticket>>
        /\ IF Acknowledges(g)
           THEN /\ reset' = FALSE
                /\ PushDone([batch |-> 0, gen |-> g, dom |-> NoDomain,
                             error |-> "none", reset |-> TRUE])
           ELSE UNCHANGED <<reset, done, history>>
  BY DEF ResetDone
<1> DEFINE c == [batch |-> 0, gen |-> g, dom |-> NoDomain, error |-> "none", reset |-> TRUE]
<1>2. c \in Completion
  BY DEF Completion, Outcome, EngineTypeOK
<1>3. CASE Acknowledges(g)
  <2>1. PushDone(c) /\ reset /\ g = ticket /\ ~reset'
    BY <1>1, <1>3 DEF Acknowledges
  <2>2. /\ DOMAIN history' = 1..Len(history) + 1 /\ DOMAIN history = 1..Len(history)
        /\ \A h \in DOMAIN history : history'[h] = history[h]
        /\ history'[Len(history) + 1] = c
    BY <2>1, <1>2, Pushed DEF EngineTypeOK
  <2>3. c.batch = 0 /\ c.gen = g
    OBVIOUS
  <2>4. QED
    BY <1>1, <2>1, <2>2, <2>3
<1>4. CASE ~Acknowledges(g)
  BY <1>1, <1>4
<1>5. QED
  BY <1>3, <1>4

-----------------------------------------------------------------------------
(* What the invariants compare are numbers. *)
LEMMA Numbers ==
  ASSUME TypeInv
  PROVE  /\ Len(submitted) \in Nat /\ Len(history) \in Nat /\ Len(pending) \in Nat
         /\ generation \in Nat /\ ticket \in Nat
         /\ DOMAIN history = 1..Len(history) /\ DOMAIN pending = 1..Len(pending)
         /\ \A h \in DOMAIN history : history[h].batch \in Nat /\ history[h].gen \in Nat
         /\ \A r \in running : r.batch \in Nat \ {0} /\ r.gen \in Nat
         /\ \A i \in DOMAIN pending : pending[i].batch \in Nat \ {0} /\ pending[i].gen \in Nat
<1>1. Batches \subseteq Nat \ {0} /\ Generations \subseteq Nat
  BY EngineConstants DEF EngineConstants, Batches, Generations
<1>2. ASSUME NEW c \in Completion
      PROVE  c.batch \in Nat /\ c.gen \in Nat
  <2>1. c.batch \in Batches \cup {0}
    BY DEF Completion
  <2>2. c.gen \in Generations
    BY DEF Completion
  <2>3. Batches \cup {0} \subseteq Nat
    BY <1>1
  <2>4. c.batch \in Nat
    BY <2>1, <2>3
  <2>5. c.gen \in Nat
    BY <1>1, <2>2
  <2>6. QED
    BY <2>4, <2>5
<1>3. ASSUME NEW b \in Batch
      PROVE  b.batch \in Nat \ {0} /\ b.gen \in Nat
  <2>1. b.batch \in Batches /\ b.gen \in Generations
    BY DEF Batch
  <2>2. QED
    BY <1>1, <2>1
<1>4. /\ history \in Seq(Completion) /\ pending \in Seq(Batch) /\ running \subseteq Batch
      /\ submitted \in Seq(Batch) /\ generation \in Generations /\ ticket \in Generations
  BY DEF TypeInv, TypeOK, EngineTypeOK
<1>5. /\ \A h \in DOMAIN history : history[h] \in Completion
      /\ DOMAIN history = 1..Len(history) /\ Len(history) \in Nat
  BY <1>4
<1>6. /\ \A i \in DOMAIN pending : pending[i] \in Batch
      /\ DOMAIN pending = 1..Len(pending) /\ Len(pending) \in Nat
  BY <1>4
<1>7. Len(submitted) \in Nat /\ generation \in Nat /\ ticket \in Nat
  BY <1>1, <1>4
<1>8. \A h \in DOMAIN history : history[h].batch \in Nat /\ history[h].gen \in Nat
  BY <1>2, <1>5
<1>9. \A i \in DOMAIN pending : pending[i].batch \in Nat \ {0} /\ pending[i].gen \in Nat
  BY <1>3, <1>6
<1>10. \A r \in running : r.batch \in Nat \ {0} /\ r.gen \in Nat
  BY <1>3, <1>4
<1>11. QED
  BY <1>5, <1>6, <1>7, <1>8, <1>9, <1>10

LEMMA OrderInit == Init => OrderInv
BY DEF Init, EngineInit, OrderInv, CompletesInOrder, HistoryOrder, RunningOrder, WaitingOrder

LEMMA OrderStep == TypeInv /\ OrderInv /\ [Next]_vars => OrderInv'
<1> SUFFICES ASSUME TypeInv, OrderInv, [Next]_vars PROVE OrderInv'
  OBVIOUS
<1> USE DEF OrderInv
<1>0. EngineTypeOK
  BY DEF TypeInv, TypeOK
<1>1. CASE SubmitNext
  <2>1. PICK dom \in Domains \cup {NoDomain}, error \in {"none", "failed"} :
          LET b == [batch |-> Len(submitted) + 1, gen |-> generation, dom |-> dom, error |-> error] IN
          Submit(b) /\ submitted' = Append(submitted, b)
    BY <1>1 DEF SubmitNext
  <2> DEFINE b == [batch |-> Len(submitted) + 1, gen |-> generation, dom |-> dom, error |-> error]
  <2>2. pending' = Append(pending, b) /\ submitted' = Append(submitted, b)
        /\ UNCHANGED <<running, history>>
    BY <2>1 DEF Submit
  <2>3. Len(submitted') = Len(submitted) + 1
    BY <2>2 DEF TypeInv, TypeOK
  <2>4. /\ DOMAIN pending' = 1..Len(pending) + 1
        /\ \A i \in DOMAIN pending : pending'[i] = pending[i]
        /\ pending'[Len(pending) + 1].batch = Len(submitted) + 1
    BY <2>2, <1>0 DEF EngineTypeOK
  <2>5. CompletesInOrder'
    BY <2>2, <2>3, <2>4, Numbers DEF CompletesInOrder, HistoryOrder
  <2>6. HistoryOrder'
    BY <2>2, <2>3, <2>4, Numbers DEF HistoryOrder, RunningOrder, WaitingOrder
  <2>7. RunningOrder'
    BY <2>2, <2>3, <2>4, Numbers DEF HistoryOrder, RunningOrder, WaitingOrder
  <2>8. WaitingOrder'
    BY <2>2, <2>3, <2>4, Numbers DEF WaitingOrder
  <2>9. QED
    BY <2>5, <2>6, <2>7, <2>8
<1>2. CASE PollNext
  BY <1>2 DEF PollNext, Poll, CompletesInOrder, HistoryOrder, RunningOrder, WaitingOrder
<1>3. CASE ResetNext
  BY <1>3 DEF ResetNext, ResetEngine, CompletesInOrder, HistoryOrder, RunningOrder, WaitingOrder
<1>4. CASE WorkerNext
  <2>0. Worker /\ submitted' = submitted
    BY <1>4 DEF WorkerNext
  <2>1. CASE Take
    <3>1. history' = history
      BY <2>1 DEF Take
    <3>2. /\ \A r \in running' : r.batch = pending[1].batch
          /\ DOMAIN pending' = 1..Len(pending) - 1 /\ Len(pending) \in Nat \ {0}
          /\ \A i \in DOMAIN pending' : pending'[i] = pending[i + 1]
      BY <1>0, <2>1, Taken
    <3>3. /\ 1 \in DOMAIN pending
          /\ \A i \in DOMAIN pending' : i \in Nat /\ 1 < i + 1 /\ i + 1 \in DOMAIN pending
      BY <3>2, Numbers
    <3>4. CompletesInOrder'
      BY <3>1 DEF CompletesInOrder
    <3>5. \A i \in DOMAIN pending' : pending[1].batch < pending'[i].batch
      BY <3>2, <3>3 DEF WaitingOrder
    <3>6. HistoryOrder'
      BY <2>0, <3>1, <3>2, <3>3 DEF HistoryOrder
    <3>7. RunningOrder'
      BY <2>0, <3>2, <3>3, <3>5 DEF WaitingOrder, RunningOrder
    <3>8. WaitingOrder'
      <4>1. ASSUME NEW i \in DOMAIN pending', NEW j \in DOMAIN pending', i < j
            PROVE  pending'[i].batch < pending'[j].batch
        <5>1. i + 1 < j + 1
          BY <3>3, <4>1
        <5>2. QED
          BY <3>2, <3>3, <5>1 DEF WaitingOrder
      <4>2. QED
        BY <2>0, <3>2, <3>3, <4>1 DEF WaitingOrder
    <3>9. QED
      BY <3>4, <3>6, <3>7, <3>8
  <2>2. ASSUME NEW result \in Outcome, Complete(result)
        PROVE  OrderInv'
    <3>1. PICK b \in running :
            /\ DOMAIN history' = 1..Len(history) + 1 /\ DOMAIN history = 1..Len(history)
            /\ \A h \in DOMAIN history : history'[h] = history[h]
            /\ history'[Len(history) + 1].batch = b.batch
            /\ history'[Len(history) + 1].gen = b.gen
            /\ history'[Len(history) + 1].reset = FALSE
            /\ running' = {} /\ UNCHANGED <<pending, reset, ticket, packets>>
      BY <1>0, <2>2, Completed
    <3>2. CompletesInOrder'
      <4> SUFFICES ASSUME NEW i \in DOMAIN history', NEW j \in DOMAIN history', i < j,
                          history'[i].batch # 0, history'[j].batch # 0
                   PROVE  history'[i].batch < history'[j].batch
        BY DEF CompletesInOrder
      <4>1. i \in DOMAIN history /\ history'[i] = history[i]
        BY <3>1, Numbers
      <4>2. CASE j \in DOMAIN history
        BY <2>0, <3>1, <4>1, <4>2 DEF CompletesInOrder
      <4>3. CASE j = Len(history) + 1
        BY <2>0, <3>1, <4>1, <4>3 DEF HistoryOrder
      <4>4. QED
        BY <3>1, <4>2, <4>3, Numbers
    <3>3. HistoryOrder'
      BY <2>0, <3>1, Numbers DEF HistoryOrder, RunningOrder, WaitingOrder
    <3>4. RunningOrder'
      BY <2>0, <3>1, Numbers DEF HistoryOrder, RunningOrder, WaitingOrder
    <3>5. WaitingOrder'
      BY <2>0, <3>1, Numbers DEF WaitingOrder
    <3>6. QED
      BY <3>2, <3>3, <3>4, <3>5
  <2>3. CASE ResetSnapshot
    BY <2>0, <2>3 DEF ResetSnapshot, CompletesInOrder, HistoryOrder, RunningOrder, WaitingOrder
  <2>4. CASE ResetDone
    <3>1. UNCHANGED <<pending, running, ticket>> /\ packets # {} /\ packets' = {}
      BY <1>0, <2>4, Acknowledged
    <3>2. CASE UNCHANGED <<reset, history>>
      BY <2>0, <3>1, <3>2 DEF CompletesInOrder, HistoryOrder, RunningOrder, WaitingOrder
    <3>3. CASE /\ reset /\ ~reset'
               /\ DOMAIN history' = 1..Len(history) + 1 /\ DOMAIN history = 1..Len(history)
               /\ \A h \in DOMAIN history : history'[h] = history[h]
               /\ history'[Len(history) + 1].batch = 0
               /\ history'[Len(history) + 1].gen = ticket
      <4>1. CompletesInOrder'
        BY <2>0, <3>1, <3>3, Numbers DEF CompletesInOrder, HistoryOrder
      <4>2. HistoryOrder'
        BY <2>0, <3>1, <3>3, Numbers DEF HistoryOrder, RunningOrder, WaitingOrder
      <4>3. RunningOrder'
        BY <2>0, <3>1, <3>3, Numbers DEF HistoryOrder, RunningOrder, WaitingOrder
      <4>4. WaitingOrder'
        BY <2>0, <3>1, <3>3, Numbers DEF WaitingOrder
      <4>5. QED
        BY <4>1, <4>2, <4>3, <4>4
    <3>4. QED
      BY <1>0, <2>4, <3>2, <3>3, Acknowledged
  <2>5. QED
    BY <2>0, <2>1, <2>2, <2>3, <2>4 DEF Worker
<1>5. CASE UNCHANGED vars
  BY <1>5 DEF vars, engineVars, CompletesInOrder, HistoryOrder, RunningOrder, WaitingOrder
<1>6. QED
  BY <1>1, <1>2, <1>3, <1>4, <1>5 DEF Next, Quiet

(* Batches complete in the order in which they were submitted, each at most once,
   whatever the worker, the polls and the resets interleave to. *)
THEOREM OrderCorrect == Spec => []CompletesInOrder
<1>1. OrderInv => CompletesInOrder
  BY DEF OrderInv
<1>2. QED
  BY TypeInit, TypeStep, OrderInit, OrderStep, <1>1, PTL DEF Spec

LEMMA AckInit == Init => AckInv
BY DEF Init, EngineInit, AckInv, AckSeparates, HistoryGenerations, RunningGeneration,
       WaitingGeneration

LEMMA AckStep == TypeInv /\ AckInv /\ [Next]_vars => AckInv'
<1> SUFFICES ASSUME TypeInv, AckInv, [Next]_vars PROVE AckInv'
  OBVIOUS
<1> USE DEF AckInv
<1>0. EngineTypeOK
  BY DEF TypeInv, TypeOK
<1>1. CASE SubmitNext
  <2>1. PICK dom \in Domains \cup {NoDomain}, error \in {"none", "failed"} :
          Submit([batch |-> Len(submitted) + 1, gen |-> generation, dom |-> dom, error |-> error])
    BY <1>1 DEF SubmitNext
  <2>2. /\ DOMAIN pending' = 1..Len(pending) + 1
        /\ \A i \in DOMAIN pending : pending'[i] = pending[i]
        /\ pending'[Len(pending) + 1].gen = generation
        /\ UNCHANGED <<running, history, reset, ticket, packets>>
    BY <2>1, <1>0 DEF EngineTypeOK, Submit
  <2>3. generation' = generation
    BY <1>1 DEF SubmitNext
  <2>4. AckSeparates'
    BY <2>2, <2>3, Numbers DEF AckSeparates, HistoryGenerations
  <2>5. HistoryGenerations'
    BY <2>2, <2>3, Numbers DEF HistoryGenerations, RunningGeneration, WaitingGeneration
  <2>6. RunningGeneration'
    BY <2>2, <2>3, Numbers DEF HistoryGenerations, RunningGeneration, WaitingGeneration
  <2>7. WaitingGeneration'
    BY <2>2, <2>3, Numbers DEF HistoryGenerations, RunningGeneration, WaitingGeneration
  <2>8. ticket' = generation' /\ (packets' # {} => reset' /\ running' = {})
    BY <2>2, <2>3, Numbers DEF HistoryGenerations, RunningGeneration, WaitingGeneration
  <2>9. QED
    BY <2>4, <2>5, <2>6, <2>7, <2>8
<1>2. CASE PollNext
  BY <1>2 DEF PollNext, Poll, AckSeparates, HistoryGenerations, RunningGeneration, WaitingGeneration
<1>3. CASE ResetNext
  <2>1. /\ generation' = generation + 1 /\ ticket' = generation + 1 /\ reset' /\ pending' = <<>>
        /\ UNCHANGED <<running, history, packets>>
    BY <1>3 DEF ResetNext, ResetEngine
  <2>2. AckSeparates'
    BY <2>1, Numbers DEF AckSeparates, HistoryGenerations
  <2>3. HistoryGenerations'
    BY <2>1, Numbers DEF HistoryGenerations, RunningGeneration, WaitingGeneration
  <2>4. RunningGeneration'
    BY <2>1, Numbers DEF HistoryGenerations, RunningGeneration, WaitingGeneration
  <2>5. WaitingGeneration'
    BY <2>1, Numbers DEF HistoryGenerations, RunningGeneration, WaitingGeneration
  <2>6. ticket' = generation' /\ (packets' # {} => reset' /\ running' = {})
    BY <2>1, Numbers DEF HistoryGenerations, RunningGeneration, WaitingGeneration
  <2>7. QED
    BY <2>2, <2>3, <2>4, <2>5, <2>6
<1>4. CASE WorkerNext
  <2>0. Worker /\ generation' = generation
    BY <1>4 DEF WorkerNext
  <2>1. CASE Take
    <3>1. UNCHANGED <<history, reset, ticket, packets>>
      BY <2>1 DEF Take
    <3>2. /\ \A r \in running' : r.gen = pending[1].gen
          /\ ~reset /\ DOMAIN pending' = 1..Len(pending) - 1 /\ Len(pending) \in Nat \ {0}
          /\ \A i \in DOMAIN pending' : pending'[i] = pending[i + 1]
      BY <1>0, <2>1, Taken
    <3>3. packets = {}
      BY <3>2
    <3>4. AckSeparates'
      BY <2>0, <3>1, <3>2, <3>3, Numbers DEF AckSeparates, HistoryGenerations
    <3>5. HistoryGenerations'
      BY <2>0, <3>1, <3>2, <3>3, Numbers DEF HistoryGenerations, RunningGeneration, WaitingGeneration
    <3>6. RunningGeneration'
      BY <2>0, <3>1, <3>2, <3>3, Numbers DEF HistoryGenerations, RunningGeneration, WaitingGeneration
    <3>7. WaitingGeneration'
      BY <2>0, <3>1, <3>2, <3>3, Numbers DEF HistoryGenerations, RunningGeneration, WaitingGeneration
    <3>8. ticket' = generation' /\ (packets' # {} => reset' /\ running' = {})
      BY <2>0, <3>1, <3>2, <3>3, Numbers DEF HistoryGenerations, RunningGeneration, WaitingGeneration
    <3>9. QED
      BY <3>4, <3>5, <3>6, <3>7, <3>8
  <2>2. ASSUME NEW result \in Outcome, Complete(result)
        PROVE  AckInv'
    <3>1. PICK b \in running :
            /\ DOMAIN history' = 1..Len(history) + 1 /\ DOMAIN history = 1..Len(history)
            /\ \A h \in DOMAIN history : history'[h] = history[h]
            /\ history'[Len(history) + 1].batch = b.batch
            /\ history'[Len(history) + 1].gen = b.gen
            /\ history'[Len(history) + 1].reset = FALSE
            /\ running' = {} /\ UNCHANGED <<pending, reset, ticket, packets>>
      BY <1>0, <2>2, Completed
    <3>2. AckSeparates'
      <4> SUFFICES ASSUME NEW i \in DOMAIN history', NEW j \in DOMAIN history', i < j
                   PROVE  /\ history'[i].reset => history'[j].gen >= history'[i].gen
                          /\ history'[j].reset => history'[i].gen < history'[j].gen
        BY DEF AckSeparates
      <4>1. CASE j \in DOMAIN history
        <5>1. i \in DOMAIN history
          BY <3>1, <4>1, Numbers
        <5>2. QED
          BY <3>1, <4>1, <5>1 DEF AckSeparates
      <4>2. CASE j = Len(history) + 1
        <5>1. i \in DOMAIN history
          BY <3>1, <4>2, Numbers
        <5>2. QED
          BY <3>1, <4>2, <5>1, Numbers DEF HistoryGenerations
      <4>3. QED
        BY <3>1, <4>1, <4>2
    <3>3. HistoryGenerations'
      BY <2>0, <3>1, Numbers DEF HistoryGenerations, RunningGeneration, WaitingGeneration
    <3>4. RunningGeneration'
      BY <2>0, <3>1, Numbers DEF HistoryGenerations, RunningGeneration, WaitingGeneration
    <3>5. WaitingGeneration'
      BY <2>0, <3>1, Numbers DEF HistoryGenerations, RunningGeneration, WaitingGeneration
    <3>6. ticket' = generation' /\ (packets' # {} => reset' /\ running' = {})
      BY <2>0, <3>1, Numbers DEF HistoryGenerations, RunningGeneration, WaitingGeneration
    <3>7. QED
      BY <3>2, <3>3, <3>4, <3>5, <3>6
  <2>3. CASE ResetSnapshot
    BY <2>0, <2>3 DEF ResetSnapshot, AckSeparates, HistoryGenerations, RunningGeneration, WaitingGeneration
  <2>4. CASE ResetDone
    <3>1. UNCHANGED <<pending, running, ticket>> /\ packets # {} /\ packets' = {}
      BY <1>0, <2>4, Acknowledged
    <3>2. CASE UNCHANGED <<reset, history>>
      BY <2>0, <3>1, <3>2 DEF AckSeparates, HistoryGenerations, RunningGeneration, WaitingGeneration
    <3>3. CASE /\ reset /\ ~reset'
               /\ DOMAIN history' = 1..Len(history) + 1 /\ DOMAIN history = 1..Len(history)
               /\ \A h \in DOMAIN history : history'[h] = history[h]
               /\ history'[Len(history) + 1].batch = 0
               /\ history'[Len(history) + 1].gen = ticket
      <4>1. AckSeparates'
        <5> SUFFICES ASSUME NEW i \in DOMAIN history', NEW j \in DOMAIN history', i < j
                     PROVE  /\ history'[i].reset => history'[j].gen >= history'[i].gen
                            /\ history'[j].reset => history'[i].gen < history'[j].gen
          BY DEF AckSeparates
        <5>1. CASE j \in DOMAIN history
          <6>1. i \in DOMAIN history
            BY <3>3, <5>1, Numbers
          <6>2. QED
            BY <3>3, <5>1, <6>1 DEF AckSeparates
        <5>2. CASE j = Len(history) + 1
          <6>1. i \in DOMAIN history
            BY <3>3, <5>2, Numbers
          <6>2. history[i].gen < ticket
            BY <3>3, <6>1 DEF HistoryGenerations
          <6>3. QED
            BY <3>3, <5>2, <6>1, <6>2, Numbers
        <5>3. QED
          BY <3>3, <5>1, <5>2
      <4>2. HistoryGenerations'
        BY <2>0, <3>1, <3>3, Numbers DEF HistoryGenerations, RunningGeneration, WaitingGeneration
      <4>3. RunningGeneration'
        BY <2>0, <3>1, <3>3, Numbers DEF HistoryGenerations, RunningGeneration, WaitingGeneration
      <4>4. WaitingGeneration'
        BY <2>0, <3>1, <3>3, Numbers DEF HistoryGenerations, RunningGeneration, WaitingGeneration
      <4>5. ticket' = generation' /\ (packets' # {} => reset' /\ running' = {})
        BY <2>0, <3>1, <3>3, Numbers DEF HistoryGenerations, RunningGeneration, WaitingGeneration
      <4>6. QED
        BY <4>1, <4>2, <4>3, <4>4, <4>5
    <3>4. QED
      BY <1>0, <2>4, <3>2, <3>3, Acknowledged
  <2>5. QED
    BY <2>0, <2>1, <2>2, <2>3, <2>4 DEF Worker
<1>5. CASE UNCHANGED vars
  BY <1>5 DEF vars, engineVars, AckSeparates, HistoryGenerations, RunningGeneration, WaitingGeneration
<1>6. QED
  BY <1>1, <1>2, <1>3, <1>4, <1>5 DEF Next, Quiet

(* The acknowledgement of a reset separates the generations in the completion
   stream, also when resets supersede one another while a packet is out. *)
THEOREM AckCorrect == Spec => []AckSeparates
<1>1. AckInv => AckSeparates
  BY DEF AckInv
<1>2. QED
  BY TypeInit, TypeStep, AckInit, AckStep, <1>1, PTL DEF Spec

-----------------------------------------------------------------------------
(* Nothing is lost: a reset discards exactly the older generations. *)

LossInv == NothingLost /\ \A b \in DOMAIN submitted : submitted[b].gen <= generation

LEMMA LossInit == Init => LossInv
BY DEF Init, EngineInit, LossInv, NothingLost

(* Batches only leave `pending' for `running', and `running' for the history. *)
Somewhere(b) ==
  \/ \E i \in DOMAIN history : history[i].batch = b
  \/ \E r \in running : r.batch = b
  \/ \E i \in DOMAIN pending : pending[i].batch = b

LEMMA WorkerKeeps ==
  ASSUME TypeInv, Worker, NEW b \in Nat, Somewhere(b)
  PROVE  Somewhere(b)'
<1>0. EngineTypeOK
  BY DEF TypeInv, TypeOK
<1>1. CASE Take
  <2>1. UNCHANGED history /\ running' # {}
    BY <1>1 DEF Take
  <2>2. /\ \A r \in running' : r.batch = pending[1].batch
        /\ running = {} /\ DOMAIN pending = 1..Len(pending)
        /\ DOMAIN pending' = 1..Len(pending) - 1 /\ Len(pending) \in Nat \ {0}
        /\ \A i \in DOMAIN pending' : pending'[i] = pending[i + 1]
    BY <1>0, <1>1, Taken
  <2>3. CASE \E i \in DOMAIN history : history[i].batch = b
    BY <2>1, <2>3 DEF Somewhere
  <2>4. ASSUME NEW i \in DOMAIN pending, pending[i].batch = b
        PROVE  Somewhere(b)'
    <3>1. CASE i = 1
      BY <2>1, <2>2, <2>4, <3>1 DEF Somewhere
    <3>2. CASE i # 1
      <4>1. i - 1 \in DOMAIN pending' /\ (i - 1) + 1 = i
        BY <2>2, <3>2
      <4>2. pending'[i - 1] = pending[i]
        BY <2>2, <4>1
      <4>3. QED
        BY <2>4, <4>1, <4>2 DEF Somewhere
    <3>3. QED
      BY <3>1, <3>2
  <2>5. QED
    BY <2>2, <2>3, <2>4 DEF Somewhere
<1>2. ASSUME NEW result \in Outcome, Complete(result)
      PROVE  Somewhere(b)'
  <2>1. PICK c \in running :
          /\ DOMAIN history' = 1..Len(history) + 1 /\ DOMAIN history = 1..Len(history)
          /\ \A h \in DOMAIN history : history'[h] = history[h]
          /\ history'[Len(history) + 1].batch = c.batch
          /\ UNCHANGED pending
    BY <1>0, <1>2, Completed
  <2>2. \A r \in running : r = c
    BY <1>0 DEF EngineTypeOK, AtMostOne
  <2>3. Len(history) + 1 \in DOMAIN history'
    BY <2>1, Numbers
  <2>4. CASE \E i \in DOMAIN history : history[i].batch = b
    BY <2>1, <2>4, Numbers DEF Somewhere
  <2>5. QED
    BY <2>1, <2>2, <2>3, <2>4 DEF Somewhere
<1>3. CASE ResetSnapshot
  BY <1>3 DEF ResetSnapshot, Somewhere
<1>4. CASE ResetDone
  <2>1. UNCHANGED <<pending, running>>
    BY <1>0, <1>4, Acknowledged
  <2>2. \A h \in DOMAIN history : h \in DOMAIN history' /\ history'[h] = history[h]
    BY <1>0, <1>4, Acknowledged, Numbers
  <2>3. QED
    BY <2>1, <2>2 DEF Somewhere
<1>5. QED
  BY <1>1, <1>2, <1>3, <1>4 DEF Worker

LEMMA LossStep == TypeInv /\ LossInv /\ [Next]_vars => LossInv'
<1> SUFFICES ASSUME TypeInv, LossInv, [Next]_vars PROVE LossInv'
  OBVIOUS
<1>0. /\ EngineTypeOK /\ submitted \in Seq(Batch) /\ generation \in Nat
      /\ \A b \in DOMAIN submitted : b \in Nat /\ submitted[b].gen \in Nat
  <2>1. EngineTypeOK /\ submitted \in Seq(Batch)
    BY DEF TypeInv, TypeOK
  <2>2. \A b \in DOMAIN submitted : b \in Nat /\ submitted[b] \in Batch
    BY <2>1
  <2>3. \A b \in Batch : b.gen \in Nat
    BY EngineConstants DEF Batch, Generations, EngineConstants
  <2>4. QED
    BY <2>1, <2>2, <2>3, Numbers
<1>1. \A b \in DOMAIN submitted : submitted[b].gen = generation => Somewhere(b)
  BY DEF LossInv, NothingLost, Positions, Somewhere
<1>2. CASE SubmitNext
  <2>1. PICK dom \in Domains \cup {NoDomain}, error \in {"none", "failed"} :
          LET b == [batch |-> Len(submitted) + 1, gen |-> generation, dom |-> dom, error |-> error] IN
          Submit(b) /\ submitted' = Append(submitted, b)
    BY <1>2 DEF SubmitNext
  <2>2. /\ DOMAIN submitted = 1..Len(submitted) /\ DOMAIN submitted' = 1..Len(submitted) + 1
        /\ \A b \in DOMAIN submitted : submitted'[b] = submitted[b]
        /\ submitted'[Len(submitted) + 1].gen = generation /\ Len(submitted) \in Nat
    BY <1>0, <2>1
  <2>3. /\ DOMAIN pending' = 1..Len(pending) + 1 /\ DOMAIN pending = 1..Len(pending)
        /\ \A i \in DOMAIN pending : pending'[i] = pending[i]
        /\ pending'[Len(pending) + 1].batch = Len(submitted) + 1
        /\ Len(pending) \in Nat /\ UNCHANGED <<running, history>>
    BY <1>0, <2>1 DEF Submit, EngineTypeOK
  <2>4. UNCHANGED generation
    BY <1>2 DEF SubmitNext
  <2>5. \A b \in DOMAIN submitted : Somewhere(b) => Somewhere(b)'
    BY <2>3 DEF Somewhere
  <2>6. ASSUME NEW b \in DOMAIN submitted', submitted'[b].gen = generation'
        PROVE  Somewhere(b)'
    <3>1. CASE b \in DOMAIN submitted
      BY <1>1, <2>2, <2>4, <2>5, <2>6, <3>1
    <3>2. CASE b = Len(submitted) + 1
      <4>1. Len(pending) + 1 \in DOMAIN pending' /\ pending'[Len(pending) + 1].batch = b
        BY <2>3, <3>2
      <4>2. QED
        BY <4>1 DEF Somewhere
    <3>3. QED
      BY <2>2, <3>1, <3>2
  <2>7. \A b \in DOMAIN submitted' : submitted'[b].gen = generation' => Somewhere(b)'
    BY <2>6
  <2>8. \A b \in DOMAIN submitted' : submitted'[b].gen <= generation'
    BY <1>0, <2>2, <2>4 DEF LossInv
  <2>9. QED
    BY <2>7, <2>8 DEF LossInv, NothingLost, Positions, Somewhere
<1>3. CASE PollNext
  BY <1>3 DEF PollNext, Poll, LossInv, NothingLost, Positions
<1>4. CASE ResetNext
  <2>1. generation' = generation + 1 /\ UNCHANGED submitted
    BY <1>4 DEF ResetNext
  <2>2. \A b \in DOMAIN submitted' : submitted'[b].gen < generation'
    BY <1>0, <2>1 DEF LossInv
  <2>3. \A b \in DOMAIN submitted' : submitted'[b].gen # generation' /\ submitted'[b].gen <= generation'
    BY <1>0, <2>1, <2>2
  <2>4. QED
    BY <2>3 DEF LossInv, NothingLost
<1>5. CASE WorkerNext
  <2>1. Worker /\ UNCHANGED <<generation, submitted>>
    BY <1>5 DEF WorkerNext
  <2>2. \A b \in DOMAIN submitted : Somewhere(b) => Somewhere(b)'
    BY <1>0, <2>1, WorkerKeeps
  <2>3. \A b \in DOMAIN submitted' : submitted'[b].gen = generation' => Somewhere(b)'
    BY <1>1, <2>1, <2>2
  <2>4. QED
    BY <2>1, <2>3 DEF LossInv, NothingLost, Positions, Somewhere
<1>6. CASE UNCHANGED vars
  BY <1>6 DEF vars, engineVars, LossInv, NothingLost, Positions
<1>7. QED
  BY <1>2, <1>3, <1>4, <1>5, <1>6 DEF Next, Quiet

(* An accepted batch of the current generation is completed, running or waiting, in
   every interleaving of the worker, the polls and the resets. *)
THEOREM NothingLostCorrect == Spec => []NothingLost
<1>1. LossInv => NothingLost
  BY DEF LossInv
<1>2. QED
  BY TypeInit, TypeStep, LossInit, LossStep, <1>1, PTL DEF Spec

-----------------------------------------------------------------------------
(* Failed domains.  A domain that failed in this generation stays on the list, and
   what stands behind it failed later, until the list is full of such domains.  The
   batch that runs was marked when it was taken; no completion came in between. *)

Remembered(i) == Cardinality(OthersFailed(i, Len(history))) < FaultSlots

Listed(i) ==
  \E p \in DOMAIN engFaults :
    /\ engFaults[p] = history[i].dom
    /\ \A q \in DOMAIN engFaults : q > p => engFaults[q] \in OthersFailed(i, Len(history))

Distinct == \A p, q \in DOMAIN engFaults : engFaults[p] = engFaults[q] => p = q

ListedFailed ==
  /\ reset => engFaults = <<>>
  /\ \A p \in DOMAIN engFaults : \E k \in DOMAIN history :
       history[k].dom = engFaults[p] /\ history[k].gen = generation /\ history[k].error # "none"

FailedListed ==
  ~reset => \A i \in DOMAIN history :
    history[i].gen = generation /\ history[i].dom # NoDomain /\ FirstFailure(i) /\ Remembered(i)
    => Listed(i)

RunningCurrent == ~reset => \A r \in running : r.gen = generation

RunningMarked ==
  \A r \in running, i \in DOMAIN history :
    /\ history[i].dom = r.dom /\ history[i].gen = r.gen /\ r.dom # NoDomain
    /\ FirstFailure(i) /\ Remembered(i)
    => r.error # "none"

FaultInv ==
  /\ Distinct /\ ListedFailed /\ FailedListed
  /\ RunningCurrent /\ RunningMarked /\ DomainStaysFailed

(* The domains of a stretch of completions are finitely many. *)
LEMMA DomainsFinite ==
  ASSUME NEW h, NEW i \in Nat, NEW j \in Nat, NEW D
  PROVE  IsFiniteSet({h[k].dom : k \in {n \in i..j : h[n].error # "none"}} \ D)
<1> DEFINE f == [k \in i..j |-> h[k].dom]
           S == {f[k] : k \in i..j}
<1>1. IsFiniteSet(i..j)
  BY FS_Interval
<1>2. f \in Surjection(i..j, S)
  BY DEF Surjection
<1>3. IsFiniteSet(S)
  BY <1>1, <1>2, FS_Surjection
<1>4. {h[k].dom : k \in {n \in i..j : h[n].error # "none"}} \ D \subseteq S
  OBVIOUS
<1>5. QED
  BY <1>3, <1>4, FS_Subset

(* A list of distinct elements of a finite set is no longer than the set. *)
LEMMA DistinctFits ==
  ASSUME NEW S, IsFiniteSet(S), NEW n \in Nat, NEW list \in [1..n -> S],
         \A p, q \in 1..n : list[p] = list[q] => p = q
  PROVE  n <= Cardinality(S)
<1>1. list \in Injection(1..n, S)
  BY DEF Injection, IsInjective
<1>2. Cardinality(1..n) <= Cardinality(S)
  BY <1>1, FS_Injection
<1>3. Cardinality(1..n) = n
  BY FS_Interval
<1>4. QED
  BY <1>2, <1>3

(* What the invariant says of completions survives another completion. *)
LEMMA Grown ==
  ASSUME NEW n \in Nat, DOMAIN history = 1..n, Len(history) = n,
         DOMAIN history' = 1..n + 1, Len(history') = n + 1,
         \A h \in 1..n : history'[h] = history[h],
         NEW i \in 1..n
  PROVE  /\ FirstFailure(i)' <=> FirstFailure(i)
         /\ OthersFailed(i, Len(history)) \subseteq OthersFailed(i, Len(history))'
         /\ Remembered(i)' => Remembered(i)
         /\ \A j \in 1..n : OthersFailed(i, j)' = OthersFailed(i, j)
<1>1. FirstFailure(i)' <=> FirstFailure(i)
  BY DEF FirstFailure
<1>2. OthersFailed(i, Len(history)) \subseteq OthersFailed(i, Len(history))'
  BY DEF OthersFailed
<1>3. IsFiniteSet(OthersFailed(i, Len(history))')
  <2> DEFINE D == {history'[i].dom, NoDomain}
  <2>1. IsFiniteSet({history'[k].dom : k \in {m \in i..n + 1 : history'[m].error # "none"}} \ D)
    <3> HIDE DEF D
    <3>1. i \in Nat /\ n + 1 \in Nat
      OBVIOUS
    <3>2. QED
      BY <3>1, DomainsFinite
  <2>2. QED
    BY <2>1 DEF OthersFailed
<1>4. /\ IsFiniteSet(OthersFailed(i, Len(history)))
      /\ Cardinality(OthersFailed(i, Len(history))) <= Cardinality(OthersFailed(i, Len(history))')
  BY <1>2, <1>3, FS_Subset
<1>5. /\ Cardinality(OthersFailed(i, Len(history))) \in Nat
      /\ Cardinality(OthersFailed(i, Len(history))') \in Nat
  BY <1>3, <1>4, FS_CardinalityType
<1>6. Remembered(i)' => Remembered(i)
  BY <1>4, <1>5, EngineConstants DEF Remembered, EngineConstants
<1>7. ASSUME NEW j \in 1..n PROVE OthersFailed(i, j)' = OthersFailed(i, j)
  BY <1>7 DEF OthersFailed
<1>8. QED
  BY <1>1, <1>2, <1>6, <1>7

LEMMA FaultInit == Init => FaultInv
BY DEF Init, EngineInit, FaultInv, Distinct, ListedFailed, FailedListed, RunningCurrent,
       RunningMarked, DomainStaysFailed

(* Steps that touch neither the list, the completions nor the running batch. *)
LEMMA FaultFrame ==
  ASSUME FaultInv, UNCHANGED <<engFaults, history, running, reset, generation>>
  PROVE  FaultInv'
<1>1. \A i : /\ FirstFailure(i)' <=> FirstFailure(i)
             /\ Remembered(i)' <=> Remembered(i)
             /\ Listed(i)' <=> Listed(i)
             /\ \A j : OthersFailed(i, j)' = OthersFailed(i, j)
  BY DEF FirstFailure, Remembered, Listed, OthersFailed
<1>2. (Distinct /\ ListedFailed)'
  BY DEF FaultInv, Distinct, ListedFailed
<1>3. FailedListed'
  BY <1>1 DEF FaultInv, FailedListed
<1>4. (RunningCurrent /\ RunningMarked)'
  BY <1>1 DEF FaultInv, RunningCurrent, RunningMarked
<1>5. DomainStaysFailed'
  BY <1>1 DEF FaultInv, DomainStaysFailed
<1>6. QED
  BY <1>2, <1>3, <1>4, <1>5 DEF FaultInv

LEMMA FaultReset ==
  ASSUME TypeInv, FaultInv, ResetNext
  PROVE  FaultInv'
<1>1. reset' /\ engFaults' = <<>> /\ UNCHANGED <<history, running>>
  BY DEF ResetNext, ResetEngine
<1>2. \A i : /\ FirstFailure(i)' <=> FirstFailure(i)
             /\ Remembered(i)' <=> Remembered(i)
             /\ \A j : OthersFailed(i, j)' = OthersFailed(i, j)
  BY <1>1 DEF FirstFailure, Remembered, OthersFailed
<1>3. (Distinct /\ ListedFailed)'
  BY <1>1 DEF Distinct, ListedFailed
<1>4. (FailedListed /\ RunningCurrent)'
  BY <1>1 DEF FailedListed, RunningCurrent
<1>5. RunningMarked'
  BY <1>1, <1>2 DEF FaultInv, RunningMarked
<1>6. DomainStaysFailed'
  BY <1>1, <1>2 DEF FaultInv, DomainStaysFailed
<1>7. QED
  BY <1>3, <1>4, <1>5, <1>6 DEF FaultInv

(* The batch that is taken is skipped when its domain is on the list. *)
LEMMA FaultTake ==
  ASSUME TypeInv, AckInv, FaultInv, Take, UNCHANGED generation
  PROVE  FaultInv'
<1>1. ~reset /\ UNCHANGED <<history, reset, engFaults>>
  BY DEF Take, CanTake
<1>2. \A i : /\ FirstFailure(i)' <=> FirstFailure(i)
             /\ Remembered(i)' <=> Remembered(i)
             /\ Listed(i)' <=> Listed(i)
             /\ \A j : OthersFailed(i, j)' = OthersFailed(i, j)
  BY <1>1 DEF FirstFailure, Remembered, Listed, OthersFailed
<1> DEFINE b == Head(pending)
           r == IF Skips(b) THEN [b EXCEPT !.error = "skipped"] ELSE b
<1>3. running' = {r} /\ b \in Batch /\ b.gen = generation
  <2>1. running' = {r} /\ pending # <<>>
    BY DEF Take, CanTake
  <2>2. 1 \in DOMAIN pending /\ b = pending[1] /\ pending[1] \in Batch
    BY <2>1 DEF TypeInv, TypeOK, EngineTypeOK
  <2>3. QED
    BY <2>1, <2>2 DEF AckInv, WaitingGeneration
<1>4. r.gen = generation /\ r.dom = b.dom /\ (Skips(b) => r.error = "skipped") /\ (~Skips(b) => r = b)
  BY <1>3 DEF Batch
<1>5. (Distinct /\ ListedFailed)'
  BY <1>1 DEF FaultInv, Distinct, ListedFailed
<1>6. FailedListed'
  BY <1>1, <1>2 DEF FaultInv, FailedListed
<1>7. RunningCurrent'
  BY <1>3, <1>4 DEF RunningCurrent
<1>8. RunningMarked'
  <2> SUFFICES ASSUME NEW i \in DOMAIN history, history[i].dom = r.dom, history[i].gen = r.gen,
                      r.dom # NoDomain, FirstFailure(i), Remembered(i)
               PROVE  r.error # "none"
    BY <1>1, <1>2, <1>3 DEF RunningMarked
  <2>1. Listed(i)
    BY <1>1, <1>4 DEF FaultInv, FailedListed
  <2>2. r.dom \in Entries(engFaults)
    BY <2>1 DEF Listed, Entries
  <2>3. Faulted(engFaults, b.dom)
    BY <1>4, <2>2 DEF Faulted
  <2>4. QED
    BY <1>4, <2>3 DEF Skips
<1>9. DomainStaysFailed'
  BY <1>1, <1>2 DEF FaultInv, DomainStaysFailed
<1>10. QED
  BY <1>5, <1>6, <1>7, <1>8, <1>9 DEF FaultInv

(* A new domain goes to the end of the list, and a full list drops its first. *)
LEMMA FaultPushes ==
  ASSUME NEW list \in Seq(Domains), Len(list) <= FaultSlots, NEW dom \in Domains,
         dom \notin Entries(list), NEW new, new = Fault(list, dom)
  PROVE  \E s \in {0, 1} :
           /\ s = 1 => Len(list) = FaultSlots
           /\ DOMAIN list = 1..Len(list) /\ Len(list) \in Nat /\ Len(list) >= s
           /\ DOMAIN new = 1..(Len(list) + 1 - s)
           /\ \A p \in 1..(Len(list) - s) : new[p] = list[p + s]
           /\ new[Len(list) + 1 - s] = dom
<1>1. dom # NoDomain
  BY EngineConstants DEF EngineConstants
<1>2. CASE Len(list) < FaultSlots
  <2>1. new = Append(list, dom)
    BY <1>1, <1>2 DEF Fault
  <2>2. WITNESS 0 \in {0, 1}
  <2>3. QED
    BY <2>1
<1>3. CASE ~(Len(list) < FaultSlots)
  <2>1. Len(list) = FaultSlots /\ list # <<>>
    BY <1>3, EngineConstants DEF EngineConstants
  <2>2. new = Append(Tail(list), dom)
    BY <1>1, <1>3 DEF Fault
  <2>3. /\ Tail(list) \in Seq(Domains) /\ Len(Tail(list)) = Len(list) - 1
        /\ \A p \in 1..(Len(list) - 1) : Tail(list)[p] = list[p + 1]
    BY <2>1
  <2>4. WITNESS 1 \in {0, 1}
  <2>5. QED
    BY <2>1, <2>2, <2>3
<1>4. QED
  BY <1>2, <1>3

(* A batch completes: a failure joins the list, and the list forgets a domain only when
   FaultSlots others failed after it. *)
LEMMA FaultComplete ==
  ASSUME TypeInv, AckInv, FaultInv, NEW result \in Outcome, Complete(result), UNCHANGED generation
  PROVE  FaultInv'
<1> DEFINE n == Len(history)
<1>1. PICK b \in running :
        /\ result \in RunResults(b)
        /\ engFaults' = IF result # "none" /\ ~reset THEN Fault(engFaults, b.dom) ELSE engFaults
        /\ PushDone([batch |-> b.batch, gen |-> b.gen, dom |-> b.dom,
                     error |-> result, reset |-> FALSE])
        /\ running' = {} /\ UNCHANGED <<pending, reset, ticket, packets>>
  BY DEF Complete
<1> DEFINE c == [batch |-> b.batch, gen |-> b.gen, dom |-> b.dom, error |-> result, reset |-> FALSE]
<1>2. b \in Batch /\ engFaults \in Seq(Domains) /\ Len(engFaults) <= FaultSlots
      /\ history \in Seq(Completion) /\ b.dom \in Domains \cup {NoDomain} /\ reset \in BOOLEAN
  BY DEF TypeInv, TypeOK, EngineTypeOK, Batch
<1>3. c \in Completion
  BY <1>2 DEF Batch, Completion
<1>4. /\ n \in Nat /\ DOMAIN history = 1..n /\ DOMAIN history' = 1..n + 1 /\ Len(history') = n + 1
      /\ \A h \in 1..n : history'[h] = history[h]
      /\ history'[n + 1].dom = b.dom /\ history'[n + 1].gen = b.gen /\ history'[n + 1].error = result
  <2>1. history' = Append(history, c)
    BY <1>1 DEF PushDone
  <2>2. history'[n + 1] = c
    BY <1>2, <1>3, <2>1
  <2>3. QED
    BY <1>2, <1>3, <2>1, <2>2
<1>5. b.error # "none" => result # "none"
  BY <1>1 DEF RunResults
<1>6. ASSUME NEW i \in 1..n
      PROVE  /\ FirstFailure(i)' <=> FirstFailure(i)
             /\ OthersFailed(i, Len(history)) \subseteq OthersFailed(i, Len(history))'
             /\ Remembered(i)' => Remembered(i)
             /\ \A j \in 1..n : OthersFailed(i, j)' = OthersFailed(i, j)
  <2> HIDE DEF n
  <2>1. Len(history) = n
    BY DEF n
  <2>2. QED
    BY <1>4, <1>6, <2>1, Grown
<1> HIDE DEF n, c
<1>7. (RunningCurrent /\ RunningMarked)'
  BY <1>1 DEF RunningCurrent, RunningMarked
<1>8. DomainStaysFailed'
  <2> SUFFICES ASSUME NEW i \in 1..n + 1, NEW j \in 1..n + 1, i < j,
                      history'[i].dom # NoDomain, FirstFailure(i)',
                      history'[j].dom = history'[i].dom, history'[j].gen = history'[i].gen,
                      Cardinality(OthersFailed(i, j)') < FaultSlots
               PROVE  history'[j].error # "none"
    BY <1>4 DEF DomainStaysFailed
  <2>1. i \in 1..n /\ history'[i] = history[i] /\ FirstFailure(i)
    BY <1>4, <1>6
  <2>2. CASE j \in 1..n
    <3>1. OthersFailed(i, j)' = OthersFailed(i, j)
      BY <1>6, <2>1, <2>2
    <3>2. history'[j] = history[j]
      BY <1>4, <2>2
    <3>3. QED
      BY <1>4, <2>1, <2>2, <3>1, <3>2 DEF FaultInv, DomainStaysFailed
  <2>3. CASE j = n + 1
    <3>1. Remembered(i)'
      BY <1>4, <2>3 DEF Remembered, OthersFailed
    <3>2. Remembered(i)
      BY <1>6, <2>1, <3>1
    <3>3. b.error # "none"
      BY <1>4, <2>1, <2>3, <3>2 DEF FaultInv, RunningMarked
    <3>4. QED
      BY <1>4, <1>5, <2>3, <3>3
  <2>4. QED
    BY <1>4, <2>2, <2>3
<1>9. CASE reset
  <2>1. engFaults' = <<>> /\ reset'
    BY <1>1, <1>9 DEF FaultInv, ListedFailed
  <2>2. (Distinct /\ ListedFailed /\ FailedListed)'
    BY <2>1 DEF Distinct, ListedFailed, FailedListed
  <2>3. QED
    BY <1>7, <1>8, <2>2 DEF FaultInv
<1>10. CASE ~reset
  <2>1. b.gen = generation /\ ~reset'
    BY <1>1, <1>10 DEF FaultInv, RunningCurrent
  <2>2. \A p \in DOMAIN engFaults : \E k \in 1..n + 1 :
          history'[k].dom = engFaults[p] /\ history'[k].gen = generation /\ history'[k].error # "none"
    <3> SUFFICES ASSUME NEW p \in DOMAIN engFaults
                 PROVE  \E k \in 1..n + 1 :
                          history'[k].dom = engFaults[p] /\ history'[k].gen = generation
                          /\ history'[k].error # "none"
      OBVIOUS
    <3>1. PICK k \in 1..n : history[k].dom = engFaults[p] /\ history[k].gen = generation
                            /\ history[k].error # "none"
      BY <1>4 DEF FaultInv, ListedFailed
    <3>2. k \in 1..n + 1 /\ history'[k] = history[k]
      BY <1>4
    <3>3. QED
      BY <3>1, <3>2
  <2>3. CASE engFaults' = engFaults /\ (result = "none" \/ b.dom = NoDomain \/ b.dom \in Entries(engFaults))
    <3>1. Distinct'
      BY <2>3 DEF FaultInv, Distinct
    <3>2. ListedFailed'
      BY <1>4, <2>1, <2>2, <2>3 DEF ListedFailed
    <3>3. FailedListed'
      <4> SUFFICES ASSUME NEW i \in 1..n + 1, history'[i].gen = generation, history'[i].dom # NoDomain,
                          FirstFailure(i)', Remembered(i)'
                   PROVE  Listed(i)'
        BY <1>4 DEF FailedListed
      <4>1. CASE i \in 1..n
        <5>1. Listed(i) /\ history'[i] = history[i]
          BY <1>4, <1>6, <1>10, <4>1 DEF FaultInv, FailedListed
        <5>2. QED
          BY <1>6, <2>3, <4>1, <5>1 DEF Listed
      <4>2. CASE i = n + 1
        <5>1. result # "none" /\ b.dom # NoDomain
          BY <1>4, <4>2 DEF FirstFailure
        <5>2. PICK p \in DOMAIN engFaults : engFaults[p] = b.dom
          BY <2>3, <5>1 DEF Entries
        <5>3. PICK k \in 1..n : history[k].dom = b.dom /\ history[k].gen = generation
                                /\ history[k].error # "none"
          BY <1>4, <5>2 DEF FaultInv, ListedFailed
        <5>4. k \in 1..i - 1 /\ history'[k] = history[k]
          BY <1>4, <4>2
        <5>5. FALSE
          BY <1>4, <2>1, <4>2, <5>3, <5>4 DEF FirstFailure
        <5>6. QED
          BY <5>5
      <4>3. QED
        BY <1>4, <4>1, <4>2
    <3>4. QED
      BY <1>7, <1>8, <3>1, <3>2, <3>3 DEF FaultInv
  <2>4. CASE result # "none" /\ b.dom # NoDomain /\ b.dom \notin Entries(engFaults)
    <3>1. engFaults' = Fault(engFaults, b.dom) /\ b.dom \in Domains
      BY <1>1, <1>2, <1>10, <2>4
    <3>2. PICK s \in {0, 1} :
            /\ s = 1 => Len(engFaults) = FaultSlots
            /\ DOMAIN engFaults = 1..Len(engFaults) /\ Len(engFaults) \in Nat /\ Len(engFaults) >= s
            /\ DOMAIN engFaults' = 1..(Len(engFaults) + 1 - s)
            /\ \A p \in 1..(Len(engFaults) - s) : engFaults'[p] = engFaults[p + s]
            /\ engFaults'[Len(engFaults) + 1 - s] = b.dom
      BY <1>2, <2>4, <3>1, FaultPushes
    <3> DEFINE m == Len(engFaults)
    <3>3. \A p \in 1..m : engFaults[p] # b.dom
      BY <2>4, <3>2 DEF Entries
    <3>0. /\ m \in Nat /\ m >= s /\ s \in Int /\ (s = 0 \/ s = 1)
          /\ DOMAIN engFaults = 1..m /\ DOMAIN engFaults' = 1..(m + 1 - s)
          /\ \A p \in 1..(m - s) : engFaults'[p] = engFaults[p + s] /\ p + s \in 1..m
          /\ engFaults'[m + 1 - s] = b.dom
      BY <3>2
    <3> HIDE DEF m
    <3>4. Distinct'
      <4> SUFFICES ASSUME NEW p \in 1..(m + 1 - s), NEW q \in 1..(m + 1 - s), engFaults'[p] = engFaults'[q]
                   PROVE  p = q
        BY <3>0 DEF Distinct
      <4>1. CASE p = m + 1 - s \/ q = m + 1 - s
        <5>1. \A x \in 1..(m + 1 - s) : x # m + 1 - s => engFaults'[x] # b.dom
          BY <3>0, <3>3
        <5>2. QED
          BY <3>0, <4>1, <5>1
      <4>2. CASE p # m + 1 - s /\ q # m + 1 - s
        <5>1. p \in 1..(m - s) /\ q \in 1..(m - s)
          BY <3>0, <4>2
        <5>2. p + s \in DOMAIN engFaults /\ q + s \in DOMAIN engFaults /\ engFaults[p + s] = engFaults[q + s]
          BY <3>0, <5>1
        <5>3. p + s = q + s
          BY <5>2 DEF FaultInv, Distinct
        <5>4. QED
          BY <3>0, <5>3
      <4>3. QED
        BY <4>1, <4>2
    <3>5. n + 1 \in 1..n + 1
      BY <1>4
    <3>6. ListedFailed'
      <4> SUFFICES ASSUME NEW p \in DOMAIN engFaults'
                   PROVE  \E k \in 1..n + 1 :
                            history'[k].dom = engFaults'[p] /\ history'[k].gen = generation
                            /\ history'[k].error # "none"
        BY <1>4, <2>1 DEF ListedFailed
      <4>1. CASE p = m + 1 - s
        BY <1>4, <2>1, <2>4, <3>2, <3>5, <4>1 DEF m
      <4>2. CASE p # m + 1 - s
        <5>1. p \in 1..(m - s) /\ p + s \in DOMAIN engFaults
          BY <3>2, <4>2 DEF m
        <5>2. QED
          BY <2>2, <3>2, <5>1 DEF m
      <4>3. QED
        BY <4>1, <4>2
    <3>7. FailedListed'
      <4> SUFFICES ASSUME NEW i \in 1..n + 1, history'[i].gen = generation, history'[i].dom # NoDomain,
                          FirstFailure(i)', Remembered(i)'
                   PROVE  Listed(i)'
        BY <1>4 DEF FailedListed
      <4>1. CASE i = n + 1
        BY <1>4, <3>2, <4>1 DEF Listed
      <4>2. CASE i \in 1..n
        <5>1. Listed(i) /\ history'[i] = history[i]
          BY <1>4, <1>6, <1>10, <4>2 DEF FaultInv, FailedListed
        <5>2. PICK p \in 1..m : /\ engFaults[p] = history[i].dom
                               /\ \A q \in 1..m : q > p => engFaults[q] \in OthersFailed(i, Len(history))
          BY <3>2, <5>1 DEF Listed, m
        <5>3. b.dom \in OthersFailed(i, Len(history))'
          <6>1. b.dom # history'[i].dom
            BY <3>3, <5>1, <5>2
          <6>2. n + 1 \in {k \in i..n + 1 : history'[k].error # "none"}
            BY <1>4, <2>4, <4>2
          <6>3. QED
            BY <1>4, <2>4, <6>1, <6>2 DEF OthersFailed
        <5>4. \A q \in 1..m : q > p => engFaults[q] \in OthersFailed(i, Len(history))'
          BY <1>6, <4>2, <5>2
        <5>5. CASE p - s >= 1
          <6>1. p - s \in DOMAIN engFaults' /\ engFaults'[p - s] = history'[i].dom
            BY <3>2, <5>1, <5>2, <5>5 DEF m
          <6>2. ASSUME NEW q \in DOMAIN engFaults', q > p - s
                PROVE  engFaults'[q] \in OthersFailed(i, Len(history))'
            <7>1. CASE q = m + 1 - s
              BY <3>2, <5>3, <7>1 DEF m
            <7>2. CASE q # m + 1 - s
              <8>1. q \in 1..(m + 1 - s) /\ p \in 1..m /\ q > p - s
                BY <3>0, <5>2, <6>2
              <8>2. q \in 1..(m - s) /\ q + s \in 1..m /\ q + s > p
                BY <3>0, <7>2, <8>1
              <8>3. QED
                BY <3>0, <5>4, <8>2
            <7>3. QED
              BY <7>1, <7>2
          <6>3. QED
            BY <6>1, <6>2 DEF Listed
        <5>6. CASE ~(p - s >= 1)
          <6>1. s = 1 /\ p = 1 /\ m = FaultSlots /\ DOMAIN engFaults' = 1..FaultSlots
            <7>1. s = 1 /\ p = 1
              BY <3>0, <5>6
            <7>2. m = FaultSlots
              BY <3>2, <7>1 DEF m
            <7>3. QED
              BY <3>0, <7>1, <7>2
          <6>2. ASSUME NEW q \in 1..FaultSlots
                PROVE  engFaults'[q] \in OthersFailed(i, Len(history))'
            <7>1. CASE q = m
              BY <3>2, <5>3, <6>1, <7>1 DEF m
            <7>2. CASE q # m
              <8>1. q \in 1..(m - s) /\ q + s \in 1..m /\ q + s > p
                BY <3>2, <6>1, <6>2, <7>2 DEF m
              <8>2. QED
                BY <3>2, <5>4, <8>1 DEF m
            <7>3. QED
              BY <7>1, <7>2
          <6> DEFINE S == OthersFailed(i, Len(history))'
          <6>3. IsFiniteSet(S)
            <7> DEFINE D == {history'[i].dom, NoDomain}
            <7>1. IsFiniteSet({history'[k].dom : k \in {x \in i..n + 1 : history'[x].error # "none"}} \ D)
              <8> HIDE DEF D
              <8>1. i \in Nat /\ n + 1 \in Nat
                BY <1>4
              <8>2. QED
                BY <8>1, DomainsFinite
            <7>2. QED
              BY <1>4, <7>1 DEF OthersFailed
          <6>4. FaultSlots \in Nat
            BY EngineConstants DEF EngineConstants
          <6> DEFINE f == [q \in 1..FaultSlots |-> engFaults'[q]]
          <6>5. f \in [1..FaultSlots -> S] /\ \A q, r \in 1..FaultSlots : f[q] = f[r] => q = r
            BY <3>4, <6>1, <6>2 DEF Distinct
          <6>6. FaultSlots <= Cardinality(S)
            <7> HIDE DEF S, f
            <7>1. QED
              BY <6>3, <6>4, <6>5, DistinctFits
          <6>7. Cardinality(S) \in Nat /\ Cardinality(S) < FaultSlots
            BY <6>3, FS_CardinalityType DEF Remembered
          <6>8. QED
            BY <6>4, <6>6, <6>7
        <5>7. QED
          BY <5>5, <5>6
      <4>3. QED
        BY <1>4, <4>1, <4>2
    <3>8. QED
      BY <1>7, <1>8, <3>4, <3>6, <3>7 DEF FaultInv
  <2>5. QED
    BY <1>1, <1>10, <2>3, <2>4 DEF Fault
<1>11. QED
  BY <1>2, <1>9, <1>10

(* An acknowledgement belongs to no domain, and nothing runs when it is pushed. *)
LEMMA FaultAck ==
  ASSUME TypeInv, AckInv, FaultInv, ResetDone, UNCHANGED generation
  PROVE  FaultInv'
<1> DEFINE n == Len(history)
<1>1. UNCHANGED <<running, engFaults>> /\ packets # {}
  BY DEF ResetDone
<1>2. reset /\ running = {} /\ engFaults = <<>>
  BY <1>1 DEF AckInv, FaultInv, ListedFailed
<1>3. CASE UNCHANGED <<reset, history>>
  BY <1>1, <1>3, FaultFrame
<1>4. ASSUME NEW g \in packets,
             PushDone([batch |-> 0, gen |-> g, dom |-> NoDomain, error |-> "none", reset |-> TRUE])
      PROVE  FaultInv'
  <2> DEFINE c == [batch |-> 0, gen |-> g, dom |-> NoDomain, error |-> "none", reset |-> TRUE]
  <2>1. c \in Completion /\ history \in Seq(Completion)
    BY DEF TypeInv, TypeOK, EngineTypeOK, Completion, Outcome
  <2>2. /\ n \in Nat /\ DOMAIN history = 1..n /\ DOMAIN history' = 1..n + 1 /\ Len(history') = n + 1
        /\ \A h \in 1..n : history'[h] = history[h]
        /\ history'[n + 1].dom = NoDomain /\ history'[n + 1].error = "none"
    <3>1. history' = Append(history, c)
      BY <1>4 DEF PushDone
    <3>2. history'[n + 1] = c
      BY <2>1, <3>1
    <3>3. QED
      BY <2>1, <3>1, <3>2
  <2>3. ASSUME NEW i \in 1..n
        PROVE  /\ FirstFailure(i)' <=> FirstFailure(i)
               /\ \A j \in 1..n : OthersFailed(i, j)' = OthersFailed(i, j)
    <3> HIDE DEF n
    <3>1. Len(history) = n
      BY DEF n
    <3>2. QED
      BY <2>2, <2>3, <3>1, Grown
  <2> HIDE DEF n, c
  <2>4. (Distinct /\ ListedFailed)'
    BY <1>1, <1>2 DEF Distinct, ListedFailed
  <2>5. (RunningCurrent /\ RunningMarked)'
    BY <1>1, <1>2 DEF RunningCurrent, RunningMarked
  <2>6. FailedListed'
    <3> SUFFICES ASSUME NEW i \in 1..n + 1, history'[i].gen = generation, history'[i].dom # NoDomain
                 PROVE  FALSE
      BY <2>2 DEF FailedListed
    <3>1. i \in 1..n /\ history'[i] = history[i]
      BY <2>2
    <3>2. i \in DOMAIN history /\ history[i].gen = generation /\ generation \in Nat
      BY <2>2, <3>1, Numbers
    <3>3. history[i].gen < generation
      BY <1>2, <3>2 DEF AckInv, HistoryGenerations
    <3>4. QED
      BY <3>2, <3>3
  <2>7. DomainStaysFailed'
    <3> SUFFICES ASSUME NEW i \in 1..n + 1, NEW j \in 1..n + 1, i < j,
                        history'[i].dom # NoDomain, FirstFailure(i)',
                        history'[j].dom = history'[i].dom, history'[j].gen = history'[i].gen,
                        Cardinality(OthersFailed(i, j)') < FaultSlots
                 PROVE  history'[j].error # "none"
      BY <2>2 DEF DomainStaysFailed
    <3>1. i \in 1..n /\ j \in 1..n /\ history'[i] = history[i] /\ history'[j] = history[j]
      BY <2>2
    <3>2. FirstFailure(i) /\ OthersFailed(i, j)' = OthersFailed(i, j)
      BY <2>3, <3>1
    <3>3. QED
      BY <2>2, <3>1, <3>2 DEF FaultInv, DomainStaysFailed
  <2>8. QED
    BY <2>4, <2>5, <2>6, <2>7 DEF FaultInv
<1>5. QED
  BY <1>3, <1>4 DEF ResetDone

LEMMA FaultStep == TypeInv /\ AckInv /\ FaultInv /\ [Next]_vars => FaultInv'
<1> SUFFICES ASSUME TypeInv, AckInv, FaultInv, [Next]_vars PROVE FaultInv'
  OBVIOUS
<1>1. CASE SubmitNext
  BY <1>1, FaultFrame DEF SubmitNext, Submit
<1>2. CASE PollNext
  BY <1>2, FaultFrame DEF PollNext, Poll
<1>3. CASE ResetNext
  BY <1>3, FaultReset
<1>4. CASE WorkerNext
  <2>1. Worker /\ UNCHANGED generation
    BY <1>4 DEF WorkerNext
  <2>2. CASE Take
    BY <2>1, <2>2, FaultTake
  <2>3. CASE \E r \in Outcome : Complete(r)
    BY <2>1, <2>3, FaultComplete
  <2>4. CASE ResetSnapshot
    BY <2>1, <2>4, FaultFrame DEF ResetSnapshot
  <2>5. CASE ResetDone
    BY <2>1, <2>5, FaultAck
  <2>6. QED
    BY <2>1, <2>2, <2>3, <2>4, <2>5 DEF Worker
<1>5. CASE UNCHANGED vars
  BY <1>5, FaultFrame DEF vars, engineVars
<1>6. QED
  BY <1>1, <1>2, <1>3, <1>4, <1>5 DEF Next, Quiet

(* Once a batch of a domain fails, no later batch of the domain and the generation
   executes, until the list is full of domains that failed after it, for every number
   of domains and every size of the list. *)
THEOREM DomainCorrect == Spec => []DomainStaysFailed
<1>1. FaultInv => DomainStaysFailed
  BY DEF FaultInv
<1>2. QED
  BY TypeInit, TypeStep, AckInit, AckStep, FaultInit, FaultStep, <1>1, PTL DEF Spec
=============================================================================
