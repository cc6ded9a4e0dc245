-------------------------- MODULE SubmissionProofs --------------------------
(***************************************************************************)
(* Each operation of the engine's batch queue keeps EngineTypeOK.  The     *)
(* theorems of Engine and GlQueue are built from these lemmas.             *)
(***************************************************************************)
EXTENDS Submission, TLAPS

USE DEF EngineTypeOK

(* The fault list stays within its slots. *)
LEMMA FaultType ==
  ASSUME NEW list \in Seq(Domains), Len(list) <= FaultSlots, NEW dom \in Domains \cup {NoDomain}
  PROVE  Fault(list, dom) \in Seq(Domains) /\ Len(Fault(list, dom)) <= FaultSlots
<1>1. CASE dom = NoDomain \/ dom \in Entries(list)
  BY <1>1 DEF Fault
<1>2. CASE ~(dom = NoDomain \/ dom \in Entries(list)) /\ Len(list) < FaultSlots
  <2>1. dom \in Domains /\ Fault(list, dom) = Append(list, dom)
    BY <1>2 DEF Fault
  <2>2. QED
    BY <1>2, <2>1, EngineConstants DEF EngineConstants
<1>3. CASE ~(dom = NoDomain \/ dom \in Entries(list)) /\ ~(Len(list) < FaultSlots)
  <2>1. dom \in Domains /\ Fault(list, dom) = Append(Tail(list), dom)
    BY <1>3 DEF Fault
  <2>2. Len(list) = FaultSlots /\ list # <<>>
    BY <1>3, EngineConstants DEF EngineConstants
  <2>3. Tail(list) \in Seq(Domains) /\ Len(Tail(list)) = Len(list) - 1
    BY <2>2
  <2>4. QED
    BY <2>1, <2>2, <2>3, EngineConstants DEF EngineConstants
<1>4. QED
  BY <1>1, <1>2, <1>3

(* The completion ring stays within its slots. *)
LEMMA PushType ==
  ASSUME done \in Seq(Completion), Len(done) <= DoneSlots, history \in Seq(Completion),
         NEW c \in Completion, PushDone(c)
  PROVE  /\ done' \in Seq(Completion) /\ Len(done') <= DoneSlots
         /\ history' \in Seq(Completion) /\ Len(history') = Len(history) + 1
<1>1. history' \in Seq(Completion) /\ Len(history') = Len(history) + 1
  BY DEF PushDone
<1>2. CASE Len(done) < DoneSlots
  BY <1>1, <1>2, EngineConstants DEF PushDone, EngineConstants
<1>3. CASE ~(Len(done) < DoneSlots)
  <2>1. Len(done) = DoneSlots /\ done # <<>> /\ done' = Append(Tail(done), c)
    BY <1>3, EngineConstants DEF PushDone, EngineConstants
  <2>2. Tail(done) \in Seq(Completion) /\ Len(Tail(done)) = Len(done) - 1
    BY <2>1
  <2>3. QED
    BY <1>1, <2>1, <2>2
<1>4. QED
  BY <1>2, <1>3

LEMMA EngineInitType == EngineInit => EngineTypeOK
<1> SUFFICES ASSUME EngineInit PROVE EngineTypeOK
  OBVIOUS
<1>1. 0 \in Generations
  BY EngineConstants DEF EngineConstants, Generations
<1>2. pending \in Seq(Batch) /\ Len(pending) <= Pending
  BY EngineConstants DEF EngineInit, EngineConstants
<1>3. done \in Seq(Completion) /\ Len(done) <= DoneSlots /\ history \in Seq(Completion)
  BY EngineConstants DEF EngineInit, EngineConstants
<1>4. engFaults \in Seq(Domains) /\ Len(engFaults) <= FaultSlots
  BY EngineConstants DEF EngineInit, EngineConstants
<1>5. QED
  BY <1>1, <1>2, <1>3, <1>4 DEF EngineInit, AtMostOne

LEMMA EngineFrame == EngineTypeOK /\ UNCHANGED engineVars => EngineTypeOK'
BY DEF engineVars, AtMostOne

LEMMA SubmitType ==
  ASSUME EngineTypeOK, NEW b \in Batch, Submit(b)
  PROVE  EngineTypeOK'
BY EngineConstants DEF Submit, Accepts, EngineConstants, AtMostOne

LEMMA PollType == EngineTypeOK /\ Poll => EngineTypeOK'
BY EngineConstants DEF Poll, EngineConstants, AtMostOne

LEMMA ResetType ==
  ASSUME EngineTypeOK, NEW g \in Generations, ResetEngine(g)
  PROVE  EngineTypeOK'
BY EngineConstants DEF ResetEngine, EngineConstants, AtMostOne

LEMMA TakeType == EngineTypeOK /\ Take => EngineTypeOK'
<1> SUFFICES ASSUME EngineTypeOK, Take PROVE EngineTypeOK'
  OBVIOUS
<1> DEFINE b == Head(pending)
<1>1. b \in Batch /\ [b EXCEPT !.error = "skipped"] \in Batch
  <2>1. pending # <<>>
    BY DEF Take, CanTake
  <2>2. b \in Batch
    BY <2>1
  <2>3. QED
    BY <2>2 DEF Batch, Outcome, Error
<1>2. running' \in SUBSET Batch /\ AtMostOne(running')
  BY <1>1 DEF Take, AtMostOne
<1>3. pending' \in Seq(Batch) /\ Len(pending') <= Pending
  BY EngineConstants DEF Take, CanTake, EngineConstants
<1>4. QED
  BY <1>2, <1>3 DEF Take, AtMostOne

LEMMA CompleteType ==
  ASSUME EngineTypeOK, NEW r \in Outcome, Complete(r)
  PROVE  EngineTypeOK' /\ Len(history') = Len(history) + 1
<1>1. PICK b \in running :
        /\ engFaults' = IF r # "none" /\ ~reset THEN Fault(engFaults, b.dom) ELSE engFaults
        /\ PushDone([batch |-> b.batch, gen |-> b.gen, dom |-> b.dom,
                     error |-> r, reset |-> FALSE])
        /\ running' = {}
        /\ UNCHANGED <<pending, reset, ticket, packets>>
  BY DEF Complete
<1>2. b \in Batch
  OBVIOUS
<1>3. [batch |-> b.batch, gen |-> b.gen, dom |-> b.dom, error |-> r, reset |-> FALSE] \in Completion
  BY <1>2 DEF Batch, Completion
<1>4. /\ done' \in Seq(Completion) /\ Len(done') <= DoneSlots
      /\ history' \in Seq(Completion) /\ Len(history') = Len(history) + 1
  BY <1>1, <1>3, PushType
<1>5. engFaults' \in Seq(Domains) /\ Len(engFaults') <= FaultSlots
  BY <1>1, <1>2, FaultType DEF Batch
<1>6. QED
  BY <1>1, <1>4, <1>5 DEF AtMostOne

LEMMA ResetSnapshotType == EngineTypeOK /\ ResetSnapshot => EngineTypeOK'
BY DEF ResetSnapshot, AtMostOne

LEMMA ResetDoneType ==
  ASSUME EngineTypeOK, ResetDone
  PROVE  EngineTypeOK' /\ Len(history') \in {Len(history), Len(history) + 1}
<1>1. PICK g \in packets :
        /\ packets' = {}
        /\ IF Acknowledges(g)
           THEN /\ reset' = FALSE
                /\ PushDone([batch |-> 0, gen |-> g, dom |-> NoDomain,
                             error |-> "none", reset |-> TRUE])
           ELSE UNCHANGED <<reset, done, history>>
        /\ UNCHANGED <<pending, running, engFaults, ticket>>
  BY DEF ResetDone
<1>2. [batch |-> 0, gen |-> g, dom |-> NoDomain, error |-> "none", reset |-> TRUE] \in Completion
  BY DEF Completion, Outcome
<1>3. /\ done' \in Seq(Completion) /\ Len(done') <= DoneSlots
      /\ history' \in Seq(Completion) /\ Len(history') \in {Len(history), Len(history) + 1}
  BY <1>1, <1>2, PushType
<1>4. reset' \in BOOLEAN
  BY <1>1
<1>5. QED
  BY <1>1, <1>3, <1>4 DEF AtMostOne

LEMMA WorkerType ==
  ASSUME EngineTypeOK, Worker
  PROVE  EngineTypeOK'
BY TakeType, CompleteType, ResetSnapshotType, ResetDoneType DEF Worker
=============================================================================
