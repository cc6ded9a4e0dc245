--------------------------- MODULE GlQueueProofs ---------------------------
(***************************************************************************)
(* For every depth, number of buffers, clients, batches and resets: the    *)
(* oldest entry is always one the engine will complete, no wakeup of a     *)
(* sleeping driver is lost, every variable of the queued transport keeps   *)
(* its type, the counters of page, device and driver stay in their window, *)
(* what was published stays as it was until the device and then the driver *)
(* are done with it, and each batch is recorded in the end.                *)
(***************************************************************************)
EXTENDS GlQueue, SubmissionProofs, WellFoundedInduction, TLAPS

-----------------------------------------------------------------------------
(* The oldest entry.  While no handler drains, and while the handler that drains
   has not yet credited its completion, the engine owns the oldest entry.  *)

OwnedHead == entries # <<>> => Head(entries).engine

Crediting == dpc = "drain" /\ credit # {}

HeadInv ==
  /\ dpc \in {"idle", "take", "drain", "finish", "count", "fence", "compare"}
  /\ dpc = "take" => handler = "consume"
  /\ dpc = "drain" => handler = "complete"
  /\ handler \in {"consume", "complete"}
  /\ dpc \in {"idle", "take", "fence", "compare"} => OwnedHead
  /\ dpc \in {"finish", "count"} /\ handler = "consume" => OwnedHead
  /\ dpc \in {"finish", "count"} /\ handler = "complete" => credit = {}
  /\ Crediting => entries # <<>> /\ OwnedHead

IsList == \E S : entries \in Seq(S)

-----------------------------------------------------------------------------
(* The wait.  The page never runs ahead of the device, and the WAIT words name the
   counter and the target of the driver that is going to sleep.            *)

WaitTypes ==
  /\ consumed \in Nat /\ completed \in Nat /\ pgConsumed \in Nat /\ pgCompleted \in Nat
  /\ produced \in Nat /\ pgTarget \in [Counters -> Int] /\ waitFor \in Wait_
  /\ ensureFor \in {"admit", "buffer"}
  /\ reapFor \in {"admit", "register", "report", "claim", "waited"}

Mirror == pgActive => qActive /\ pgCompleted = completed /\ pgConsumed <= consumed

Armed ==
  pc \in {"recheck", "asleep"} =>
    pgWait = waitFor.which /\ pgTarget[waitFor.which] = waitFor.target

WakeInv == WaitTypes /\ Mirror /\ Armed /\ NoLostWakeup

-----------------------------------------------------------------------------
(* An entry added to the ring leaves the oldest one where it is. *)
LEMMA HeadOfAppend ==
  ASSUME NEW S, NEW list \in Seq(S), NEW x
  PROVE  /\ Append(list, x) \in Seq(S \cup {x}) /\ Append(list, x) # <<>>
         /\ list # <<>> => Head(Append(list, x)) = Head(list)
         /\ list = <<>> => Head(Append(list, x)) = x
<1> DEFINE T == S \cup {x}
<1>1. list \in Seq(T) /\ x \in T
  OBVIOUS
<1> HIDE DEF T
<1>2. /\ Append(list, x) \in Seq(T) /\ Len(Append(list, x)) = Len(list) + 1
      /\ \A i \in 1..Len(list) : Append(list, x)[i] = list[i]
      /\ Append(list, x)[Len(list) + 1] = x /\ Len(list) \in Nat
  BY <1>1
<1>3. list # <<>> => Len(list) # 0
  BY <1>1
<1>4. list = <<>> => Len(list) = 0
  OBVIOUS
<1>5. Append(list, x) # <<>>
  BY <1>2
<1>6. Head(Append(list, x)) = Append(list, x)[1] /\ (list # <<>> => Head(list) = list[1])
  BY <1>1, <1>2, <1>5
<1>7. QED
  BY <1>2, <1>3, <1>4, <1>5, <1>6 DEF T

LEMMA HeadInit == Init => HeadInv /\ IsList
<1> SUFFICES ASSUME Init PROVE HeadInv /\ IsList
  OBVIOUS
<1>1. entries = <<>> /\ dpc = "idle" /\ handler = "consume" /\ credit = {}
  BY DEF Init, DeviceInit
<1>2. entries \in Seq({})
  BY <1>1
<1>3. QED
  BY <1>1, <1>2 DEF HeadInv, IsList, OwnedHead, Crediting

(* Only the device's handlers and a reset change what HeadInv speaks of. *)
LEMMA HeadFrame ==
  ASSUME HeadInv, IsList, UNCHANGED <<entries, dpc, handler, credit>>
  PROVE  HeadInv' /\ IsList'
BY DEF HeadInv, IsList, OwnedHead, Crediting

LEMMA HeadConsumeEntry ==
  ASSUME HeadInv, IsList, ConsumeEntry
  PROVE  HeadInv' /\ IsList'
<1>1. dpc = "take" /\ handler = "consume" /\ OwnedHead
  BY DEF HeadInv, ConsumeEntry
<1>2. handler' = handler /\ credit' = credit
  BY DEF ConsumeEntry
<1>3. PICK S : entries \in Seq(S)
  BY DEF IsList
<1>4. PICK error \in Verdicts(ring[SlotOf(consumed)]) :
        LET e == ring[SlotOf(consumed)] IN
        \/ /\ entries' = Append(entries, Consumed(e, error, TRUE)) /\ dpc' = dpc
        \/ /\ Behind /\ entries' = Append(entries, Consumed(e, error, FALSE)) /\ dpc' = dpc
        \/ /\ ~Behind /\ dpc' = "finish" /\ entries' = entries
  BY DEF ConsumeEntry
<1> DEFINE e == ring[SlotOf(consumed)]
<1>5. CASE entries' = Append(entries, Consumed(e, error, TRUE)) /\ dpc' = dpc
  <2>1. Consumed(e, error, TRUE).engine = TRUE
    BY DEF Consumed
  <2>2. /\ entries' \in Seq(S \cup {Consumed(e, error, TRUE)})
        /\ entries # <<>> => Head(entries') = Head(entries)
        /\ entries = <<>> => Head(entries') = Consumed(e, error, TRUE)
    BY <1>3, <1>5, HeadOfAppend
  <2>3. OwnedHead'
    BY <1>1, <2>1, <2>2 DEF OwnedHead
  <2>4. QED
    BY <1>1, <1>2, <1>5, <2>2, <2>3 DEF HeadInv, IsList, Crediting
<1>6. CASE Behind /\ entries' = Append(entries, Consumed(e, error, FALSE)) /\ dpc' = dpc
  <2>1. /\ entries' \in Seq(S \cup {Consumed(e, error, FALSE)})
        /\ Head(entries') = Head(entries) /\ entries # <<>>
    BY <1>3, <1>6, HeadOfAppend DEF Behind
  <2>2. OwnedHead'
    BY <1>1, <2>1 DEF OwnedHead
  <2>3. QED
    BY <1>1, <1>2, <1>6, <2>1, <2>2 DEF HeadInv, IsList, Crediting
<1>7. CASE dpc' = "finish" /\ entries' = entries
  BY <1>1, <1>2, <1>7 DEF HeadInv, IsList, OwnedHead, Crediting
<1>8. QED
  BY <1>4, <1>5, <1>6, <1>7

(* Taking the oldest entry leaves a list. *)
LEMMA PopList ==
  ASSUME IsList, entries # <<>>, NEW error, Pop(error)
  PROVE  IsList' /\ dpc' = "finish"
<1>1. PICK S : entries \in Seq(S)
  BY DEF IsList
<1>2. Tail(entries) \in Seq(S)
  BY <1>1
<1>3. QED
  BY <1>2 DEF Pop, IsList

LEMMA HeadDevice ==
  ASSUME HeadInv, IsList, Device
  PROVE  HeadInv' /\ IsList'
<1>1. CASE ConsumeBegin
  BY <1>1 DEF ConsumeBegin, HeadInv, IsList, OwnedHead, Crediting
<1>2. CASE ConsumeEntry
  BY <1>2, HeadConsumeEntry
<1>3. CASE ConsumeEnd
  BY <1>3 DEF ConsumeEnd, HeadInv, IsList, OwnedHead, Crediting
<1>4. CASE CompleteBegin
  BY <1>4 DEF CompleteBegin, Wanted, HeadInv, IsList, OwnedHead, Crediting
<1>5. CASE DrainUnowned
  <2>1. IsList' /\ dpc' = "finish"
    BY <1>5, PopList DEF DrainUnowned
  <2>2. credit = {} /\ credit' = credit /\ handler' = handler /\ handler = "complete"
    BY <1>5 DEF DrainUnowned, HeadInv, OwnedHead, Crediting
  <2>3. QED
    BY <2>1, <2>2 DEF HeadInv, Crediting
<1>6. CASE CreditOldest
  <2>1. PICK error : Pop(error)
    BY <1>6 DEF CreditOldest
  <2>2. IsList' /\ dpc' = "finish"
    BY <1>6, <2>1, PopList DEF CreditOldest
  <2>3. credit' = {} /\ handler' = handler /\ handler = "complete"
    BY <1>6 DEF CreditOldest, HeadInv
  <2>4. QED
    BY <2>2, <2>3 DEF HeadInv, Crediting
<1>7. CASE CompleteEnd
  BY <1>7 DEF CompleteEnd, Drained, HeadInv, IsList, OwnedHead, Crediting
<1>8. CASE FinishStatus
  BY <1>8 DEF FinishStatus, HeadInv, IsList, OwnedHead, Crediting
<1>9. CASE FinishCount
  BY <1>9 DEF FinishCount, HeadInv, IsList, OwnedHead, Crediting
<1>10. CASE ReadWait
  BY <1>10 DEF ReadWait, HeadInv, IsList, OwnedHead, Crediting
<1>11. CASE CompareWait
  BY <1>11 DEF CompareWait, HeadInv, IsList, OwnedHead, Crediting
<1>12. QED
  BY <1>1, <1>2, <1>3, <1>4, <1>5, <1>6, <1>7, <1>8, <1>9, <1>10, <1>11 DEF Device

LEMMA HeadStep == HeadInv /\ IsList /\ [Next]_vars => HeadInv' /\ IsList'
<1> SUFFICES ASSUME HeadInv, IsList, [Next]_vars PROVE HeadInv' /\ IsList'
  OBVIOUS
<1>1. CASE Call
  BY <1>1, HeadFrame DEF Call, deviceVars
<1>2. CASE Proceed
  BY <1>2, HeadFrame DEF Proceed, deviceVars
<1>3. CASE ControlStep
  BY <1>3, HeadFrame DEF ControlStep
<1>4. CASE InterruptStep
  BY <1>4, HeadFrame DEF InterruptStep, deviceVars
<1>5. CASE DeviceStep
  BY <1>5, HeadDevice DEF DeviceStep
<1>6. CASE ResetStep
  <2>1. entries' = <<>> /\ UNCHANGED <<dpc, handler, credit>>
    BY <1>6 DEF ResetStep, DeviceReset
  <2>2. entries' \in Seq({}) /\ dpc = "idle"
    BY <1>6, <2>1 DEF ResetStep, DeviceReset, ResetAdmitted
  <2>3. QED
    BY <2>1, <2>2 DEF HeadInv, IsList, OwnedHead, Crediting
<1>7. CASE WorkerStep
  BY <1>7, HeadFrame DEF WorkerStep, EngineStep, deviceVars
<1>8. CASE UNCHANGED vars
  BY <1>8, HeadFrame DEF vars, deviceVars
<1>9. QED
  BY <1>1, <1>2, <1>3, <1>4, <1>5, <1>6, <1>7, <1>8 DEF Next, Quiet

(* Between handlers the oldest unfinished entry is one the engine will complete:
   a rejected entry is never left at the head of the ring with nothing to finish
   it, also when the engine refused its marker. *)
THEOREM HeadCorrect == Spec => []HeadOwned
<1>1. HeadInv => HeadOwned
  BY DEF HeadInv, HeadOwned, OwnedHead
<1>2. QED
  BY HeadInit, HeadStep, <1>1, PTL DEF Spec

-----------------------------------------------------------------------------
(* A step of the driver that neither arms the wait nor goes to sleep keeps the wait
   invariant, since it writes no device word. *)
Awake ==
  /\ pc' \notin {"recheck", "asleep"}
  /\ produced' \in Nat /\ pgTarget' \in [Counters -> Int] /\ waitFor' \in Wait_
  /\ ensureFor' \in {"admit", "buffer"}
  /\ reapFor' \in {"admit", "register", "report", "claim", "waited"}
  /\ UNCHANGED <<pgActive, pgConsumed, pgCompleted>>

LEMMA AwakeKeeps ==
  ASSUME WakeInv, Awake, UNCHANGED <<qActive, consumed, completed>>
  PROVE  WakeInv'
BY DEF WakeInv, WaitTypes, Mirror, Armed, NoLostWakeup, Awake

LEMMA ReturnAwake ==
  ASSUME Return
  PROVE  /\ pc' \notin {"recheck", "asleep"} /\ waitFor' \in Wait_
         /\ ensureFor' \in {"admit", "buffer"}
         /\ reapFor' \in {"admit", "register", "report", "claim", "waited"}
BY DEF Return, NoWait, Wait_, Counters

(* Every step of the driver but the two that arm and recheck the wait. *)
AwakeStep ==
  \/ Request \/ Ensure \/ ReadGeneration \/ EnableStores \/ Enabled(qActive)
  \/ ReapBegin \/ ReapOne \/ LoseOne \/ Admit \/ Report
  \/ BufferBegin \/ Claim \/ ClaimBuffer \/ WaitLook \/ Wake \/ Watchdog \/ Waited
  \/ Fill \/ Publish \/ Ring \/ Answer

LEMMA StepAwake ==
  ASSUME WaitTypes, AwakeStep
  PROVE  Awake
<1> USE DEF Awake, WaitTypes, At, PageUntouched, pageVars, deviceWords, queueVars, clientVars,
            localVars
<1>1. CASE Request
  BY <1>1 DEF Request
<1>2. CASE Ensure
  BY <1>2 DEF Ensure
<1>3. CASE ReadGeneration
  BY <1>3 DEF ReadGeneration
<1>4. CASE EnableStores
  BY <1>4 DEF EnableStores, Counters
<1>5. CASE Enabled(qActive)
  BY <1>5 DEF Enabled
<1>6. CASE ReapBegin
  BY <1>6 DEF ReapBegin
<1>7. CASE ReapOne
  BY <1>7 DEF ReapOne, Record
<1>8. CASE LoseOne
  BY <1>8 DEF LoseOne, Record
<1>9. CASE Admit
  BY <1>9, ReturnAwake DEF Admit
<1>10. CASE Report
  BY <1>10, ReturnAwake DEF Report, Defer
<1>11. CASE BufferBegin
  BY <1>11, ReturnAwake DEF BufferBegin, Leave
<1>12. CASE Claim
  BY <1>12, PageConstants, ReturnAwake DEF Claim, WaitOn, Leave, Wait_, Counters, PageConstants
<1>13. CASE ClaimBuffer
  BY <1>13, PageConstants DEF ClaimBuffer, WaitOn, Wait_, Counters, BufferTarget, PageConstants
<1>14. CASE Wake
  BY <1>14 DEF Wake, Disarm
<1>15. CASE Watchdog
  BY <1>15 DEF Watchdog, WaitResult
<1>16. CASE Waited
  BY <1>16, ReturnAwake DEF Waited, Leave
<1>17. CASE Fill
  BY <1>17, ReturnAwake DEF Fill, Leave
<1>18. CASE Publish
  BY <1>18 DEF Publish
<1>19. CASE Ring
  BY <1>19, ReturnAwake DEF Ring, WaitOn, Wait_, Counters
<1>20. CASE Answer
  BY <1>20, ReturnAwake DEF Answer, Defer, Leave
<1>21. CASE WaitLook
  BY <1>21 DEF WaitLook, WaitResult
<1>22. QED
  BY <1>1, <1>2, <1>3, <1>4, <1>5, <1>6, <1>7, <1>8, <1>9, <1>10, <1>11, <1>12, <1>13,
     <1>14, <1>15, <1>16, <1>17, <1>18, <1>19, <1>20, <1>21 DEF AwakeStep

(* Arming stores the target before WAIT; the driver sleeps only after looking again. *)
LEMMA WaitArmKeeps ==
  ASSUME WakeInv, WaitArm, UNCHANGED <<qActive, consumed, completed>>
  PROVE  WakeInv'
<1> USE DEF WakeInv, WaitTypes
<1>1. /\ UNCHANGED <<pgActive, pgConsumed, pgCompleted, produced, waitFor, ensureFor, reapFor>>
      /\ pc' = "recheck"
  BY DEF WaitArm, deviceWords, queueVars, localVars
<1>2. waitFor.which \in Counters /\ waitFor.target \in Int
  BY DEF Wait_
<1>3. pgTarget' \in [Counters -> Int]
  BY <1>2 DEF WaitArm
<1>4. Armed'
  BY <1>1, <1>2 DEF WaitArm, Armed
<1>5. QED
  BY <1>1, <1>3, <1>4 DEF Mirror, NoLostWakeup

LEMMA WaitRecheckKeeps ==
  ASSUME WakeInv, WaitRecheck, UNCHANGED <<qActive, consumed, completed>>
  PROVE  WakeInv'
<1> USE DEF WakeInv, WaitTypes
<1>1. /\ UNCHANGED <<pgActive, pgGeneration, pgConsumed, pgCompleted, pgTarget>>
      /\ UNCHANGED <<active, qGeneration, produced, waitFor, ensureFor, reapFor>>
  BY DEF WaitRecheck, Disarm, PageUntouched, pageVars, deviceWords, queueVars, localVars
<1>2. CASE Recheck
  BY <1>1, <1>2 DEF WaitRecheck, Disarm, Mirror, Armed, NoLostWakeup
<1>3. CASE ~Recheck
  <2>1. pc' = "asleep" /\ pgWait' = pgWait /\ pc = "recheck"
    BY <1>3 DEF WaitRecheck, PageUntouched, pageVars, At
  <2>2. Armed'
    BY <1>1, <2>1 DEF Armed
  <2>3. ~(Current /\ Holds(waitFor.which, waitFor.target))'
    BY <1>1, <1>3 DEF Recheck, Current, Holds, Counter
  <2>4. QED
    BY <1>1, <2>2, <2>3 DEF Mirror, NoLostWakeup
<1>4. QED
  BY <1>2, <1>3

-----------------------------------------------------------------------------
(* The device's handlers.  One that raises a counter has yet to look at WAIT, and
   the one that looked sees the driver's words.                            *)

LEMMA DeviceWake ==
  ASSUME WakeInv, HeadInv, Device, UNCHANGED driverVars
  PROVE  WakeInv'
<1> USE DEF WakeInv, WaitTypes
<1>0. UNCHANGED <<pc, waitFor, produced, ensureFor, reapFor, event, active, qGeneration>>
  BY DEF driverVars, queueVars, localVars
<1>1. CASE ConsumeBegin
  BY <1>0, <1>1 DEF ConsumeBegin, pageVars, wireVars, deviceWords, Mirror, Armed,
       NoLostWakeup, Current, Holds, Counter
<1>2. CASE ConsumeEntry
  <2>1. /\ dpc' \in {"take", "finish"} /\ consumed' = consumed + 1
        /\ UNCHANGED <<pageVars, wireVars, qActive, completed>>
    BY <1>2 DEF ConsumeEntry
  <2>2. NoLostWakeup'
    BY <2>1 DEF NoLostWakeup
  <2>3. QED
    BY <1>0, <2>1, <2>2 DEF pageVars, deviceWords, Mirror, Armed
<1>3. CASE ConsumeEnd
  BY <1>0, <1>3 DEF ConsumeEnd, pageVars, wireVars, deviceWords, Mirror, Armed,
       NoLostWakeup, Current, Holds, Counter
<1>4. CASE CompleteBegin
  BY <1>0, <1>4 DEF CompleteBegin, pageVars, wireVars, deviceWords, Mirror, Armed,
       NoLostWakeup, Current, Holds, Counter
<1>5. CASE DrainUnowned
  BY <1>0, <1>5 DEF DrainUnowned, Pop, pageVars, wireVars, deviceWords, Mirror, Armed,
       NoLostWakeup, Current, Holds, Counter
<1>6. CASE CreditOldest
  BY <1>0, <1>6 DEF CreditOldest, Pop, pageVars, wireVars, deviceWords, Mirror, Armed,
       NoLostWakeup, Current, Holds, Counter
<1>7. CASE CompleteEnd
  BY <1>0, <1>7 DEF CompleteEnd, Drained, HeadInv, Crediting, pageVars, wireVars,
       deviceWords, Mirror, Armed, NoLostWakeup, Current, Holds, Counter
<1>8. CASE FinishStatus
  BY <1>0, <1>8 DEF FinishStatus, pageVars, wireVars, deviceWords, Mirror, Armed,
       NoLostWakeup, Current, Holds, Counter
<1>9. CASE FinishCount
  BY <1>0, <1>9 DEF FinishCount, pageVars, wireVars, deviceWords, Mirror, Armed,
       NoLostWakeup, Current, Holds, Counter
<1>10. CASE ReadWait
  BY <1>0, <1>10 DEF ReadWait, pageVars, wireVars, deviceWords, Mirror, Armed,
       NoLostWakeup, Current, Holds, Counter
<1>11. CASE CompareWait
  <2>1. /\ irq' = (irq \/ Satisfied(armed)) /\ dpc = "compare"
        /\ UNCHANGED <<pageVars, halted, qActive, consumed, completed>>
    BY <1>11 DEF CompareWait
  <2>2. waitFor.which \in Counters /\ waitFor.target \in Int
    BY DEF Wait_
  <2>3. ASSUME pc = "asleep", Current, Holds(waitFor.which, waitFor.target),
               armed = waitFor.which
        PROVE  irq'
    <3>1. pgActive /\ pgTarget[waitFor.which] = waitFor.target
      BY <2>3 DEF Current, Armed
    <3>2. DeviceCounter(waitFor.which) >= Counter(waitFor.which)
      BY <3>1 DEF Mirror, DeviceCounter, Counter
    <3>3. DeviceCounter(waitFor.which) \in Int /\ Counter(waitFor.which) \in Int
      BY DEF DeviceCounter, Counter
    <3>4. DeviceCounter(waitFor.which) >= waitFor.target
      BY <2>2, <2>3, <3>2, <3>3 DEF Holds
    <3>5. QED
      BY <2>1, <2>2, <2>3, <3>1, <3>4 DEF Satisfied
  <2>4. (Current /\ Holds(waitFor.which, waitFor.target))'
          = (Current /\ Holds(waitFor.which, waitFor.target))
    BY <1>0, <2>1 DEF Current, Holds, Counter, pageVars, deviceWords
  <2>5. NoLostWakeup'
    BY <1>0, <2>1, <2>3, <2>4 DEF NoLostWakeup
  <2>6. QED
    BY <1>0, <2>1, <2>5 DEF pageVars, deviceWords, Mirror, Armed
<1>12. QED
  BY <1>1, <1>2, <1>3, <1>4, <1>5, <1>6, <1>7, <1>8, <1>9, <1>10, <1>11 DEF Device

-----------------------------------------------------------------------------
LEMMA WakeInit == Init => WakeInv
<1> SUFFICES ASSUME Init PROVE WakeInv
  OBVIOUS
<1>1. waitFor \in Wait_
  BY DEF Init, DriverInit, NoWait, Wait_, Counters
<1>2. pgTarget \in [Counters -> Int]
  BY DEF Init, PageInit
<1>3. WaitTypes
  BY <1>1, <1>2 DEF Init, DeviceInit, PageInit, DriverInit, WaitTypes
<1>4. Mirror /\ Armed /\ NoLostWakeup
  BY DEF Init, PageInit, DriverInit, Mirror, Armed, NoLostWakeup
<1>5. QED
  BY <1>3, <1>4 DEF WakeInv

LEMMA WakeStep == WakeInv /\ HeadInv /\ [Next]_vars => WakeInv'
<1> SUFFICES ASSUME WakeInv, HeadInv, [Next]_vars PROVE WakeInv'
  OBVIOUS
<1>1. CASE Call
  <2>1. AwakeStep /\ UNCHANGED <<qActive, consumed, completed>>
    BY <1>1 DEF Call, AwakeStep, deviceVars
  <2>2. QED
    BY <2>1, StepAwake, AwakeKeeps DEF WakeInv
<1>2. CASE Proceed
  <2>1. UNCHANGED <<qActive, consumed, completed>>
    BY <1>2 DEF Proceed, deviceVars
  <2>2. AwakeStep \/ WaitArm \/ WaitRecheck
    BY <1>2 DEF Proceed, AwakeStep
  <2>3. QED
    BY <2>1, <2>2, StepAwake, AwakeKeeps, WaitArmKeeps, WaitRecheckKeeps DEF WakeInv
<1>3. CASE ControlStep
  <2>1. /\ pc' = "enabled" /\ UNCHANGED <<pgTarget, produced, waitFor, ensureFor, reapFor>>
        /\ EnableQueue(upTo)
    BY <1>3 DEF ControlStep, WriteControl, queueVars, localVars
  <2>2. /\ consumed' \in Nat /\ completed' \in Nat /\ pgConsumed' \in Nat /\ pgCompleted' \in Nat
        /\ Mirror'
    BY <2>1 DEF EnableQueue, Restart, WakeInv, WaitTypes, Mirror
  <2>3. QED
    BY <2>1, <2>2 DEF WakeInv, WaitTypes, Armed, NoLostWakeup
<1>4. CASE InterruptStep
  BY <1>4 DEF InterruptStep, Interrupt, pageVars, deviceWords, queueVars, localVars, deviceVars,
     WakeInv, WaitTypes, Mirror, Armed, NoLostWakeup, Current, Holds, Counter
<1>5. CASE DeviceStep
  BY <1>5, DeviceWake DEF DeviceStep
<1>6. CASE ResetStep
  <2>1. /\ UNCHANGED <<pc, waitFor, produced, ensureFor, reapFor, pgConsumed, pgCompleted,
                       pgWait, pgTarget, consumed, completed>>
        /\ pgActive' = (pgActive /\ ~qActive)
    BY <1>6 DEF ResetStep, DeviceReset, driverVars, queueVars, localVars
  <2>2. ~pgActive'
    BY <2>1 DEF WakeInv, Mirror
  <2>3. QED
    BY <2>1, <2>2 DEF WakeInv, WaitTypes, Mirror, Armed, NoLostWakeup, Current
<1>7. CASE WorkerStep
  BY <1>7 DEF WorkerStep, EngineStep, pageVars, deviceWords, wireVars, deviceVars, driverVars,
     queueVars, localVars, WakeInv, WaitTypes, Mirror, Armed, NoLostWakeup, Current, Holds,
     Counter
<1>8. CASE UNCHANGED vars
  BY <1>8 DEF vars, pageVars, deviceWords, wireVars, deviceVars, driverVars, queueVars,
     localVars, WakeInv, WaitTypes, Mirror, Armed, NoLostWakeup, Current, Holds, Counter
<1>9. QED
  BY <1>1, <1>2, <1>3, <1>4, <1>5, <1>6, <1>7, <1>8 DEF Next, Quiet

(* No wakeup is lost: a driver asleep on a counter that has reached its target has its
   event set, an interrupt on the way, or a handler that has yet to read the WAIT
   words or compares them now. *)
THEOREM WakeCorrect == Spec => []NoLostWakeup
<1>1. WakeInv => NoLostWakeup
  BY DEF WakeInv
<1>2. QED
  BY HeadInit, HeadStep, WakeInit, WakeStep, <1>1, PTL DEF Spec

-----------------------------------------------------------------------------
(* The page and its two sides: the inductive invariant.  A request that may still write a batch has room for it;
   one that opens a client never comes near the ring, and only the display driver's
   records read back or return.                                            *)

BeforeFill ==
  \/ pc \in {"ensure", "register", "stores", "control", "enabled", "admit", "report", "buffer",
             "claim", "claimBuffer", "fill"}
  \/ pc \in {"reap", "reaping", "lose"} /\ (reapFor # "waited" \/ waitFor.use # "entry")
  \/ pc \in {"wait", "arm", "recheck", "asleep", "waited"} /\ waitFor.use # "entry"

RoomInv ==
  /\ Len(issued) <= MaxBatches
  /\ call.kind = "submit" => ~call.coherent
  /\ BeforeFill /\ call.kind # "open" => Len(issued) < MaxBatches
  /\ call.kind = "open" =>
       /\ ensureFor = "admit"
       /\ \/ pc \in {"ensure", "register", "stores", "control", "enabled", "admit"}
          \/ pc \in {"reap", "reaping", "lose"} /\ reapFor = "register"

(* The driver's queue and the device's.  An enabled device serves the live queue of
   the driver, except while the driver is on its way back from enabling it. *)
JoinInv ==
  /\ pgActive = qActive
  /\ qActive => pgGeneration = generation
  /\ active => pgProduced = produced /\ qGeneration <= generation
  /\ active /\ qGeneration = generation => qActive
  /\ qActive => \/ active /\ qGeneration = generation
                \/ pc = "enabled" /\ ~active /\ upTo = generation
  /\ pc \in {"stores", "control", "enabled"} => upTo <= generation
  /\ pc \in {"register", "stores", "control", "enabled"} => ~active
  /\ pc = "reap" /\ reapFor = "register" => ~(active /\ qActive)
  /\ pc = "lose" => active /\ ~qActive
  /\ pc = "reaping" => active /\ reapFor # "register"
  /\ pc \in {"control", "enabled"} => pgProduced = 0

(* The device counts an entry as consumed, unfinished, in hand, or completed. *)
InHand == IF finishing = {} THEN 0 ELSE 1

DeviceInv ==
  /\ finishing # {} <=> dpc \in {"finish", "count"}
  /\ AtMostOne(finishing) /\ AtMostOne(credit)
  /\ credit # {} => dpc = "drain"
  /\ dpc # "idle" \/ entries # <<>> => qActive
  /\ qActive =>
       /\ consumed = completed + Len(entries) + InHand
       /\ consumed <= pgProduced /\ pgProduced - completed <= Depth
       /\ pgCompleted = completed /\ pgConsumed <= consumed
  /\ dpc = "drain" => handler = "complete"
  /\ dpc = "take" \/ (dpc \in {"finish", "count"} /\ handler = "consume") =>
       consumed <= published /\ published <= pgProduced

(* The driver never has more than Depth entries unreaped, fewer when it is about to
   write one, and leaves a wait only for the reason it waited for. *)
Waiting  == pc \in {"wait", "arm", "recheck", "asleep"}
Reaping  == pc \in {"reap", "reaping", "lose"} /\ reapFor = "waited"
Reached(use) == waited = "reached" /\ waitFor.use = use

WindowInv ==
  /\ active => reaped <= produced /\ produced - reaped <= Depth
  /\ active /\ qActive => reaped <= completed
  /\ active /\ (pc \in {"claimBuffer", "fill", "publish"} \/ (Waiting /\ waitFor.use = "buffer")) =>
       produced - reaped < Depth
  /\ pc = "reaping" => reaped <= upTo /\ upTo <= produced /\ (qActive => upTo <= completed)
  /\ Waiting \/ Reaping \/ pc = "waited" =>
       /\ waitFor.target = CASE waitFor.use = "slot" -> produced - Depth + 1
                             [] waitFor.use = "buffer" -> produced - Buffers + 1
                             [] OTHER -> produced
       /\ waitFor.which = IF waitFor.use = "buffer" THEN "consumed" ELSE "completed"
  /\ Reaping \/ pc = "waited" => ~Reached("buffer")
  /\ Reaping /\ Reached("slot") =>
       /\ pc = "reap" /\ active /\ qActive => waitFor.target <= completed
       /\ pc = "reaping" => waitFor.target <= upTo
  /\ pc = "waited" /\ Reached("slot") /\ active => waitFor.target <= reaped
  /\ pc \in {"fill", "publish"} /\ active /\ qActive => produced - Buffers + 1 <= consumed

(* A batch of a live queue is recorded, waits between Reaped and Produced, or is about
   to be published; and each of those entries is some batch. *)
OfQueue(b) == issued[b].live /\ issued[b].queue = qGeneration
Publishing(b) == pc = "publish" /\ b = Len(issued) /\ issued[b].index = produced

IssuedInv ==
  /\ \A b \in DOMAIN issued : issued[b].live =>
       /\ issued[b].queue <= generation
       /\ issued[b].queue = generation => active /\ qGeneration = generation
       /\ settled[b] = "unset" =>
            active /\ OfQueue(b) /\ (issued[b].index \in reaped..produced - 1 \/ Publishing(b))
  /\ \A a, b \in DOMAIN issued :
       a < b /\ issued[a].live /\ issued[b].live /\ issued[a].queue = issued[b].queue
       => issued[a].index < issued[b].index
  /\ active /\ pc = "publish" =>
       issued # <<>> /\ OfQueue(Len(issued)) /\ issued[Len(issued)].index = produced
  /\ active => \A b \in DOMAIN issued : OfQueue(b) => issued[b].index < produced \/ Publishing(b)
  /\ active => \A i \in reaped..produced - 1 :
       \E b \in DOMAIN issued : OfQueue(b) /\ issued[b].index = i

(* Until it is reaped, a batch's slot and owner name it; until it is consumed, its
   buffer holds it. *)
SlotHolds(b) ==
  LET i == issued[b].index
      e == ring[SlotOf(i)] IN
  /\ owners[SlotOf(i)] = [batch |-> b, dom |-> issued[b].dom, async |-> issued[b].async]
  /\ e.batch = b /\ e.buffer = BufferOf(i) /\ e.dom = issued[b].dom
  /\ e.coherent = issued[b].coherent /\ (e.query => ~e.coherent /\ ~issued[b].async)

IntactInv ==
  active => \A b \in DOMAIN issued : OfQueue(b) =>
    /\ issued[b].index >= reaped => SlotHolds(b)
    /\ qActive /\ issued[b].index >= consumed => buffer[BufferOf(issued[b].index)] = b

(* What is completed and not reaped has its outcome in its slot. *)
StatusInv ==
  /\ active /\ qActive => \A i \in reaped..completed - 1 : status[SlotOf(i)] # "unset"
  /\ qActive /\ dpc = "count" => status[SlotOf(completed)] # "unset"
  /\ pc = "reaping" => \A i \in reaped..upTo - 1 : status[SlotOf(i)] # "unset"
  /\ qActive => \A k \in DOMAIN entries : entries[k].slot = SlotOf(completed + InHand + k - 1)
  /\ \A f \in finishing : f.entry.slot = SlotOf(completed)

PageInv ==
  /\ TypeOK /\ RoomInv /\ JoinInv /\ DeviceInv /\ WindowInv /\ IssuedInv /\ IntactInv /\ StatusInv

-----------------------------------------------------------------------------
(* Slots and buffers are rings: two indices less than a turn apart never share one. *)
LEMMA Division ==
  ASSUME NEW n \in Nat \ {0}, NEW i \in Nat
  PROVE  i = n * (i \div n) + (i % n) /\ i % n \in 0..n-1 /\ i \div n \in Nat
<1>1. i = n * (i \div n) + (i % n)
  BY Z3
<1>2. i % n \in 0..n-1
  OBVIOUS
<1>3. i \div n \in Nat
  OBVIOUS
<1>4. QED
  BY <1>1, <1>2, <1>3

LEMMA RingDiffers ==
  ASSUME NEW n \in Nat \ {0}, NEW i \in Nat, NEW j \in Nat, i < j, j < i + n
  PROVE  i % n # j % n
<1> SUFFICES ASSUME i % n = j % n PROVE FALSE
  OBVIOUS
<1> DEFINE p == i \div n
           q == j \div n
<1>1. i = n * p + (i % n) /\ p \in Nat /\ i % n \in 0..n-1
  BY Division
<1>2. j = n * q + (j % n) /\ q \in Nat
  BY Division
<1> HIDE DEF p, q
<1>3. n * p < n * q /\ n * q < n * p + n
  BY <1>1, <1>2
<1>4. p < q /\ q < p + 1
  BY <1>1, <1>2, <1>3
<1>5. QED
  BY <1>1, <1>2, <1>4

LEMMA SlotType ==
  ASSUME NEW i \in Nat
  PROVE  SlotOf(i) \in Slots /\ BufferOf(i) \in 0..Buffers-1
BY Division, PageConstants DEF PageConstants, SlotOf, BufferOf, Slots

LEMMA SlotDiffers ==
  ASSUME NEW i \in Nat, NEW j \in Nat, i < j
  PROVE  /\ j - i < Depth => SlotOf(i) # SlotOf(j)
         /\ j - i < Buffers => BufferOf(i) # BufferOf(j)
<1>1. Depth \in Nat \ {0} /\ Buffers \in Nat \ {0}
  BY PageConstants DEF PageConstants
<1>2. ASSUME j - i < Depth PROVE SlotOf(i) # SlotOf(j)
  <2>1. j < i + Depth
    BY <1>1, <1>2
  <2>2. QED
    BY <1>1, <2>1, RingDiffers DEF SlotOf
<1>3. ASSUME j - i < Buffers PROVE BufferOf(i) # BufferOf(j)
  <2>1. j < i + Buffers
    BY <1>1, <1>3
  <2>2. QED
    BY <1>1, <2>1, RingDiffers DEF BufferOf
<1>4. QED
  BY <1>2, <1>3

(* The lowest slot of a set of slots is one of them. *)
LEMMA LowestIn ==
  ASSUME NEW S \in SUBSET (1..TableSlots), S # {}
  PROVE  Lowest(S) \in S
<1>1. S \subseteq Nat
  BY TableConstants DEF TableConstants
<1> DEFINE Less == {p \in Nat \X Nat : p[1] < p[2]}
<1>2. IsWellFoundedOn(Less, Nat)
  BY NatLessThanWellFounded DEF OpToRel
<1>3. PICK i \in S : \A j \in S : ~(<<j, i>> \in Less)
  BY <1>1, <1>2, WFMin
<1>4. ASSUME NEW j \in S, j < i PROVE FALSE
  <2>1. <<j, i>> \in Less
    BY <1>1, <1>4
  <2>2. QED
    BY <1>3, <2>1
<1>5. \A j \in S : i <= j
  BY <1>1, <1>4
<1>6. QED
  BY <1>5 DEF Lowest

-----------------------------------------------------------------------------
(* The driver's table of failures keeps its type, and what is told is a batch. *)

TableType == faults \in [1..TableSlots -> Fault_ \cup {NoFault}] /\ told \subseteq Batches

LEMMA AddFaultType ==
  ASSUME NEW table \in [1..TableSlots -> Fault_ \cup {NoFault}], NEW fault \in Fault_
  PROVE  AddFault(table, fault) \in [1..TableSlots -> Fault_ \cup {NoFault}]
BY DEF AddFault

LEMMA DropFaultsType ==
  ASSUME NEW table \in [1..TableSlots -> Fault_ \cup {NoFault}], NEW domains
  PROVE  DropFaults(table, domains) \in [1..TableSlots -> Fault_ \cup {NoFault}]
BY DEF DropFaults

LEMMA DeferType ==
  ASSUME TableType, NEW domains, FaultsIn(faults, domains) # {}, Defer(domains)
  PROVE  TableType'
<1> DEFINE i == TakeSlot(faults, domains)
<1>1. i \in FaultsIn(faults, domains)
  BY LowestIn DEF TakeSlot, FaultsIn
<1>2. i \in 1..TableSlots /\ faults[i] # NoFault
  BY <1>1 DEF FaultsIn
<1>3. faults[i].batch \in Batches
  BY <1>2 DEF TableType, Fault_
<1>4. WithoutSlot(faults, i) \in [1..TableSlots -> Fault_ \cup {NoFault}]
  BY DEF WithoutSlot, TableType
<1>5. told' = told \cup {faults[i].batch} /\ faults' = WithoutSlot(faults, i)
  BY DEF Defer
<1>6. QED
  BY <1>3, <1>4, <1>5 DEF TableType

(* Returning to the caller leaves nothing of the request behind. *)
LocalType ==
  /\ pc \in DriverStations /\ call \in Call_ /\ ensureFor \in {"admit", "buffer"}
  /\ reapFor \in {"admit", "register", "report", "claim", "waited"}
  /\ upTo \in Nat /\ waitFor \in Wait_ /\ waited \in {"reached", "lost", "timeout"}

LEMMA GenerationsNat == Generations \subseteq Nat /\ 0 \in Generations
BY EngineConstants DEF EngineConstants, Generations

LEMMA ReturnType ==
  ASSUME Return
  PROVE  LocalType' /\ pc' = "idle" /\ call'.kind = "none"
BY GenerationsNat DEF Return, NoWait, NoCall, Wait_, Call_, Counters, LocalType, DriverStations

LEMMA LeaveType ==
  ASSUME DriverTypeOK, NEW table \in [1..TableSlots -> Fault_ \cup {NoFault}], Leave(table)
  PROVE  /\ LocalType' /\ pc' = "idle" /\ call'.kind = "none"
         /\ faults' \in [1..TableSlots -> Fault_ \cup {NoFault}]
         /\ clientGen' \in [Clients -> Generations \cup {-1, -2}]
BY ReturnType, DropFaultsType DEF Leave, DriverTypeOK

-----------------------------------------------------------------------------
(* Most steps of the driver only move its own control: they write neither the ring nor
   its counters. *)
Counting == <<engineVars, deviceVars, deviceWords, pgProduced, ring, status, buffer,
              generation, queueVars, owners, issued, settled>>

Moves == UNCHANGED Counting /\ pc' \notin {"publish", "reaping"} /\ pc # "publish"

LEMMA DeviceTypeFrame == DeviceTypeOK /\ UNCHANGED deviceVars => DeviceTypeOK'
BY DEF DeviceTypeOK, deviceVars

LEMMA MovesKeep ==
  ASSUME PageInv, Moves
  PROVE  EngineTypeOK' /\ DeviceTypeOK' /\ DeviceInv' /\ IssuedInv' /\ IntactInv' /\ StatusInv'
<1> USE DEF Moves, Counting, PageInv
<1>1. EngineTypeOK'
  BY EngineFrame DEF TypeOK
<1>2. DeviceTypeOK'
  BY DeviceTypeFrame DEF TypeOK
<1>3. DeviceInv'
  BY DEF DeviceInv, InHand, deviceVars, deviceWords, AtMostOne
<1>4. IssuedInv'
  BY DEF IssuedInv, OfQueue, Publishing, queueVars
<1>5. IntactInv'
  BY DEF IntactInv, OfQueue, SlotHolds, deviceVars, queueVars
<1>6. StatusInv'
  BY DEF StatusInv, InHand, deviceVars, queueVars
<1>7. QED
  BY <1>1, <1>2, <1>3, <1>4, <1>5, <1>6

(* What such a step has to keep by itself. *)
Control == PageTypeOK /\ DriverTypeOK /\ RoomInv /\ JoinInv /\ WindowInv

LEMMA ControlKeeps == ASSUME PageInv, Moves, Control' PROVE PageInv'
BY MovesKeep DEF PageInv, TypeOK, Control

(* A request that returns. *)
LEMMA ReturnKeeps ==
  ASSUME PageInv, Moves, Return, pc # "enabled", PageTypeOK', DriverTypeOK'
  PROVE  PageInv'
<1> USE DEF PageInv, Moves, Counting
<1>1. pc' = "idle" /\ call'.kind = "none"
  BY ReturnType
<1>2. RoomInv'
  BY <1>1 DEF RoomInv, BeforeFill
<1>3. JoinInv'
  BY <1>1 DEF JoinInv, deviceVars, deviceWords, queueVars
<1>4. WindowInv'
  BY <1>1 DEF WindowInv, Waiting, Reaping, deviceVars, queueVars
<1>5. QED
  BY <1>2, <1>3, <1>4, ControlKeeps DEF Control

(* The steps that move the control only. *)
StaysStep ==
  \/ Request \/ Ensure \/ ReadGeneration \/ Admit \/ Report \/ BufferBegin
  \/ Claim \/ ClaimBuffer \/ WaitLook \/ WaitArm \/ WaitRecheck \/ Wake \/ Watchdog
  \/ Waited \/ Ring \/ Answer

LEMMA StaysTypes ==
  ASSUME PageInv, StaysStep, UNCHANGED <<engineVars, deviceVars>>
  PROVE  Moves /\ PageTypeOK' /\ DriverTypeOK'
<1> USE DEF PageInv, TypeOK, PageTypeOK, DriverTypeOK, At, PageUntouched, pageVars, deviceWords,
            wireVars, queueVars, clientVars, localVars, Moves, Counting
<1>1. Depth \in Nat \ {0} /\ Buffers \in Nat \ {0, 1}
  BY PageConstants DEF PageConstants
<1>2. Generations \subseteq Nat
  BY GenerationsNat
<1>3. CurrentGeneration \in Generations
  BY DEF CurrentGeneration
<1>4. CASE Request
  <2>1. call' \in Call_ /\ pc' = "ensure" /\ ensureFor' \in {"admit", "buffer"}
    <3>1. call' \in Requests
      BY <1>4 DEF Request
    <3>2. NoCall \in Call_
      BY GenerationsNat DEF NoCall, Call_
    <3>3. \A d \in Domains : ClientOf[d] \in Clients
      BY DriverConstants DEF DriverConstants
    <3>4. ASSUME NEW k \in {"open", "close"}, NEW c \in Clients
          PROVE  [NoCall EXCEPT !.kind = k, !.client = {c}] \in Call_
      BY <3>2 DEF Call_
    <3>5. ASSUME NEW x \in BOOLEAN
          PROVE  [NoCall EXCEPT !.kind = "kernel", !.coherent = x] \in Call_
      BY <3>2 DEF Call_
    <3>6. ASSUME NEW d \in Domains, NEW a \in BOOLEAN
          PROVE  [NoCall EXCEPT !.kind = "submit", !.client = {ClientOf[d]}, !.dom = d,
                                !.async = a] \in Call_
      BY <3>2, <3>3, ZenonT(40) DEF Call_
    <3>7. OpenCalls \subseteq Call_ /\ CloseCalls \subseteq Call_
      BY <3>4 DEF OpenCalls, CloseCalls, Open
    <3>8. KernelCalls \subseteq Call_
      BY <3>5 DEF KernelCalls
    <3>9. SubmitCalls \subseteq Call_
      <4> SUFFICES ASSUME NEW s \in SubmitCalls PROVE s \in Call_
        OBVIOUS
      <4>1. PICK d \in {e \in Domains : ClientOf[e] \in Open} :
              s \in {[NoCall EXCEPT !.kind = "submit", !.client = {ClientOf[d]}, !.dom = d,
                                   !.async = a] : a \in BOOLEAN}
        BY Zenon DEF SubmitCalls
      <4>2. QED
        BY <3>6, <4>1
    <3>10. QED
      BY <1>4, <3>1, <3>7, <3>8, <3>9 DEF Request, Requests
  <2>2. QED
    BY <1>4, <2>1 DEF Request, DriverStations
<1>5. CASE Ensure
  BY <1>5 DEF Ensure, DriverStations
<1>6. CASE ReadGeneration
  BY <1>2, <1>6 DEF ReadGeneration, DriverStations
<1>8. CASE Admit
  <2>1. CASE Return
    BY <1>2, <1>3, <1>8, <2>1, ReturnType DEF Admit, LocalType
  <2>2. CASE pc' = "reap"
    <3>1. call' = [call EXCEPT !.gen = CurrentGeneration]
      BY <1>8, <2>2 DEF Admit, Return
    <3>2. call' \in Call_
      BY <1>3, <3>1 DEF Call_
    <3>3. QED
      BY <1>8, <2>2, <3>2 DEF Admit, Return, DriverStations
  <2>3. QED
    BY <1>8, <2>1, <2>2 DEF Admit
<1>9. CASE Report
  <2>1. CASE Defer(ClientDomains) /\ Return /\ FaultsIn(faults, ClientDomains) # {}
    BY <1>9, <2>1, ReturnType, DeferType DEF Report, LocalType, TableType
  <2>2. CASE pc' = "ensure"
    BY <1>9, <2>2, ReturnType DEF Report, DriverStations
  <2>3. QED
    BY <1>9, <2>1, <2>2 DEF Report
<1>10. CASE BufferBegin
  <2>1. CASE Leave(faults)
    BY <1>10, <2>1, LeaveType DEF BufferBegin, LocalType
  <2>2. CASE pc' = "reap"
    BY <1>10, <2>2, LeaveType DEF BufferBegin, DriverStations
  <2>3. QED
    BY <1>10, <2>1, <2>2 DEF BufferBegin
<1>11. CASE Claim
  <2>1. CASE Leave(faults)
    BY <1>11, <2>1, LeaveType DEF Claim, LocalType
  <2>2. CASE active
    BY <1>1, <1>11, <2>2 DEF Claim, DriverStations, WaitOn, Wait_, Counters
  <2>3. QED
    BY <1>11, <2>1, <2>2 DEF Claim
<1>12. CASE ClaimBuffer
  BY <1>1, <1>12 DEF ClaimBuffer, DriverStations, WaitOn, Wait_, Counters, BufferTarget
<1>13. CASE WaitLook
  BY <1>13 DEF WaitLook, WaitResult, DriverStations
<1>14. CASE WaitArm
  <2>1. waitFor.which \in Counters /\ waitFor.target \in Int
    BY DEF Wait_
  <2>2. pgTarget' \in [Counters -> Int]
    BY <1>14, <2>1 DEF WaitArm
  <2>3. QED
    BY <1>14, <2>1, <2>2, ZenonT(40) DEF WaitArm, DriverStations
<1>15. CASE WaitRecheck
  BY <1>15 DEF WaitRecheck, Disarm, DriverStations
<1>16. CASE Wake
  BY <1>16 DEF Wake, Disarm, DriverStations
<1>17. CASE Watchdog
  BY <1>17 DEF Watchdog, WaitResult, TimedOut, DriverStations
<1>18. CASE Waited
  <2>1. CASE Leave(faults)
    BY <1>18, <2>1, LeaveType DEF Waited, LocalType
  <2>2. CASE waited = "reached"
    BY <1>18, <2>2 DEF Waited, DriverStations
  <2>3. QED
    BY <1>18, <2>1, <2>2 DEF Waited
<1>19. CASE Ring
  <2>1. CASE Return
    BY <1>19, <2>1, ReturnType DEF Ring, LocalType
  <2>2. CASE ~call.async
    BY <1>19, <2>2 DEF Ring, WaitOn, Wait_, Counters, DriverStations
  <2>3. QED
    BY <1>19, <2>1, <2>2 DEF Ring
<1>20. CASE Answer
  <2>1. CASE /\ Defer({call.dom}) /\ Return /\ FaultsIn(faults, {call.dom}) # {}
             /\ UNCHANGED clientGen
    BY <1>20, <2>1, ReturnType, DeferType DEF Answer, LocalType, TableType
  <2>2. CASE Leave(faults) /\ UNCHANGED told
    BY <1>20, <2>2, LeaveType DEF Answer, LocalType
  <2>3. QED
    BY <1>20, <2>1, <2>2 DEF Answer
<1>21. QED
  BY <1>4, <1>5, <1>6, <1>8, <1>9, <1>10, <1>11, <1>12, <1>13, <1>14, <1>15, <1>16, <1>17,
     <1>18, <1>19, <1>20 DEF StaysStep

(* A wait goes on, or ends with a result that holds. *)
LEMMA WaitKeeps ==
  ASSUME PageInv, Moves, Waiting, waitFor \in Wait_, produced \in Nat, completed \in Nat,
         consumed \in Nat, PageTypeOK,
         UNCHANGED <<call, upTo, waitFor, ensureFor>>,
         \/ Current /\ Holds(waitFor.which, waitFor.target) /\ WaitResult("reached")
         \/ WaitResult("lost") \/ WaitResult("timeout")
         \/ pc' = "arm" /\ UNCHANGED <<waited, reapFor>>
  PROVE  RoomInv' /\ JoinInv' /\ WindowInv'
<1>1. /\ UNCHANGED <<pgActive, pgGeneration, pgConsumed, pgCompleted, pgProduced, generation>>
      /\ UNCHANGED <<active, qGeneration, produced, reaped, qActive, consumed, completed, issued>>
      /\ pc' \notin {"publish", "reaping"}
  BY DEF Moves, Counting, deviceVars, deviceWords, queueVars
<1>2. waitFor.use \in {"slot", "buffer", "entry"}
  BY DEF Wait_
<1> USE <1>1, <1>2 DEF PageInv
<1>3. RoomInv'
  BY DEF RoomInv, BeforeFill, WaitResult, Waiting
<1>4. JoinInv'
  BY DEF JoinInv, WaitResult, Waiting
<1>5. Current /\ Holds(waitFor.which, waitFor.target) =>
        waitFor.target <= IF waitFor.use = "buffer" THEN consumed ELSE completed
  BY DEF Current, Holds, Counter, WindowInv, JoinInv, DeviceInv, Waiting, Wait_, PageTypeOK
<1>6. WindowInv'
  BY <1>5 DEF WindowInv, Waiting, Reaping, Reached, WaitResult
<1>7. QED
  BY <1>3, <1>4, <1>6

LEMMA StaysKeep ==
  ASSUME PageInv, StaysStep, UNCHANGED <<engineVars, deviceVars>>
  PROVE  PageInv'
<1>1. Moves /\ PageTypeOK' /\ DriverTypeOK'
  BY StaysTypes
<1>2. /\ Depth \in Nat \ {0} /\ Buffers \in Nat \ {0, 1} /\ Generations \subseteq Nat
      /\ produced \in Nat /\ reaped \in Nat /\ completed \in Nat /\ consumed \in Nat
      /\ waitFor \in Wait_ /\ Len(issued) \in Nat /\ MaxBatches \in Nat /\ generation \in Generations
  BY PageConstants, GenerationsNat, EngineConstants
     DEF PageConstants, EngineConstants, PageInv, TypeOK, PageTypeOK, DeviceTypeOK, DriverTypeOK
<1>3. /\ UNCHANGED <<pgActive, pgGeneration, pgConsumed, pgCompleted, pgProduced, generation>>
      /\ UNCHANGED <<active, qGeneration, produced, reaped, qActive, consumed, completed, issued>>
      /\ pc' \notin {"publish", "reaping"}
  BY <1>1 DEF Moves, Counting, deviceVars, deviceWords, queueVars
<1>4. SUFFICES ASSUME ~(Return /\ pc # "enabled") PROVE RoomInv' /\ JoinInv' /\ WindowInv'
  BY <1>1, ReturnKeeps, ControlKeeps DEF Control
<1> USE <1>2, <1>3 DEF PageInv, At
<1>5. CASE Request
  <2>1. /\ pc = "idle" /\ pc' = "ensure" /\ call' \in Requests
        /\ ensureFor' = IF call'.kind \in {"open", "submit"} THEN "admit" ELSE "buffer"
        /\ UNCHANGED reapFor
    BY <1>5 DEF Request
  <2>2. call'.kind = "open" \/ Len(issued) < MaxBatches
    BY <2>1 DEF Requests, CanIssue, OpenCalls, NoCall
  <2>3. call'.kind = "submit" => ~call'.coherent
    <3>1. \A r \in OpenCalls \cup CloseCalls \cup KernelCalls : r.kind # "submit"
      BY DEF OpenCalls, CloseCalls, KernelCalls, NoCall
    <3>2. \A d : \A a : ~[NoCall EXCEPT !.kind = "submit", !.client = {ClientOf[d]}, !.dom = d,
                                        !.async = a].coherent
      BY DEF NoCall
    <3>3. \A r \in SubmitCalls : \E d : r \in {[NoCall EXCEPT !.kind = "submit", !.client = {ClientOf[d]},
                                                !.dom = d, !.async = a] : a \in BOOLEAN}
      BY Zenon DEF SubmitCalls
    <3>4. ASSUME NEW r \in SubmitCalls PROVE ~r.coherent
      <4>1. PICK d : r \in {[NoCall EXCEPT !.kind = "submit", !.client = {ClientOf[d]}, !.dom = d,
                                          !.async = a] : a \in BOOLEAN}
        BY <3>3
      <4>2. PICK a : r = [NoCall EXCEPT !.kind = "submit", !.client = {ClientOf[d]}, !.dom = d,
                                        !.async = a]
        BY <4>1
      <4>3. QED
        BY <3>2, <4>2
    <3>5. QED
      BY <2>1, <3>1, <3>4 DEF Requests
  <2>4. RoomInv'
    BY <2>1, <2>2, <2>3 DEF RoomInv
  <2>5. JoinInv' /\ WindowInv'
    BY <2>1 DEF JoinInv, WindowInv, Waiting, Reaping
  <2>6. QED
    BY <2>4, <2>5
<1>6. CASE Ensure
  <2>1. RoomInv'
    BY <1>6 DEF Ensure, RoomInv, BeforeFill
  <2>2. ~Current => ~(active /\ qActive)
    BY <1>6 DEF Ensure, Current, JoinInv
  <2>3. JoinInv'
    BY <1>6, <2>2 DEF Ensure, JoinInv, TypeOK, DriverTypeOK
  <2>4. WindowInv'
    BY <1>6 DEF Ensure, WindowInv, Waiting, Reaping, TypeOK, DriverTypeOK
  <2>5. QED
    BY <2>1, <2>3, <2>4
<1>7. CASE ReadGeneration
  BY <1>7 DEF ReadGeneration, RoomInv, BeforeFill, JoinInv, WindowInv, Waiting, Reaping
<1>8. CASE Admit
  <2>1. /\ pc = "admit" /\ pc' = "reap" /\ reapFor' = "report" /\ call.kind # "open"
        /\ call'.kind = call.kind /\ call'.coherent = call.coherent /\ UNCHANGED <<upTo, waitFor, waited>>
    BY <1>4, <1>8 DEF Admit, TypeOK, DriverTypeOK, Call_
  <2>2. RoomInv'
    BY <2>1 DEF RoomInv, BeforeFill
  <2>3. JoinInv' /\ WindowInv'
    BY <2>1 DEF JoinInv, WindowInv, Waiting, Reaping
  <2>4. QED
    BY <2>2, <2>3
<1>9. CASE Report
  <2>1. pc = "report" /\ pc' = "ensure" /\ ensureFor' = "buffer" /\ UNCHANGED <<call, reapFor>>
    BY <1>4, <1>9 DEF Report
  <2>2. QED
    BY <2>1 DEF RoomInv, BeforeFill, JoinInv, WindowInv, Waiting, Reaping
<1>10. CASE BufferBegin
  <2>1. /\ pc = "buffer" /\ pc' = "reap" /\ reapFor' = "claim"
        /\ UNCHANGED <<call, upTo, waitFor, waited>>
    BY <1>4, <1>10 DEF BufferBegin, Leave
  <2>2. QED
    BY <2>1 DEF RoomInv, BeforeFill, JoinInv, WindowInv, Waiting, Reaping
<1>11. CASE Claim
  <2>1. /\ pc = "claim" /\ active /\ UNCHANGED <<call, reapFor, upTo, waited, ensureFor>>
        /\ \/ Full /\ WaitOn("completed", produced - Depth + 1, "slot")
           \/ ~Full /\ pc' = "claimBuffer" /\ UNCHANGED waitFor
    BY <1>4, <1>11 DEF Claim, Leave
  <2>2. RoomInv'
    BY <2>1 DEF RoomInv, BeforeFill, WaitOn
  <2>3. JoinInv'
    BY <2>1 DEF JoinInv, WaitOn
  <2>4. WindowInv'
    BY <2>1 DEF WindowInv, Waiting, Reaping, WaitOn, Full
  <2>5. QED
    BY <2>2, <2>3, <2>4
<1>12. CASE ClaimBuffer
  <2>1. /\ pc = "claimBuffer" /\ UNCHANGED <<call, reapFor, upTo, waited, ensureFor>>
        /\ \/ Holds("consumed", BufferTarget) /\ pc' = "fill" /\ UNCHANGED waitFor
           \/ WaitOn("consumed", BufferTarget, "buffer")
    BY <1>12 DEF ClaimBuffer
  <2>2. RoomInv'
    BY <2>1 DEF RoomInv, BeforeFill, WaitOn
  <2>3. JoinInv'
    BY <2>1 DEF JoinInv, WaitOn
  <2>4. WindowInv'
    <3>1. Holds("consumed", BufferTarget) /\ qActive => produced - Buffers + 1 <= consumed
      BY DEF Holds, Counter, BufferTarget, DeviceInv, TypeOK, PageTypeOK
    <3>2. CASE Holds("consumed", BufferTarget) /\ pc' = "fill"
      BY <2>1, <3>1, <3>2 DEF WindowInv, Waiting, Reaping
    <3>3. CASE WaitOn("consumed", BufferTarget, "buffer")
      BY <2>1, <3>3 DEF WindowInv, Waiting, Reaping, WaitOn, BufferTarget
    <3>4. QED
      BY <2>1, <3>2, <3>3
  <2>5. QED
    BY <2>2, <2>3, <2>4
<1>13. CASE WaitLook
  <2>1. /\ pc = "wait" /\ UNCHANGED <<call, upTo, waitFor, ensureFor>>
        /\ \/ Current /\ Holds(waitFor.which, waitFor.target) /\ WaitResult("reached")
           \/ ~Current /\ WaitResult("lost")
           \/ pc' = "arm" /\ UNCHANGED <<waited, reapFor>>
    BY <1>13 DEF WaitLook
  <2>2. QED
    BY <1>1, <2>1, WaitKeeps DEF Waiting, TypeOK
<1>14. CASE WaitArm
  BY <1>14 DEF WaitArm, localVars, RoomInv, BeforeFill, JoinInv, WindowInv, Waiting, Reaping
<1>15. CASE WaitRecheck
  BY <1>15 DEF WaitRecheck, Disarm, localVars, RoomInv, BeforeFill, JoinInv, WindowInv, Waiting, Reaping
<1>16. CASE Wake
  BY <1>16 DEF Wake, Disarm, localVars, RoomInv, BeforeFill, JoinInv, WindowInv, Waiting, Reaping
<1>17. CASE Watchdog
  <2>1. /\ pc = "asleep" /\ UNCHANGED <<call, upTo, waitFor, ensureFor>>
        /\ \/ Current /\ Holds(waitFor.which, waitFor.target) /\ WaitResult("reached")
           \/ WaitResult("lost") \/ WaitResult("timeout")
    BY <1>17 DEF Watchdog, TimedOut
  <2>2. QED
    BY <1>1, <2>1, WaitKeeps DEF Waiting, TypeOK
<1>18. CASE Waited
  <2>1. /\ pc = "waited" /\ waited = "reached"
        /\ pc' = IF waitFor.use = "slot" THEN "claimBuffer" ELSE "answer"
        /\ UNCHANGED localVars
    BY <1>4, <1>18 DEF Waited, Leave
  <2>2. RoomInv' /\ JoinInv'
    BY <2>1 DEF RoomInv, BeforeFill, JoinInv, localVars
  <2>3. WindowInv'
    BY <2>1 DEF WindowInv, Waiting, Reaping, Reached, localVars
  <2>4. QED
    BY <2>2, <2>3
<1>19. CASE Ring
  <2>1. /\ pc = "ring" /\ WaitOn("completed", produced, "entry")
        /\ UNCHANGED <<call, ensureFor, reapFor, upTo, waited>>
    BY <1>4, <1>19 DEF Ring
  <2>2. RoomInv' /\ JoinInv'
    BY <2>1 DEF RoomInv, BeforeFill, JoinInv, WaitOn
  <2>3. WindowInv'
    BY <2>1 DEF WindowInv, Waiting, Reaping, WaitOn
  <2>4. QED
    BY <2>2, <2>3
<1>20. CASE Answer
  BY <1>4, <1>20 DEF Answer, Leave
<1>21. QED
  BY <1>5, <1>6, <1>7, <1>8, <1>9, <1>10, <1>11, <1>12, <1>13, <1>14, <1>15, <1>16, <1>17,
     <1>18, <1>19, <1>20, StaysStep DEF StaysStep

-----------------------------------------------------------------------------
(* What the other steps of the driver need: types as numbers, and the batch that an
   entry between Reaped and Produced holds. *)
LEMMA PageNumbers ==
  ASSUME PageInv
  PROVE  /\ Depth \in Nat \ {0} /\ Buffers \in Nat \ {0, 1} /\ MaxBatches \in Nat
         /\ produced \in Nat /\ reaped \in Nat /\ completed \in Nat /\ consumed \in Nat
         /\ pgProduced \in Nat /\ pgConsumed \in Nat /\ pgCompleted \in Nat /\ upTo \in Nat
         /\ generation \in Nat /\ qGeneration \in Nat /\ pgGeneration \in Nat
         /\ Len(issued) \in Nat /\ Len(entries) \in Nat /\ InHand \in {0, 1}
<1>1. Depth \in Nat \ {0} /\ Buffers \in Nat \ {0, 1} /\ MaxBatches \in Nat /\ Generations \subseteq Nat
  BY PageConstants, GenerationsNat, EngineConstants DEF PageConstants, EngineConstants
<1>2. /\ produced \in Nat /\ reaped \in Nat /\ completed \in Nat /\ consumed \in Nat
      /\ pgProduced \in Nat /\ pgConsumed \in Nat /\ pgCompleted \in Nat /\ upTo \in Nat
      /\ generation \in Generations /\ qGeneration \in Generations /\ pgGeneration \in Generations
  BY DEF PageInv, TypeOK, PageTypeOK, DeviceTypeOK, DriverTypeOK
<1>3. Len(issued) \in Nat
  BY DEF PageInv, TypeOK, DriverTypeOK
<1>4. Len(entries) \in Nat /\ InHand \in {0, 1}
  BY DEF PageInv, TypeOK, DeviceTypeOK, InHand
<1>5. QED
  BY <1>1, <1>2, <1>3, <1>4

LEMMA IssuedNumbers ==
  ASSUME PageInv
  PROVE  /\ DOMAIN issued = 1..Len(issued) /\ Len(issued) \in Nat
         /\ \A b \in DOMAIN issued : issued[b] \in Issued_ /\ b \in Batches /\ b \in Nat
                                     /\ issued[b].index \in Nat /\ issued[b].queue \in Nat
<1>1. MaxBatches \in Nat /\ Generations \subseteq Nat /\ Batches = 1..MaxBatches
  BY GenerationsNat, EngineConstants DEF EngineConstants, Batches
<1>2. issued \in Seq(Issued_) /\ Len(issued) <= MaxBatches
  BY DEF PageInv, TypeOK, DriverTypeOK, RoomInv
<1>3. DOMAIN issued = 1..Len(issued) /\ Len(issued) \in Nat
  BY <1>2
<1>4. ASSUME NEW b \in DOMAIN issued
      PROVE  issued[b] \in Issued_ /\ b \in Batches /\ b \in Nat
             /\ issued[b].index \in Nat /\ issued[b].queue \in Nat
  <2>1. issued[b] \in Issued_
    BY <1>2
  <2>2. QED
    BY <1>1, <1>2, <1>3, <2>1 DEF Issued_
<1>5. QED
  BY <1>3, <1>4

LEMMA HeldBatch ==
  ASSUME PageInv, active, NEW i \in reaped..produced - 1
  PROVE  \E b \in DOMAIN issued :
           OfQueue(b) /\ issued[b].index = i /\ SlotHolds(b) /\ b \in Batches
<1>1. PICK b \in DOMAIN issued : OfQueue(b) /\ issued[b].index = i
  BY DEF PageInv, IssuedInv
<1>2. reaped \in Nat /\ produced \in Nat
  BY PageNumbers
<1>3. issued[b].index >= reaped
  BY <1>1, <1>2
<1>4. SlotHolds(b)
  BY <1>1, <1>3 DEF PageInv, IntactInv
<1>5. QED
  BY <1>1, <1>4, IssuedNumbers

(* Two batches of the live queue never share an index. *)
LEMMA OneIndex ==
  ASSUME PageInv, NEW a \in DOMAIN issued, NEW b \in DOMAIN issued,
         issued[a].live, issued[b].live, issued[a].queue = issued[b].queue,
         issued[a].index = issued[b].index
  PROVE  a = b
<1>1. a \in Nat /\ b \in Nat /\ issued[a].index \in Nat /\ issued[b].index \in Nat
  BY IssuedNumbers
<1>2. ~(a < b) /\ ~(b < a)
  BY <1>1 DEF PageInv, IssuedInv
<1>3. QED
  BY <1>1, <1>2

-----------------------------------------------------------------------------
(* Frames: what each part of the invariant speaks of. *)
LEMMA DeviceInvFrame ==
  ASSUME DeviceInv, UNCHANGED <<deviceVars, pgProduced, pgConsumed, pgCompleted>>
  PROVE  DeviceInv'
BY DEF DeviceInv, InHand, deviceVars, AtMostOne

LEMMA IssuedInvFrame ==
  ASSUME IssuedInv, UNCHANGED <<active, qGeneration, produced, reaped, issued, settled, generation>>,
         pc # "publish", pc' # "publish"
  PROVE  IssuedInv'
BY DEF IssuedInv, OfQueue, Publishing

LEMMA IntactInvFrame ==
  ASSUME IntactInv, UNCHANGED <<active, qGeneration, reaped, issued, ring, owners, buffer, consumed, qActive>>
  PROVE  IntactInv'
BY DEF IntactInv, OfQueue, SlotHolds

LEMMA StatusInvFrame ==
  ASSUME StatusInv, UNCHANGED <<active, qActive, reaped, completed, status, dpc, entries, finishing>>,
         pc' # "reaping"
  PROVE  StatusInv'
BY DEF StatusInv, InHand

-----------------------------------------------------------------------------
(* Reaping. *)
LEMMA ReapBeginKeeps ==
  ASSUME PageInv, ReapBegin, UNCHANGED <<engineVars, deviceVars>>
  PROVE  PageInv'
<1>0. PageTypeOK' /\ DriverTypeOK' /\ EngineTypeOK' /\ DeviceTypeOK'
  <2>1. EngineTypeOK' /\ DeviceTypeOK'
    BY EngineFrame, DeviceTypeFrame DEF PageInv, TypeOK
  <2>2. PageTypeOK' /\ DriverTypeOK'
    BY DEF ReapBegin, CompletedWord, PageInv, TypeOK, PageTypeOK, DriverTypeOK, PageUntouched,
       pageVars, deviceWords, wireVars, queueVars, clientVars, DriverStations
  <2>3. QED
    BY <2>1, <2>2
<1> USE PageNumbers
<1>1. /\ UNCHANGED <<pgActive, pgGeneration, pgConsumed, pgCompleted, pgProduced, generation, ring,
                     status, buffer>>
      /\ UNCHANGED <<active, qGeneration, produced, reaped, issued, settled, owners, call,
                     ensureFor, reapFor, waitFor, waited>>
      /\ UNCHANGED <<qActive, consumed, completed, dpc, entries, finishing>>
      /\ pc = "reap"
  BY DEF ReapBegin, PageUntouched, pageVars, deviceWords, wireVars, queueVars, deviceVars, At
<1>2. /\ pc' # "publish"
      /\ pc' \in {"reaping", "lose"} \cup {"admit", "register", "report", "claim", "waited"}
  BY DEF ReapBegin, PageInv, TypeOK, DriverTypeOK
<1>3. DeviceInv' /\ IssuedInv' /\ IntactInv'
  BY <1>1, <1>2, DeviceInvFrame, IssuedInvFrame, IntactInvFrame DEF PageInv
<1>4. CASE Current
  <2>1. active /\ qActive /\ completed \in reaped..produced /\ pgCompleted = completed
    BY <1>4 DEF Current, PageInv, JoinInv, DeviceInv, WindowInv
  <2>2. pc' = "reaping" /\ upTo' = completed
    BY <1>4, <2>1 DEF ReapBegin, CompletedWord
  <2>3. RoomInv' /\ JoinInv'
    BY <1>1, <2>1, <2>2 DEF PageInv, RoomInv, BeforeFill, JoinInv
  <2>4. WindowInv'
    BY <1>1, <2>1, <2>2 DEF PageInv, WindowInv, Waiting, Reaping, Reached
  <2>5. StatusInv'
    BY <1>1, <2>1, <2>2 DEF PageInv, StatusInv, InHand
  <2>6. QED
    BY <1>0, <1>3, <2>3, <2>4, <2>5 DEF PageInv, TypeOK
<1>5. CASE ~Current
  <2>1. pc' = (IF active THEN "lose" ELSE reapFor) /\ upTo' = upTo /\ ~(active /\ qActive)
    BY <1>5 DEF ReapBegin, Current, PageInv, JoinInv
  <2>2. pc' # "reaping"
    BY <2>1 DEF PageInv, TypeOK, DriverTypeOK
  <2>3. StatusInv'
    BY <1>1, <2>2, StatusInvFrame DEF PageInv
  <2>4. reapFor \in {"admit", "register", "report", "claim", "waited"}
    BY DEF PageInv, TypeOK, DriverTypeOK
  <2>5. RoomInv'
    BY <1>1, <2>1, <2>4 DEF PageInv, RoomInv, BeforeFill
  <2>6. JoinInv'
    BY <1>1, <2>1, <2>4 DEF PageInv, JoinInv
  <2>7. WindowInv'
    BY <1>1, <2>1, <2>4 DEF PageInv, WindowInv, Waiting, Reaping, Reached
  <2>8. QED
    BY <1>0, <1>3, <2>3, <2>5, <2>6, <2>7 DEF PageInv, TypeOK
<1>6. QED
  BY <1>4, <1>5

(* The oldest unreaped entry is recorded: its batch has its outcome, and the next
   entry is the oldest. *)
LEMMA RecordKeeps ==
  ASSUME PageInv, active, reaped < produced, pc # "publish", UNCHANGED pc,
         NEW outcome \in Status \ {"unset"}, Record(owners[SlotOf(reaped)], outcome),
         UNCHANGED <<active, qGeneration, produced, issued, generation>>
  PROVE  /\ IssuedInv' /\ settled' \in [Batches -> Status]
         /\ faults' \in [1..TableSlots -> Fault_ \cup {NoFault}]
<1> DEFINE owner == owners[SlotOf(reaped)]
<1>0. reaped \in Nat /\ produced \in Nat /\ reaped \in reaped..produced - 1
  BY PageNumbers, SMTT(30)
<1>1. PICK b \in DOMAIN issued :
        OfQueue(b) /\ issued[b].index = reaped /\ SlotHolds(b) /\ b \in Batches
  BY <1>0, HeldBatch
<1>2. owner = [batch |-> b, dom |-> issued[b].dom, async |-> issued[b].async]
  BY <1>1 DEF SlotHolds
<1>3. owner.batch = b /\ owner.dom \in Domains \cup {NoDomain}
  BY <1>1, <1>2, IssuedNumbers DEF Issued_
<1>4. settled \in [Batches -> Status] /\ faults \in [1..TableSlots -> Fault_ \cup {NoFault}]
  BY DEF PageInv, TypeOK, DriverTypeOK
<1>5. /\ settled' = [settled EXCEPT ![b] = outcome] /\ reaped' = reaped + 1
      /\ faults' = IF outcome \in Error /\ owner.async /\ owner.dom # NoDomain
                   THEN AddFault(faults, FaultOf(owner, outcome)) ELSE faults
  BY <1>3 DEF Record
<1>6. settled' \in [Batches -> Status]
  BY <1>4, <1>5
<1>7. faults' \in [1..TableSlots -> Fault_ \cup {NoFault}]
  <2>1. CASE outcome \in Error /\ owner.dom # NoDomain
    <3>1. FaultOf(owner, outcome) \in Fault_
      BY <1>1, <1>3, <2>1 DEF FaultOf, Fault_
    <3>2. QED
      BY <1>4, <1>5, <3>1, AddFaultType
  <2>2. CASE ~(outcome \in Error /\ owner.dom # NoDomain)
    BY <1>4, <1>5, <2>2
  <2>3. QED
    BY <2>1, <2>2
<1>8. \A a \in DOMAIN issued : issued[a].live /\ settled'[a] = "unset" =>
        OfQueue(a) /\ issued[a].index \in reaped + 1..produced - 1
  <2> SUFFICES ASSUME NEW a \in DOMAIN issued, issued[a].live, settled'[a] = "unset"
               PROVE  OfQueue(a) /\ issued[a].index \in reaped + 1..produced - 1
    OBVIOUS
  <2>0. a \in Batches /\ issued[a].index \in Nat
    BY IssuedNumbers
  <2>1. a # b /\ settled[a] = "unset"
    BY <1>1, <1>4, <1>5, <2>0
  <2>2. OfQueue(a) /\ issued[a].index \in reaped..produced - 1
    BY <2>1 DEF PageInv, IssuedInv, Publishing
  <2>3. issued[a].index # reaped
    BY <1>1, <2>1, <2>2, OneIndex DEF OfQueue
  <2>4. QED
    BY <1>0, <2>0, <2>2, <2>3
<1>9. \A a \in DOMAIN issued : issued[a].live =>
        /\ issued[a].queue <= generation
        /\ issued[a].queue = generation => active /\ qGeneration = generation
  BY DEF PageInv, IssuedInv
<1>10. \A i \in reaped + 1..produced - 1 : i \in reaped..produced - 1
  BY <1>0
<1>11. IssuedInv'
  BY <1>5, <1>8, <1>9, <1>10 DEF PageInv, IssuedInv, OfQueue, Publishing
<1>12. QED
  BY <1>6, <1>7, <1>11

LEMMA ReapOneKeeps ==
  ASSUME PageInv, ReapOne, UNCHANGED <<engineVars, deviceVars>>
  PROVE  PageInv'
<1>0. /\ Depth \in Nat \ {0} /\ Buffers \in Nat \ {0, 1} /\ produced \in Nat /\ reaped \in Nat
      /\ completed \in Nat /\ consumed \in Nat /\ upTo \in Nat
  BY PageNumbers
<1>1. /\ UNCHANGED <<pgActive, pgGeneration, pgConsumed, pgCompleted, pgProduced, generation, ring,
                     status, buffer>>
      /\ UNCHANGED <<active, qGeneration, produced, issued, owners, call, ensureFor, reapFor,
                     waitFor, waited>>
      /\ UNCHANGED <<qActive, consumed, completed, dpc, entries, finishing>>
      /\ pc = "reaping" /\ active /\ reaped <= upTo /\ upTo <= produced
  BY DEF ReapOne, PageUntouched, pageVars, deviceWords, wireVars, deviceVars, At, PageInv, JoinInv,
     WindowInv
<1>2. EngineTypeOK' /\ DeviceTypeOK' /\ PageTypeOK' /\ DeviceInv'
  BY <1>1, EngineFrame, DeviceTypeFrame, DeviceInvFrame
     DEF ReapOne, PageUntouched, pageVars, deviceWords, wireVars, PageInv, TypeOK, PageTypeOK
<1>3. UNCHANGED <<glFaulted, clientGen, event, told>>
  BY DEF ReapOne, clientVars
<1>4. CASE reaped # upTo
  <2>1. /\ Record(owners[SlotOf(reaped)], status[SlotOf(reaped)]) /\ UNCHANGED <<pc, upTo>>
        /\ reaped' = reaped + 1 /\ reaped < upTo /\ reaped < produced
    BY <1>1, <1>4, <1>0 DEF ReapOne, Record
  <2>2. status[SlotOf(reaped)] # "unset"
    <3>1. \A i \in reaped..upTo - 1 : status[SlotOf(i)] # "unset"
      BY <1>1 DEF PageInv, StatusInv
    <3>2. reaped \in reaped..upTo - 1
      BY <2>1, <1>0
    <3>3. QED
      BY <3>1, <3>2
  <2>3. status[SlotOf(reaped)] \in Status
    BY SlotType, <1>0 DEF PageInv, TypeOK, PageTypeOK
  <2>4. /\ IssuedInv' /\ settled' \in [Batches -> Status]
        /\ faults' \in [1..TableSlots -> Fault_ \cup {NoFault}]
    BY <1>1, <2>1, <2>2, <2>3, RecordKeeps
  <2>5. DriverTypeOK'
    BY <1>1, <1>3, <2>1, <2>4 DEF PageInv, TypeOK, DriverTypeOK
  <2>6. RoomInv' /\ JoinInv'
    BY <1>1, <2>1 DEF PageInv, RoomInv, BeforeFill, JoinInv
  <2>7. WindowInv'
    BY <1>1, <2>1, <1>0 DEF PageInv, WindowInv, Waiting, Reaping, Reached
  <2>8. IntactInv'
    <3>1. \A b \in DOMAIN issued : issued[b].index >= reaped + 1 => issued[b].index >= reaped
      BY <1>0, IssuedNumbers
    <3>2. QED
      BY <1>1, <2>1, <3>1 DEF PageInv, IntactInv, OfQueue, SlotHolds
  <2>9. StatusInv'
    <3>1. /\ \A i \in reaped + 1..completed - 1 : i \in reaped..completed - 1
          /\ \A i \in reaped + 1..upTo - 1 : i \in reaped..upTo - 1
      BY <1>0
    <3>2. QED
      BY <1>1, <2>1, <3>1 DEF PageInv, StatusInv, InHand
  <2>10. QED
    BY <1>2, <2>4, <2>5, <2>6, <2>7, <2>8, <2>9 DEF PageInv, TypeOK
<1>5. CASE reaped = upTo
  <2>1. pc' = reapFor /\ upTo' = 0 /\ UNCHANGED <<reaped, faults, settled>>
    BY <1>5 DEF ReapOne
  <2>2. reapFor \in {"admit", "report", "claim", "waited"}
    BY <1>1 DEF PageInv, TypeOK, DriverTypeOK, JoinInv
  <2>3. DriverTypeOK'
    BY <1>1, <1>3, <2>1, <2>2 DEF PageInv, TypeOK, DriverTypeOK, DriverStations
  <2>4. IssuedInv' /\ IntactInv' /\ StatusInv'
    BY <1>1, <2>1, <2>2, IssuedInvFrame, IntactInvFrame, StatusInvFrame DEF PageInv
  <2>5. RoomInv'
    BY <1>1, <2>1, <2>2 DEF PageInv, RoomInv, BeforeFill
  <2>6. JoinInv'
    BY <1>1, <2>1, <2>2 DEF PageInv, JoinInv
  <2>7. WindowInv'
    BY <1>1, <1>5, <2>1, <2>2, <1>0 DEF PageInv, WindowInv, Waiting, Reaping, Reached
  <2>8. QED
    BY <1>2, <2>3, <2>4, <2>5, <2>6, <2>7 DEF PageInv, TypeOK
<1>6. QED
  BY <1>4, <1>5

LEMMA LoseOneKeeps ==
  ASSUME PageInv, LoseOne, UNCHANGED <<engineVars, deviceVars>>
  PROVE  PageInv'
<1>0. /\ Depth \in Nat \ {0} /\ Buffers \in Nat \ {0, 1} /\ produced \in Nat /\ reaped \in Nat
      /\ completed \in Nat /\ consumed \in Nat /\ upTo \in Nat
  BY PageNumbers
<1>1. /\ UNCHANGED <<pgActive, pgGeneration, pgConsumed, pgCompleted, pgProduced, generation, ring,
                     status, buffer>>
      /\ UNCHANGED <<qGeneration, produced, issued, owners, call, ensureFor, reapFor, upTo,
                     waitFor, waited>>
      /\ UNCHANGED <<qActive, consumed, completed, dpc, entries, finishing>>
      /\ pc = "lose" /\ active /\ ~qActive /\ reaped <= produced
  BY DEF LoseOne, PageUntouched, pageVars, deviceWords, wireVars, deviceVars, localVars, At, PageInv,
     JoinInv, WindowInv
<1>2. EngineTypeOK' /\ DeviceTypeOK' /\ PageTypeOK' /\ DeviceInv'
  BY <1>1, EngineFrame, DeviceTypeFrame, DeviceInvFrame
     DEF LoseOne, PageUntouched, pageVars, deviceWords, wireVars, PageInv, TypeOK, PageTypeOK
<1>3. UNCHANGED <<glFaulted, clientGen, event, told>>
  BY DEF LoseOne, clientVars
<1>4. CASE reaped # produced
  <2>1. /\ Record(owners[SlotOf(reaped)], "generation") /\ UNCHANGED <<pc, active>>
        /\ reaped' = reaped + 1 /\ reaped < produced
    BY <1>1, <1>4, <1>0 DEF LoseOne, Record
  <2>2. /\ IssuedInv' /\ settled' \in [Batches -> Status]
        /\ faults' \in [1..TableSlots -> Fault_ \cup {NoFault}]
    <3>1. "generation" \in Status \ {"unset"}
      BY DEF Status, Error
    <3>2. QED
      BY <1>1, <2>1, <3>1, RecordKeeps
  <2>3. DriverTypeOK'
    BY <1>1, <1>3, <2>1, <2>2 DEF PageInv, TypeOK, DriverTypeOK
  <2>4. RoomInv' /\ JoinInv'
    BY <1>1, <2>1 DEF PageInv, RoomInv, BeforeFill, JoinInv
  <2>5. WindowInv'
    BY <1>1, <2>1, <1>0 DEF PageInv, WindowInv, Waiting, Reaping, Reached
  <2>6. IntactInv'
    <3>1. \A b \in DOMAIN issued : issued[b].index >= reaped + 1 => issued[b].index >= reaped
      BY <1>0, IssuedNumbers
    <3>2. QED
      BY <1>1, <2>1, <3>1 DEF PageInv, IntactInv, OfQueue, SlotHolds
  <2>7. StatusInv'
    BY <1>1, <2>1 DEF PageInv, StatusInv, InHand
  <2>8. QED
    BY <1>2, <2>2, <2>3, <2>4, <2>5, <2>6, <2>7 DEF PageInv, TypeOK
<1>5. CASE reaped = produced
  <2>1. ~active' /\ active' \in BOOLEAN /\ pc' = reapFor /\ UNCHANGED <<reaped, faults, settled>>
    BY <1>5 DEF LoseOne
  <2>2. reapFor \in {"admit", "register", "report", "claim", "waited"}
    BY DEF PageInv, TypeOK, DriverTypeOK
  <2>3. DriverTypeOK'
    BY <1>1, <1>3, <2>1, <2>2 DEF PageInv, TypeOK, DriverTypeOK, DriverStations
  <2>4. \A b \in DOMAIN issued : issued[b].live => settled[b] # "unset" /\ issued[b].queue # generation
    <3>1. reaped..produced - 1 = {}
      BY <1>5, <1>0
    <3>2. ~(qGeneration = generation)
      BY <1>1 DEF PageInv, JoinInv
    <3>3. QED
      BY <1>1, <3>1, <3>2 DEF PageInv, IssuedInv, Publishing
  <2>5. IssuedInv'
    BY <1>1, <2>1, <2>2, <2>4 DEF PageInv, IssuedInv, OfQueue, Publishing
  <2>6. IntactInv' /\ StatusInv'
    BY <1>1, <2>1, <2>2 DEF PageInv, IntactInv, StatusInv, InHand
  <2>7. RoomInv'
    BY <1>1, <2>1, <2>2 DEF PageInv, RoomInv, BeforeFill
  <2>8. JoinInv'
    BY <1>1, <2>1, <2>2 DEF PageInv, JoinInv
  <2>9. WindowInv'
    BY <1>1, <1>5, <2>1, <2>2, <1>0 DEF PageInv, WindowInv, Waiting, Reaping, Reached
  <2>10. QED
    BY <1>2, <2>3, <2>5, <2>6, <2>7, <2>8, <2>9 DEF PageInv, TypeOK
<1>6. QED
  BY <1>4, <1>5

-----------------------------------------------------------------------------
(* Enabling. *)
LEMMA EnableStoresKeeps ==
  ASSUME PageInv, EnableStores, UNCHANGED <<engineVars, deviceVars>>
  PROVE  PageInv'
<1>1. /\ UNCHANGED <<pgActive, pgGeneration, pgConsumed, pgCompleted, generation, ring, status, buffer>>
      /\ UNCHANGED <<active, qGeneration, produced, reaped, issued, settled, call, ensureFor, reapFor,
                     upTo, waitFor, waited, faults, glFaulted, clientGen, event, told>>
      /\ UNCHANGED <<qActive, consumed, completed, dpc, entries, finishing>>
      /\ pc = "stores" /\ pc' = "control" /\ pgProduced' = 0 /\ ~active /\ ~qActive
  BY DEF EnableStores, deviceWords, wireVars, queueVars, clientVars, localVars, deviceVars, At,
     PageInv, JoinInv
<1>2. EngineTypeOK' /\ DeviceTypeOK'
  BY EngineFrame, DeviceTypeFrame DEF PageInv, TypeOK
<1>3. PageTypeOK'
  BY <1>1 DEF EnableStores, wireVars, PageInv, TypeOK, PageTypeOK
<1>4. owners' \in [Slots -> Owner]
  BY DEF EnableStores, Owner, NoOwner
<1>5. DriverTypeOK'
  BY <1>1, <1>4 DEF PageInv, TypeOK, DriverTypeOK, DriverStations
<1>6. RoomInv' /\ JoinInv' /\ WindowInv'
  BY <1>1 DEF PageInv, RoomInv, BeforeFill, JoinInv, WindowInv, Waiting, Reaping
<1>7. DeviceInv'
  <2>1. dpc = "idle"
    BY <1>1 DEF PageInv, DeviceInv
  <2>2. QED
    BY <1>1, <2>1 DEF PageInv, DeviceInv, deviceVars, AtMostOne
<1>8. IssuedInv'
  BY <1>1, IssuedInvFrame DEF PageInv
<1>9. IntactInv' /\ StatusInv'
  BY <1>1 DEF PageInv, IntactInv, StatusInv, InHand
<1>10. QED
  BY <1>2, <1>3, <1>5, <1>6, <1>7, <1>8, <1>9 DEF PageInv, TypeOK

LEMMA ControlStepKeeps ==
  ASSUME PageInv, ControlStep
  PROVE  PageInv'
<1>1. /\ UNCHANGED <<engineVars, entries, qFaults, dpc, handler, published, credit, finishing, armed>>
      /\ UNCHANGED <<pgProduced, pgWait, pgTarget, ring, status, buffer, doorbell, irq, generation, halted>>
      /\ UNCHANGED <<active, qGeneration, produced, reaped, issued, settled, owners, call, ensureFor,
                     reapFor, upTo, waitFor, waited, faults, glFaulted, clientGen, event, told>>
      /\ pc = "control" /\ pc' = "enabled" /\ dpc = "idle"
  BY DEF ControlStep, WriteControl, wireVars, queueVars, clientVars, localVars, At
<1>2. ~active /\ ~qActive /\ ~pgActive /\ pgProduced = 0
  BY <1>1 DEF PageInv, JoinInv
<1>3. \/ /\ upTo = generation /\ entries = <<>>
         /\ qActive' /\ pgActive' /\ qActive' \in BOOLEAN /\ pgActive' \in BOOLEAN
         /\ pgGeneration' = generation
         /\ consumed' = 0 /\ completed' = 0 /\ pgConsumed' = 0 /\ pgCompleted' = 0
      \/ UNCHANGED <<qActive, pgActive, pgGeneration, consumed, completed, pgConsumed, pgCompleted>>
  BY DEF ControlStep, EnableQueue, Restart
<1>4. EngineTypeOK'
  BY <1>1, EngineFrame DEF PageInv, TypeOK
<1>5. DeviceTypeOK' /\ PageTypeOK'
  BY <1>1, <1>3 DEF PageInv, TypeOK, DeviceTypeOK, PageTypeOK
<1>6. DriverTypeOK'
  BY <1>1 DEF PageInv, TypeOK, DriverTypeOK, DriverStations
<1>7. RoomInv' /\ JoinInv' /\ WindowInv'
  BY <1>1, <1>2, <1>3 DEF PageInv, RoomInv, BeforeFill, JoinInv, WindowInv, Waiting, Reaping
<1>8. finishing = {}
  BY <1>1 DEF PageInv, DeviceInv
<1>9. DeviceInv'
  <2>1. 0 + 0 + 0 = 0 /\ 0 - 0 <= Depth /\ 0 <= 0
    BY PageNumbers
  <2>2. QED
    BY <1>1, <1>2, <1>3, <1>8, <2>1 DEF PageInv, DeviceInv, AtMostOne, InHand
<1>10. IssuedInv'
  BY <1>1, IssuedInvFrame DEF PageInv
<1>11. IntactInv' /\ StatusInv'
  BY <1>1, <1>2, <1>3, <1>8 DEF PageInv, IntactInv, StatusInv, InHand
<1>12. QED
  BY <1>4, <1>5, <1>6, <1>7, <1>9, <1>10, <1>11 DEF PageInv, TypeOK

LEMMA EnabledKeeps ==
  ASSUME PageInv, Enabled(qActive), UNCHANGED <<engineVars, deviceVars>>
  PROVE  PageInv'
<1>1. /\ UNCHANGED <<pgActive, pgGeneration, pgConsumed, pgCompleted, pgProduced, generation, ring,
                     status, buffer>>
      /\ UNCHANGED <<issued, settled, owners, call, ensureFor, reapFor, waitFor, waited>>
      /\ UNCHANGED <<qActive, consumed, completed, dpc, entries, finishing>>
      /\ pc = "enabled" /\ pc' = ensureFor /\ upTo' = 0 /\ ~active /\ upTo <= generation /\ pgProduced = 0
  BY DEF Enabled, PageUntouched, pageVars, deviceWords, wireVars, deviceVars, At, PageInv, JoinInv
<1>2. ensureFor \in {"admit", "buffer"} /\ upTo \in Nat /\ generation \in Generations
  BY DEF PageInv, TypeOK, DriverTypeOK, PageTypeOK
<1>3. \/ /\ qActive /\ upTo = generation
         /\ qGeneration' = upTo /\ produced' = 0 /\ reaped' = 0 /\ active' = TRUE
      \/ /\ ~qActive
         /\ UNCHANGED <<active, qGeneration, produced, reaped>>
  BY <1>1 DEF Enabled, queueVars, PageInv, JoinInv
<1>4. EngineTypeOK' /\ DeviceTypeOK' /\ PageTypeOK' /\ DeviceInv'
  BY <1>1, EngineFrame, DeviceTypeFrame, DeviceInvFrame
     DEF Enabled, PageUntouched, pageVars, deviceWords, wireVars, PageInv, TypeOK, PageTypeOK
<1>5. DriverTypeOK'
  <2>1. /\ UNCHANGED <<glFaulted, clientGen, faults, event, told>>
        /\ active' \in BOOLEAN /\ qGeneration' \in Generations /\ produced' \in Nat /\ reaped' \in Nat
    <3>1. UNCHANGED <<glFaulted, clientGen, faults, event, told>>
      BY DEF Enabled, clientVars
    <3>2. /\ active \in BOOLEAN /\ qGeneration \in Generations /\ produced \in Nat /\ reaped \in Nat
      BY DEF PageInv, TypeOK, DriverTypeOK
    <3>3. active' \in BOOLEAN
      BY <1>3, <3>2
    <3>4. qGeneration' \in Generations /\ produced' \in Nat /\ reaped' \in Nat
      BY <1>2, <1>3, <3>2
    <3>5. QED
      BY <3>1, <3>3, <3>4
  <2>2. QED
    BY <1>1, <1>2, <2>1 DEF PageInv, TypeOK, DriverTypeOK, DriverStations
<1>6. RoomInv'
  BY <1>1, <1>2 DEF PageInv, RoomInv, BeforeFill
<1>7. JoinInv'
  BY <1>1, <1>2, <1>3, PageNumbers DEF PageInv, JoinInv
<1>8. completed \in Nat /\ Depth \in Nat \ {0}
  BY PageNumbers
<1>9. WindowInv'
  BY <1>1, <1>2, <1>3, <1>8 DEF PageInv, WindowInv, Waiting, Reaping
<1>10. \A b \in DOMAIN issued : issued[b].live => issued[b].queue # generation /\ settled[b] # "unset"
  BY <1>1 DEF PageInv, IssuedInv
<1>11. IssuedInv'
  BY <1>1, <1>2, <1>3, <1>10 DEF PageInv, IssuedInv, OfQueue, Publishing
<1>12. IntactInv'
  BY <1>1, <1>3, <1>10 DEF IntactInv, OfQueue
<1>13. qActive => consumed <= 0 /\ completed <= consumed
  BY <1>1, PageNumbers DEF PageInv, DeviceInv
<1>14. StatusInv'
  <2>1. qActive => completed = 0
    BY <1>8, <1>13, PageNumbers
  <2>2. QED
    BY <1>1, <1>2, <1>3, <2>1 DEF PageInv, StatusInv, InHand
<1>15. QED
  BY <1>4, <1>5, <1>6, <1>7, <1>9, <1>11, <1>12, <1>14 DEF PageInv, TypeOK

(* The interrupt's deferred procedure only sets the event. *)
LEMMA InterruptKeeps ==
  ASSUME PageInv, InterruptStep
  PROVE  PageInv'
<1>1. /\ UNCHANGED <<engineVars, deviceVars, pageVars, queueVars, clientVars, localVars>>
      /\ UNCHANGED <<doorbell, generation, halted, owners, faults, pc, issued, settled, told>>
      /\ irq' = FALSE /\ event' = TRUE
  BY DEF InterruptStep, Interrupt
<1> USE <1>1 DEF PageInv, TypeOK, pageVars, deviceWords, queueVars, clientVars, localVars
<1>2. EngineTypeOK' /\ DeviceTypeOK' /\ PageTypeOK'
  BY EngineFrame, DeviceTypeFrame DEF PageTypeOK
<1>3. DriverTypeOK'
  BY DEF DriverTypeOK
<1>4. RoomInv' /\ JoinInv' /\ DeviceInv'
  BY DeviceInvFrame DEF RoomInv, BeforeFill, JoinInv, deviceVars
<1>5. WindowInv'
  BY DEF WindowInv, Waiting, Reaping, Reached, deviceVars
<1>6. IssuedInv' /\ IntactInv' /\ StatusInv'
  BY DEF IssuedInv, IntactInv, StatusInv, OfQueue, Publishing, SlotHolds, InHand, deviceVars
<1>7. QED
  BY <1>2, <1>3, <1>4, <1>5, <1>6

-----------------------------------------------------------------------------
(* Writing a batch.  Its slot and its buffer are free: no index between Reaped and
   Produced has that slot, none between the consumed count and Produced that buffer. *)
LEMMA FreePlaces ==
  ASSUME PageInv, pc = "fill", active, NEW i \in Nat, i < produced
  PROVE  /\ i >= reaped => SlotOf(i) # SlotOf(produced)
         /\ qActive /\ i >= consumed => BufferOf(i) # BufferOf(produced)
<1>1. /\ Depth \in Nat \ {0} /\ Buffers \in Nat \ {0, 1} /\ produced \in Nat /\ reaped \in Nat
      /\ consumed \in Nat
  BY PageNumbers
<1>2. produced - reaped < Depth /\ (qActive => produced - Buffers + 1 <= consumed)
  BY DEF PageInv, WindowInv
<1>3. i >= reaped => produced - i < Depth
  BY <1>1, <1>2
<1>4. qActive /\ i >= consumed => produced - i < Buffers
  BY <1>1, <1>2
<1>5. QED
  BY <1>1, <1>3, <1>4, SlotDiffers

LEMMA FillKeeps ==
  ASSUME PageInv, Fill, UNCHANGED <<engineVars, deviceVars>>
  PROVE  PageInv'
<1>1. /\ UNCHANGED <<pgActive, pgGeneration, pgConsumed, pgCompleted, pgProduced, pgWait, pgTarget,
                     doorbell, irq, generation, halted>>
      /\ UNCHANGED <<active, qGeneration, produced, reaped, settled, glFaulted, event, told>>
      /\ UNCHANGED <<qActive, consumed, completed, dpc, entries, finishing>>
      /\ pc = "fill" /\ call.kind # "open"
  BY DEF Fill, deviceWords, wireVars, queueVars, deviceVars, At, PageInv, RoomInv
<1>2. EngineTypeOK' /\ DeviceTypeOK' /\ DeviceInv'
  BY <1>1, EngineFrame, DeviceTypeFrame, DeviceInvFrame DEF PageInv, TypeOK
<1>3. /\ Depth \in Nat \ {0} /\ Buffers \in Nat \ {0, 1} /\ produced \in Nat /\ reaped \in Nat
      /\ consumed \in Nat /\ completed \in Nat /\ Len(issued) \in Nat
  BY PageNumbers
<1>4. SlotOf(produced) \in Slots /\ BufferOf(produced) \in 0..Buffers-1
  BY <1>3, SlotType
<1>5. active => \A b \in DOMAIN issued : OfQueue(b) => issued[b].index < produced
  BY <1>1 DEF PageInv, IssuedInv, Publishing
<1>6. CASE ~(Valid /\ ~glFaulted)
  <2>1. /\ buffer' = [buffer EXCEPT ![BufferOf(produced)] = 0] /\ Leave(faults)
        /\ UNCHANGED <<ring, status, owners, issued>>
    BY <1>6 DEF Fill
  <2>2. /\ LocalType' /\ pc' = "idle" /\ call'.kind = "none"
        /\ faults' \in [1..TableSlots -> Fault_ \cup {NoFault}]
        /\ clientGen' \in [Clients -> Generations \cup {-1, -2}]
    BY <2>1, LeaveType DEF PageInv, TypeOK, DriverTypeOK
  <2>3. PageTypeOK'
    BY <1>1, <2>1 DEF PageInv, TypeOK, PageTypeOK
  <2>4. DriverTypeOK'
    BY <1>1, <2>1, <2>2 DEF PageInv, TypeOK, DriverTypeOK, LocalType
  <2>5. RoomInv' /\ JoinInv' /\ WindowInv'
    BY <1>1, <2>1, <2>2 DEF PageInv, RoomInv, BeforeFill, JoinInv, WindowInv, Waiting, Reaping
  <2>6. IssuedInv' /\ StatusInv'
    BY <1>1, <2>1, <2>2, IssuedInvFrame, StatusInvFrame DEF PageInv
  <2>7. IntactInv'
    <3>1. \A b \in DOMAIN issued : active /\ OfQueue(b) /\ qActive /\ issued[b].index >= consumed
            => BufferOf(issued[b].index) # BufferOf(produced)
      BY <1>1, <1>5, IssuedNumbers, FreePlaces
    <3>2. \A b \in DOMAIN issued : active /\ OfQueue(b) /\ qActive /\ issued[b].index >= consumed
            => buffer'[BufferOf(issued[b].index)] = buffer[BufferOf(issued[b].index)]
      BY <2>1, <3>1, IssuedNumbers, SlotType DEF PageInv, TypeOK, PageTypeOK
    <3>3. QED
      BY <1>1, <2>1, <3>2 DEF PageInv, IntactInv, OfQueue, SlotHolds
  <2>8. QED
    BY <1>2, <2>3, <2>4, <2>5, <2>6, <2>7 DEF PageInv, TypeOK
<1>7. CASE Valid /\ ~glFaulted
  <2> DEFINE batch == Len(issued) + 1
             slot == SlotOf(produced)
             record == [dom |-> call.dom, async |-> call.async, coherent |-> call.coherent,
                        queue |-> qGeneration, live |-> active, index |-> produced]
  <2>1. /\ buffer' = [buffer EXCEPT ![BufferOf(produced)] = batch]
        /\ ring'   = [ring EXCEPT ![slot] = RequestEntry(batch, Stamp)]
        /\ status' = [status EXCEPT ![slot] = "unset"]
        /\ owners' = [owners EXCEPT ![slot] = RequestOwner(batch)]
        /\ issued' = Append(issued, record)
        /\ pc' = "publish" /\ UNCHANGED <<localVars, faults, clientGen>>
    BY <1>7 DEF Fill
  <2>2. batch \in Batches /\ batch <= MaxBatches
    BY <1>1, <1>3, EngineConstants DEF PageInv, RoomInv, BeforeFill, Batches, EngineConstants
  <2>3. call \in Call_ /\ qGeneration \in Generations /\ active \in BOOLEAN /\ Stamp \in Generations
    BY DEF PageInv, TypeOK, DriverTypeOK, PageTypeOK, Stamp, CurrentGeneration, Call_
  <2>4. /\ RequestEntry(batch, Stamp) \in Entry /\ RequestOwner(batch) \in Owner /\ record \in Issued_
    BY <1>3, <1>4, <2>2, <2>3 DEF RequestEntry, RequestOwner, Entry, Owner, Issued_, Call_
  <2>5. /\ issued \in Seq(Issued_) /\ ring \in [Slots -> Entry] /\ status \in [Slots -> Status]
        /\ owners \in [Slots -> Owner] /\ buffer \in [0..Buffers-1 -> Batches \cup {0}]
    BY DEF PageInv, TypeOK, DriverTypeOK, PageTypeOK
  <2> HIDE DEF record
  <2>6. /\ issued' \in Seq(Issued_) /\ Len(issued') = batch /\ DOMAIN issued' = 1..batch
        /\ DOMAIN issued = 1..Len(issued)
        /\ \A b \in DOMAIN issued : issued'[b] = issued[b]
        /\ issued'[batch] = record
    BY <2>1, <2>4, <2>5
  <2>7. /\ record.dom = call.dom /\ record.async = call.async /\ record.coherent = call.coherent
        /\ record.queue = qGeneration /\ record.live = active /\ record.index = produced
    BY DEF record
  <2>8. PageTypeOK'
    <3>1. ring' \in [Slots -> Entry]
      BY <2>1, <2>4, <2>5
    <3>2. status' \in [Slots -> Status]
      BY <2>1, <2>5 DEF Status
    <3>3. buffer' \in [0..Buffers-1 -> Batches \cup {0}]
      BY <2>1, <2>2, <2>5
    <3>4. QED
      BY <1>1, <3>1, <3>2, <3>3 DEF PageInv, TypeOK, PageTypeOK
  <2>9. DriverTypeOK'
    <3>1. owners' \in [Slots -> Owner]
      BY <2>1, <2>4, <2>5
    <3>2. QED
      BY <1>1, <2>1, <2>6, <3>1 DEF localVars, PageInv, TypeOK, DriverTypeOK, DriverStations
  <2>10. RoomInv'
    BY <1>1, <2>1, <2>2, <2>6 DEF PageInv, RoomInv, BeforeFill, localVars
  <2>11. JoinInv' /\ WindowInv'
    BY <1>1, <2>1 DEF PageInv, JoinInv, WindowInv, Waiting, Reaping, localVars
  <2>12. IssuedInv'
    <3>1. settled[batch] = "unset" \/ settled[batch] # "unset"
      OBVIOUS
    <3>2. ASSUME NEW b \in DOMAIN issued', issued'[b].live
          PROVE  /\ issued'[b].queue <= generation
                 /\ issued'[b].queue = generation => active /\ qGeneration = generation
                 /\ settled[b] = "unset" =>
                      /\ active /\ issued'[b].queue = qGeneration
                      /\ \/ issued'[b].index \in reaped..produced - 1
                         \/ b = batch /\ issued'[b].index = produced
      BY <1>1, <2>6, <2>7, <3>2 DEF PageInv, IssuedInv, JoinInv, OfQueue, Publishing
    <3>3. ASSUME NEW a \in DOMAIN issued', NEW b \in DOMAIN issued', a < b,
                 issued'[a].live, issued'[b].live, issued'[a].queue = issued'[b].queue
          PROVE  issued'[a].index < issued'[b].index
      <4>1. CASE b \in DOMAIN issued
        BY <1>3, <2>6, <3>3, <4>1 DEF PageInv, IssuedInv
      <4>2. CASE b = batch
        BY <1>3, <1>5, <2>6, <2>7, <3>3, <4>2 DEF OfQueue
      <4>3. QED
        BY <2>6, <4>1, <4>2
    <3>4. active => issued' # <<>> /\ issued'[batch].live /\ issued'[batch].queue = qGeneration
                    /\ issued'[batch].index = produced
      BY <1>3, <2>6, <2>7
    <3>5. active => \A b \in DOMAIN issued' : issued'[b].live /\ issued'[b].queue = qGeneration =>
            issued'[b].index < produced \/ (b = batch /\ issued'[b].index = produced)
      <4>1. ASSUME active, NEW b \in DOMAIN issued, issued'[b].live, issued'[b].queue = qGeneration
            PROVE  issued'[b].index < produced
        BY <1>5, <2>6, <4>1 DEF OfQueue
      <4>2. ASSUME NEW b \in DOMAIN issued' PROVE b \in DOMAIN issued \/ b = batch
        BY <1>3, <2>6
      <4>3. issued'[batch].index = produced
        BY <2>6, <2>7
      <4>4. QED
        BY <4>1, <4>2, <4>3
    <3>6. active => \A i \in reaped..produced - 1 :
            \E b \in DOMAIN issued' :
              issued'[b].live /\ issued'[b].queue = qGeneration /\ issued'[b].index = i
      BY <1>3, <2>6, SMTT(30) DEF PageInv, IssuedInv, OfQueue
    <3>7. QED
      BY <1>1, <2>1, <2>6, <3>2, <3>3, <3>4, <3>5, <3>6 DEF IssuedInv, OfQueue, Publishing
  <2>13. IntactInv'
    <3>1. ASSUME active, NEW b \in DOMAIN issued, OfQueue(b)
          PROVE  /\ issued[b].index >= reaped =>
                      /\ ring'[SlotOf(issued[b].index)] = ring[SlotOf(issued[b].index)]
                      /\ owners'[SlotOf(issued[b].index)] = owners[SlotOf(issued[b].index)]
                 /\ qActive /\ issued[b].index >= consumed =>
                      buffer'[BufferOf(issued[b].index)] = buffer[BufferOf(issued[b].index)]
      <4>1. issued[b].index \in Nat /\ issued[b].index < produced
        BY <1>5, <3>1, IssuedNumbers
      <4>2. SlotOf(issued[b].index) \in Slots /\ BufferOf(issued[b].index) \in 0..Buffers-1
        BY <4>1, SlotType
      <4>3. /\ issued[b].index >= reaped => SlotOf(issued[b].index) # slot
            /\ qActive /\ issued[b].index >= consumed
                 => BufferOf(issued[b].index) # BufferOf(produced)
        BY <1>1, <3>1, <4>1, FreePlaces
      <4>4. QED
        BY <2>1, <2>5, <4>2, <4>3
    <3>2. ASSUME active, NEW b \in DOMAIN issued', issued'[b].live, issued'[b].queue = qGeneration
          PROVE  /\ issued'[b].index >= reaped => SlotHolds(b)'
                 /\ qActive /\ issued'[b].index >= consumed => buffer'[BufferOf(issued'[b].index)] = b
      <4>1. CASE b \in DOMAIN issued
        <5>1. issued'[b] = issued[b] /\ OfQueue(b)
          BY <2>6, <3>2, <4>1 DEF OfQueue
        <5>2. /\ issued[b].index >= reaped => SlotHolds(b)
              /\ qActive /\ issued[b].index >= consumed => buffer[BufferOf(issued[b].index)] = b
          BY <3>2, <4>1, <5>1 DEF PageInv, IntactInv
        <5>3. QED
          BY <3>1, <3>2, <4>1, <5>1, <5>2 DEF SlotHolds
      <4>2. CASE b = batch
        <5>1. issued'[b].index = produced /\ issued'[b].dom = call.dom /\ issued'[b].async = call.async
              /\ issued'[b].coherent = call.coherent
          BY <2>6, <2>7, <4>2
        <5>2. /\ ring'[slot] = RequestEntry(batch, Stamp) /\ owners'[slot] = RequestOwner(batch)
              /\ buffer'[BufferOf(produced)] = batch
          BY <1>4, <2>1, <2>5
        <5>3. call.kind = "submit" /\ ~call.async => ~call.coherent /\ ~call.async
          BY DEF PageInv, RoomInv
        <5>4. /\ ring'[slot].batch = batch /\ ring'[slot].buffer = BufferOf(produced)
              /\ ring'[slot].dom = call.dom /\ ring'[slot].coherent = call.coherent
              /\ ring'[slot].query = (call.kind = "submit" /\ ~call.async)
          BY <5>2 DEF RequestEntry
        <5>5. owners'[slot] = [batch |-> batch, dom |-> call.dom, async |-> call.async]
          BY <5>2 DEF RequestOwner
        <5>6. SlotHolds(b)'
          BY <4>2, <5>1, <5>3, <5>4, <5>5 DEF SlotHolds
        <5>7. QED
          BY <4>2, <5>1, <5>2, <5>6
      <4>3. QED
        BY <2>6, <4>1, <4>2
    <3>3. QED
      BY <1>1, <3>2 DEF IntactInv, OfQueue
  <2>14. StatusInv'
    <3>1. ASSUME active, qActive, NEW i \in reaped..completed - 1
          PROVE  status'[SlotOf(i)] # "unset"
      <4>1. completed <= produced
        BY <1>1, <3>1, PageNumbers, SMTT(30) DEF PageInv, DeviceInv, JoinInv
      <4>2. i \in Nat /\ i < produced /\ i >= reaped
        BY <1>3, <4>1
      <4>3. SlotOf(i) # slot /\ SlotOf(i) \in Slots
        BY <1>1, <3>1, <4>2, FreePlaces, SlotType
      <4>4. QED
        BY <2>1, <2>5, <3>1, <4>3 DEF PageInv, StatusInv
    <3>2. ASSUME qActive, dpc = "count"
          PROVE  status'[SlotOf(completed)] # "unset"
      <4>1. active
        BY <1>1, <3>2 DEF PageInv, JoinInv
      <4>2. completed < produced /\ completed >= reaped
        <5>1. InHand = 1 /\ consumed = completed + Len(entries) + InHand /\ consumed <= pgProduced
          BY <3>2 DEF PageInv, DeviceInv, InHand
        <5>2. pgProduced = produced /\ reaped <= completed /\ Len(entries) \in Nat
          BY <3>2, <4>1, PageNumbers DEF PageInv, JoinInv, WindowInv
        <5>3. QED
          BY <1>3, <5>1, <5>2
      <4>3. SlotOf(completed) # slot /\ SlotOf(completed) \in Slots
        BY <1>1, <1>3, <4>1, <4>2, FreePlaces, SlotType
      <4>4. QED
        BY <2>1, <2>5, <3>2, <4>3 DEF PageInv, StatusInv
    <3>3. QED
      BY <1>1, <2>1, <3>1, <3>2 DEF PageInv, StatusInv, InHand
  <2>15. QED
    BY <1>2, <2>8, <2>9, <2>10, <2>11, <2>12, <2>13, <2>14 DEF PageInv, TypeOK
<1>8. QED
  BY <1>6, <1>7

LEMMA PublishKeeps ==
  ASSUME PageInv, Publish, UNCHANGED <<engineVars, deviceVars>>
  PROVE  PageInv'
<1>1. /\ UNCHANGED <<pgActive, pgGeneration, pgConsumed, pgCompleted, pgWait, pgTarget, ring, status,
                     buffer, doorbell, irq, generation, halted>>
      /\ UNCHANGED <<active, qGeneration, reaped, issued, settled, owners, call, ensureFor, reapFor,
                     upTo, waitFor, waited, faults, glFaulted, clientGen, event, told>>
      /\ UNCHANGED <<qActive, consumed, completed, dpc, entries, finishing, handler, published, credit>>
      /\ pc = "publish" /\ pc' = "ring" /\ produced' = produced + 1 /\ pgProduced' = produced + 1
  BY DEF Publish, deviceWords, wireVars, clientVars, localVars, deviceVars, At
<1>2. /\ Depth \in Nat \ {0} /\ Buffers \in Nat \ {0, 1} /\ produced \in Nat /\ reaped \in Nat
      /\ consumed \in Nat /\ completed \in Nat /\ pgProduced \in Nat /\ published \in Nat
  BY PageNumbers DEF PageInv, TypeOK, DeviceTypeOK
<1>3. EngineTypeOK' /\ DeviceTypeOK' /\ PageTypeOK' /\ DriverTypeOK'
  <2>1. EngineTypeOK' /\ DeviceTypeOK'
    BY EngineFrame, DeviceTypeFrame DEF PageInv, TypeOK
  <2>2. PageTypeOK'
    BY <1>1, <1>2 DEF PageInv, TypeOK, PageTypeOK
  <2>3. DriverTypeOK'
    BY <1>1, <1>2 DEF PageInv, TypeOK, DriverTypeOK, DriverStations
  <2>4. QED
    BY <2>1, <2>2, <2>3
<1>4. RoomInv' /\ JoinInv'
  BY <1>1 DEF PageInv, RoomInv, BeforeFill, JoinInv
<1>5. active /\ qActive => produced - reaped < Depth /\ reaped <= completed /\ pgProduced = produced
  BY <1>1 DEF PageInv, WindowInv, JoinInv
<1>6. qActive => active
  BY <1>1 DEF PageInv, JoinInv
<1>7. DeviceInv'
  <2>1. qActive => consumed <= produced + 1 /\ produced + 1 - completed <= Depth
    BY <1>2, <1>5, <1>6 DEF PageInv, DeviceInv
  <2>2. dpc = "take" \/ (dpc \in {"finish", "count"} /\ handler = "consume") => published <= produced + 1
    BY <1>2, <1>5, <1>6 DEF PageInv, DeviceInv
  <2>3. InHand' = InHand
    BY <1>1 DEF InHand
  <2>4. qActive => consumed' <= pgProduced' /\ pgProduced' - completed' <= Depth
    BY <1>1, <1>2, <2>1
  <2>5. QED
    BY <1>1, <2>2, <2>3, <2>4 DEF PageInv, DeviceInv, AtMostOne
<1>8. WindowInv'
  BY <1>1, <1>2 DEF PageInv, WindowInv, Waiting, Reaping
<1>9. IssuedInv'
  <2>1. ASSUME NEW b \in DOMAIN issued, issued[b].live
        PROVE  /\ issued[b].queue <= generation
               /\ issued[b].queue = generation => active /\ qGeneration = generation
               /\ settled[b] = "unset" => active /\ OfQueue(b) /\ issued[b].index \in reaped..produced
    BY <1>2, <2>1, IssuedNumbers, SMTT(30) DEF PageInv, IssuedInv, Publishing, WindowInv
  <2>2. ASSUME active, NEW b \in DOMAIN issued, OfQueue(b)
        PROVE  issued[b].index < produced + 1
    BY <1>2, <2>2, IssuedNumbers DEF PageInv, IssuedInv, Publishing
  <2>3. ASSUME active, NEW i \in reaped..produced
        PROVE  \E b \in DOMAIN issued : OfQueue(b) /\ issued[b].index = i
    <3>1. CASE i = produced
      <4>1. Len(issued) \in DOMAIN issued
        BY <1>1, <2>3, IssuedNumbers DEF PageInv, IssuedInv
      <4>2. QED
        BY <1>1, <2>3, <3>1, <4>1 DEF PageInv, IssuedInv
    <3>2. CASE i # produced
      <4>1. i \in reaped..produced - 1
        BY <1>2, <3>2
      <4>2. QED
        BY <2>3, <4>1 DEF PageInv, IssuedInv
    <3>3. QED
      BY <3>1, <3>2
  <2>4. \A a, b \in DOMAIN issued :
          a < b /\ issued[a].live /\ issued[b].live /\ issued[a].queue = issued[b].queue
          => issued[a].index < issued[b].index
    BY DEF PageInv, IssuedInv
  <2>5. produced' - 1 = produced /\ pc' # "publish"
    BY <1>1, <1>2
  <2>6. QED
    BY <1>1, <2>1, <2>2, <2>3, <2>4, <2>5 DEF IssuedInv, OfQueue, Publishing
<1>10. IntactInv'
  BY <1>1, IntactInvFrame DEF PageInv
<1>11. StatusInv'
  BY <1>1, StatusInvFrame DEF PageInv
<1>12. QED
  BY <1>3, <1>4, <1>7, <1>8, <1>9, <1>10, <1>11 DEF PageInv, TypeOK

LEMMA ProceedKeeps ==
  ASSUME PageInv, Call \/ Proceed
  PROVE  PageInv'
BY StaysKeep, ReapBeginKeeps, ReapOneKeeps, LoseOneKeeps, EnableStoresKeeps, EnabledKeeps, FillKeeps,
   PublishKeeps DEF Call, Proceed, StaysStep

-----------------------------------------------------------------------------
(* The device's handlers change nothing of the driver. *)
LEMMA DriverFrame ==
  ASSUME PageInv, UNCHANGED driverVars, PageTypeOK',
         UNCHANGED <<pgActive, pgGeneration, pgProduced, generation, qActive>>,
         completed' \in {completed, completed + 1}, consumed' \in {consumed, consumed + 1}
  PROVE  DriverTypeOK' /\ RoomInv' /\ JoinInv' /\ WindowInv' /\ IssuedInv'
<1>1. /\ UNCHANGED <<active, qGeneration, produced, reaped, glFaulted, clientGen, call, ensureFor, reapFor,
                     upTo, waitFor, waited, owners, faults, pc, event, issued, settled, told>>
  BY DEF driverVars, queueVars, clientVars, localVars
<1>2. /\ completed \in Nat /\ consumed \in Nat /\ produced \in Nat /\ reaped \in Nat
      /\ Buffers \in Nat \ {0, 1} /\ Depth \in Nat \ {0} /\ upTo \in Nat /\ waitFor.target \in Int
  BY PageNumbers DEF PageInv, TypeOK, DriverTypeOK, Wait_
<1>3. DriverTypeOK' /\ RoomInv' /\ JoinInv'
  BY <1>1 DEF PageInv, TypeOK, DriverTypeOK, RoomInv, BeforeFill, JoinInv
<1>4. WindowInv'
  BY <1>1, <1>2 DEF PageInv, WindowInv, Waiting, Reaping, Reached
<1>5. IssuedInv'
  BY <1>1 DEF PageInv, IssuedInv, OfQueue, Publishing
<1>6. QED
  BY <1>3, <1>4, <1>5

(* An enabled device with something in hand or published serves the live queue. *)
LEMMA Serving ==
  ASSUME PageInv, qActive, completed < pgProduced
  PROVE  active /\ qGeneration = generation /\ pgProduced = produced /\ reaped <= completed
<1>1. completed \in Nat
  BY PageNumbers
<1>2. ~(pc = "enabled")
  BY <1>1 DEF PageInv, JoinInv
<1>3. QED
  BY <1>2 DEF PageInv, JoinInv, WindowInv

(* A handler that moves on without touching the ring or its counters. *)
LEMMA HandlerKeeps ==
  ASSUME PageInv, UNCHANGED driverVars, EngineTypeOK', DeviceTypeOK', PageTypeOK', DeviceInv',
         UNCHANGED <<pgActive, pgGeneration, pgProduced, ring, status, buffer, generation>>,
         UNCHANGED <<qActive, consumed, completed, entries, finishing>>,
         dpc' = "count" => dpc = "count"
  PROVE  PageInv'
<1>1. /\ UNCHANGED <<active, qGeneration, reaped, owners, pc, issued, upTo>>
  BY DEF driverVars, queueVars, localVars
<1>2. DriverTypeOK' /\ RoomInv' /\ JoinInv' /\ WindowInv' /\ IssuedInv'
  BY DriverFrame
<1>3. IntactInv'
  BY <1>1, IntactInvFrame DEF PageInv
<1>4. StatusInv'
  BY <1>1 DEF PageInv, StatusInv, InHand
<1>5. QED
  BY <1>2, <1>3, <1>4 DEF PageInv, TypeOK

LEMMA ConsumeBeginKeeps ==
  ASSUME PageInv, ConsumeBegin, UNCHANGED driverVars
  PROVE  PageInv'
<1>1. /\ UNCHANGED <<engineVars, pgGeneration, pgConsumed, pgCompleted, pgProduced, pgWait, pgTarget,
                     ring, status, buffer, irq, generation, halted>>
      /\ UNCHANGED <<consumed, completed, entries, qFaults, credit, finishing, armed>>
      /\ dpc = "idle" /\ doorbell' = FALSE
  BY DEF ConsumeBegin
<1>2. finishing = {} /\ credit = {}
  BY <1>1 DEF PageInv, DeviceInv
<1>3. qActive => pgProduced - consumed \in 0..Depth /\ pgProduced - completed \in 0..Depth
                 /\ consumed <= pgProduced
  <2>1. /\ pgProduced \in Nat /\ consumed \in Nat /\ completed \in Nat /\ Depth \in Nat
        /\ Len(entries) \in Nat /\ InHand \in {0, 1}
    BY PageNumbers
  <2>2. qActive => /\ consumed = completed + Len(entries) + InHand
                   /\ consumed <= pgProduced /\ pgProduced - completed <= Depth
    BY DEF PageInv, DeviceInv
  <2>3. QED
    BY <2>1, <2>2
<1>4. /\ UNCHANGED <<qActive, pgActive>>
      /\ \/ UNCHANGED <<dpc, handler, published>>
         \/ qActive /\ dpc' = "take" /\ handler' = "consume" /\ published' = pgProduced
  BY <1>3 DEF ConsumeBegin
<1>5. EngineTypeOK' /\ DeviceTypeOK' /\ PageTypeOK'
  <2>1. EngineTypeOK'
    BY <1>1, EngineFrame DEF PageInv, TypeOK
  <2>2. DeviceTypeOK' /\ PageTypeOK'
    BY <1>1, <1>4 DEF PageInv, TypeOK, DeviceTypeOK, PageTypeOK
  <2>3. QED
    BY <2>1, <2>2
<1>6. DeviceInv'
  <2>1. pgProduced <= pgProduced
    BY PageNumbers
  <2>2. QED
    BY <1>1, <1>2, <1>3, <1>4, <2>1 DEF PageInv, DeviceInv, AtMostOne, InHand
<1>7. QED
  BY <1>1, <1>4, <1>5, <1>6, HandlerKeeps

LEMMA ConsumeEndKeeps ==
  ASSUME PageInv, ConsumeEnd, UNCHANGED driverVars
  PROVE  PageInv'
<1>1. /\ UNCHANGED <<engineVars, pgActive, pgGeneration, pgCompleted, pgProduced, pgWait, pgTarget,
                     ring, status, buffer, doorbell, irq, generation, halted>>
      /\ UNCHANGED <<qActive, consumed, completed, entries, qFaults, handler, published, credit,
                     finishing, armed>>
      /\ dpc = "take" /\ dpc' = "fence" /\ pgConsumed' = consumed
  BY DEF ConsumeEnd, wireVars
<1>2. EngineTypeOK' /\ DeviceTypeOK' /\ PageTypeOK'
  BY <1>1, EngineFrame DEF PageInv, TypeOK, DeviceTypeOK, PageTypeOK
<1>3. consumed <= consumed
  BY PageNumbers
<1>4. DeviceInv'
  BY <1>1, <1>3 DEF PageInv, DeviceInv, AtMostOne, InHand
<1>5. QED
  BY <1>1, <1>2, <1>4, HandlerKeeps

LEMMA CompleteBeginKeeps ==
  ASSUME PageInv, CompleteBegin, UNCHANGED driverVars
  PROVE  PageInv'
<1>1. /\ Poll /\ dpc = "idle"
      /\ UNCHANGED <<pageVars, wireVars, qActive, consumed, completed, entries, qFaults, published,
                     finishing, armed>>
      /\ \/ /\ entries # <<>> /\ done # <<>>
            /\ credit' = {Head(done)} /\ dpc' = "drain" /\ handler' = "complete"
         \/ UNCHANGED <<credit, dpc, handler>>
  BY DEF CompleteBegin, Wanted, Poll
<1>2. EngineTypeOK'
  BY <1>1, PollType DEF PageInv, TypeOK
<1>3. done # <<>> => Head(done) \in Completion
  BY DEF PageInv, TypeOK, EngineTypeOK
<1>4. DeviceTypeOK' /\ PageTypeOK'
  BY <1>1, <1>3 DEF PageInv, TypeOK, DeviceTypeOK, PageTypeOK, pageVars, deviceWords, wireVars
<1>5. DeviceInv'
  BY <1>1 DEF PageInv, DeviceInv, AtMostOne, InHand, pageVars, deviceWords
<1>6. QED
  BY <1>1, <1>2, <1>4, <1>5, HandlerKeeps DEF pageVars, deviceWords, wireVars

(* The end of a completion, and the wait check. *)
LEMMA HandlerEndKeeps ==
  ASSUME PageInv, CompleteEnd \/ ReadWait \/ CompareWait, UNCHANGED driverVars
  PROVE  PageInv'
<1>1. /\ UNCHANGED <<engineVars, pageVars, generation, halted>>
      /\ UNCHANGED <<qActive, consumed, completed, entries, qFaults, handler, published, finishing>>
      /\ dpc \in {"drain", "fence", "compare"} /\ dpc' \in {"idle", "fence", "compare"}
      /\ dpc' # "idle" => credit' = {} /\ qActive
      /\ credit' \subseteq credit /\ (dpc' = "idle" => credit' = {})
      /\ armed' \in {armed, pgWait, "none"} /\ irq' \in BOOLEAN /\ doorbell' \in BOOLEAN
  BY DEF CompleteEnd, ReadWait, CompareWait, wireVars, PageInv, DeviceInv, TypeOK, PageTypeOK,
     Satisfied, Again
<1>2. EngineTypeOK' /\ DeviceTypeOK' /\ PageTypeOK'
  BY <1>1, EngineFrame DEF PageInv, TypeOK, DeviceTypeOK, PageTypeOK, pageVars, deviceWords
<1>3. DeviceInv'
  BY <1>1 DEF PageInv, DeviceInv, AtMostOne, InHand, pageVars, deviceWords
<1>4. QED
  BY <1>1, <1>2, <1>3, HandlerKeeps DEF pageVars, deviceWords

(* The oldest entry leaves the ring. *)
LEMMA PopKeeps ==
  ASSUME PageInv, dpc = "drain", entries # <<>>, NEW error \in Outcome, Pop(error),
         UNCHANGED <<engineVars, pageVars, driverVars, generation, doorbell, irq>>, halted' \in BOOLEAN,
         UNCHANGED <<qActive, consumed, completed, qFaults, handler, published, armed>>,
         credit' \subseteq credit, credit' = {} \/ dpc' = "drain"
  PROVE  PageInv'
<1>1. entries \in Seq(QueueEntry) /\ finishing = {} /\ qActive /\ handler \in {"consume", "complete"}
  BY DEF PageInv, DeviceInv, TypeOK, DeviceTypeOK
<1>2. /\ entries' = Tail(entries) /\ dpc' = "finish" /\ credit' = {}
      /\ finishing' = {[entry |-> entries[1], error |-> error]}
  BY <1>1 DEF Pop
<1>3. /\ entries' \in Seq(QueueEntry) /\ Len(entries') = Len(entries) - 1 /\ entries[1] \in QueueEntry
      /\ DOMAIN entries = 1..Len(entries) /\ DOMAIN entries' = 1..Len(entries) - 1
      /\ \A k \in DOMAIN entries' : entries'[k] = entries[k + 1]
      /\ Len(entries) \in Nat \ {0}
  BY <1>1, <1>2
<1>4. /\ UNCHANGED <<pgActive, pgGeneration, pgConsumed, pgCompleted, pgProduced, pgWait, pgTarget,
                     ring, status, buffer>>
      /\ UNCHANGED <<active, qGeneration, reaped, owners, pc, issued, upTo>>
  BY DEF pageVars, deviceWords, driverVars, queueVars, localVars
<1>5. EngineTypeOK' /\ DeviceTypeOK' /\ PageTypeOK'
  <2>1. EngineTypeOK'
    BY EngineFrame DEF PageInv, TypeOK
  <2>2. PageTypeOK'
    BY <1>4 DEF PageInv, TypeOK, PageTypeOK
  <2>3. finishing' \subseteq [entry : QueueEntry, error : Outcome]
    BY <1>2, <1>3
  <2>4. DeviceTypeOK'
    BY <1>2, <1>3, <2>3 DEF PageInv, TypeOK, DeviceTypeOK
  <2>5. QED
    BY <2>1, <2>2, <2>4
<1>6. DriverTypeOK' /\ RoomInv' /\ JoinInv' /\ WindowInv' /\ IssuedInv'
  <2>1. UNCHANGED <<pgActive, pgGeneration, pgProduced, generation, qActive>>
    BY <1>4
  <2>2. completed' \in {completed, completed + 1} /\ consumed' \in {consumed, consumed + 1}
    OBVIOUS
  <2>3. QED
    BY <1>5, <2>1, <2>2, DriverFrame
<1>7. InHand = 0 /\ InHand' = 1
  BY <1>1, <1>2 DEF InHand
<1>8. /\ consumed = completed + Len(entries) + InHand
      /\ consumed <= pgProduced /\ pgProduced - completed <= Depth
      /\ pgCompleted = completed /\ pgConsumed <= consumed /\ handler = "complete"
  BY <1>1 DEF PageInv, DeviceInv
<1>9. completed \in Nat /\ completed + Len(entries) + 0 = completed + (Len(entries) - 1) + 1
  BY <1>3, PageNumbers, SMTT(30)
<1>10. DeviceInv'
  <2>1. AtMostOne(finishing') /\ finishing' # {} /\ AtMostOne(credit')
    BY <1>2 DEF AtMostOne
  <2>2. consumed' = completed' + Len(entries') + InHand'
    BY <1>3, <1>7, <1>8, <1>9
  <2>3. QED
    BY <1>1, <1>2, <1>4, <1>8, <2>1, <2>2 DEF DeviceInv
<1>11. IntactInv'
  BY <1>4, IntactInvFrame DEF PageInv
<1>12. StatusInv'
  <2>1. ASSUME NEW k \in DOMAIN entries
        PROVE  entries[k].slot = SlotOf(completed + k - 1)
    <3>1. entries[k].slot = SlotOf(completed + InHand + k - 1)
      BY <1>1, <2>1 DEF PageInv, StatusInv
    <3>2. completed + InHand + k - 1 = completed + k - 1
      BY <1>3, <1>7, <1>9
    <3>3. QED
      BY <3>1, <3>2
  <2>2. ASSUME NEW k \in DOMAIN entries'
        PROVE  entries'[k].slot = SlotOf(completed + 1 + k - 1)
    <3>1. k + 1 \in DOMAIN entries /\ completed + (k + 1) - 1 = completed + 1 + k - 1
      BY <1>3, <1>9, <2>2
    <3>2. QED
      BY <1>3, <2>1, <2>2, <3>1
  <2>3. entries[1].slot = SlotOf(completed)
    <3>1. 1 \in DOMAIN entries /\ completed + 1 - 1 = completed
      BY <1>3, <1>9
    <3>2. QED
      BY <2>1, <3>1
  <2>4. QED
    BY <1>1, <1>2, <1>4, <1>7, <2>2, <2>3 DEF PageInv, StatusInv
<1>13. QED
  BY <1>5, <1>6, <1>10, <1>11, <1>12 DEF PageInv, TypeOK

LEMMA DrainKeeps ==
  ASSUME PageInv, HeadInv, DrainUnowned \/ CreditOldest, UNCHANGED driverVars
  PROVE  PageInv'
<1>1. entries # <<>> /\ dpc = "drain" /\ Head(entries) \in QueueEntry /\ credit \subseteq Completion
  BY DEF DrainUnowned, CreditOldest, PageInv, TypeOK, DeviceTypeOK
<1>2. CASE DrainUnowned
  <2>1. /\ Pop(Head(entries).error)
        /\ UNCHANGED <<engineVars, pageVars, wireVars, qActive, consumed, completed, qFaults, handler,
                       published, credit, armed>>
    BY <1>2 DEF DrainUnowned
  <2>2. Head(entries).error \in Outcome /\ credit' = {}
    BY <1>1, <1>2 DEF DrainUnowned, QueueEntry, HeadInv, Crediting, OwnedHead
  <2>3. halted' \in BOOLEAN
    BY <2>1 DEF wireVars, PageInv, TypeOK, PageTypeOK
  <2>4. QED
    BY <1>1, <2>1, <2>2, <2>3, PopKeeps DEF wireVars
<1>3. CASE CreditOldest
  <2>1. PICK c \in credit :
          /\ halted' = (halted \/ StopsGuest(c, Head(entries)))
          /\ \E error \in {c.error} \cup
                          (IF c.error = "none" /\ Head(entries).query THEN {"failed"} ELSE {}) :
               Pop(error)
    BY <1>3 DEF CreditOldest
  <2>2. PICK error \in Outcome : Pop(error)
    BY <1>1, <2>1 DEF Completion, Outcome, Error
  <2>3. halted' \in BOOLEAN
    BY <2>1
  <2>4. credit' = {} /\ UNCHANGED <<engineVars, pageVars, doorbell, irq, generation, qActive, consumed,
                                    completed, qFaults, handler, published, armed>>
    BY <1>3 DEF CreditOldest
  <2>5. QED
    BY <1>1, <2>2, <2>3, <2>4, PopKeeps
<1>4. QED
  BY <1>2, <1>3

(* Finishing: the outcome is in the entry's slot before it is counted. *)
LEMMA FailedDomains ==
  ASSUME NEW list \in Seq(Domains), NEW dom \in Domains \cup {NoDomain}
  PROVE  Fault(list, dom) \in Seq(Domains)
<1>1. CASE dom = NoDomain \/ dom \in Entries(list)
  BY <1>1 DEF Fault
<1>2. CASE ~(dom = NoDomain \/ dom \in Entries(list)) /\ Len(list) < FaultSlots
  BY <1>2 DEF Fault
<1>3. CASE ~(dom = NoDomain \/ dom \in Entries(list)) /\ ~(Len(list) < FaultSlots)
  <2>1. list # <<>>
    BY <1>3, EngineConstants DEF EngineConstants
  <2>2. Tail(list) \in Seq(Domains)
    BY <2>1
  <2>3. QED
    BY <1>3, <2>2 DEF Fault
<1>4. QED
  BY <1>1, <1>2, <1>3

LEMMA FinishStatusKeeps ==
  ASSUME PageInv, FinishStatus, UNCHANGED driverVars
  PROVE  PageInv'
<1>1. /\ UNCHANGED <<engineVars, wireVars, pgActive, pgGeneration, pgConsumed, pgCompleted, pgProduced,
                     pgWait, pgTarget, ring, buffer>>
      /\ UNCHANGED <<qActive, consumed, completed, entries, handler, published, credit, finishing, armed>>
      /\ dpc = "finish" /\ dpc' = "count"
  BY DEF FinishStatus
<1>2. PICK f \in finishing :
        /\ status' = [status EXCEPT ![f.entry.slot] = f.error]
        /\ qFaults' = IF f.error # "none" THEN Fault(qFaults, f.entry.dom) ELSE qFaults
  BY DEF FinishStatus
<1>3. /\ f.entry.slot = SlotOf(completed) /\ f.error \in Outcome /\ f.entry.dom \in Domains \cup {NoDomain}
      /\ SlotOf(completed) \in Slots
  BY SlotType, PageNumbers DEF PageInv, TypeOK, DeviceTypeOK, QueueEntry, StatusInv
<1>4. status \in [Slots -> Status] /\ qFaults \in Seq(Domains)
  BY DEF PageInv, TypeOK, PageTypeOK, DeviceTypeOK
<1>5. /\ status' \in [Slots -> Status] /\ status'[SlotOf(completed)] # "unset"
      /\ \A s \in Slots : status[s] # "unset" => status'[s] # "unset"
  BY <1>2, <1>3, <1>4 DEF Status, Outcome, Error
<1>6. EngineTypeOK' /\ DeviceTypeOK' /\ PageTypeOK'
  <2>1. EngineTypeOK' /\ PageTypeOK'
    BY <1>1, <1>5, EngineFrame DEF PageInv, TypeOK, PageTypeOK, wireVars
  <2>2. qFaults' \in Seq(Domains)
    BY <1>2, <1>3, <1>4, FailedDomains
  <2>3. DeviceTypeOK'
    BY <1>1, <2>2 DEF PageInv, TypeOK, DeviceTypeOK
  <2>4. QED
    BY <2>1, <2>3
<1>7. /\ UNCHANGED <<active, qGeneration, reaped, owners, pc, issued, upTo>>
  BY DEF driverVars, queueVars, localVars
<1>8. DriverTypeOK' /\ RoomInv' /\ JoinInv' /\ WindowInv' /\ IssuedInv'
  BY <1>1, <1>6, DriverFrame DEF wireVars
<1>9. DeviceInv'
  BY <1>1 DEF PageInv, DeviceInv, AtMostOne, InHand
<1>10. IntactInv'
  BY <1>1, <1>7, IntactInvFrame DEF PageInv
<1>11. StatusInv'
  <2>1. reaped \in Nat /\ upTo \in Nat
    BY PageNumbers
  <2>2. \A i : i \in reaped..completed - 1 \/ i \in reaped..upTo - 1 => SlotOf(i) \in Slots
    BY <2>1, SlotType, PageNumbers
  <2>3. QED
    BY <1>1, <1>5, <1>7, <2>2 DEF PageInv, StatusInv, InHand
<1>12. QED
  BY <1>6, <1>8, <1>9, <1>10, <1>11 DEF PageInv, TypeOK

LEMMA FinishCountKeeps ==
  ASSUME PageInv, HeadInv, FinishCount, UNCHANGED driverVars
  PROVE  PageInv'
<1>1. /\ UNCHANGED <<engineVars, wireVars, pgActive, pgGeneration, pgConsumed, pgProduced,
                     pgWait, pgTarget, ring, status, buffer>>
      /\ UNCHANGED <<qActive, consumed, entries, qFaults, handler, published, credit, armed>>
      /\ dpc = "count" /\ dpc' = (IF handler = "consume" THEN "take" ELSE "drain")
      /\ completed' = completed + 1 /\ pgCompleted' = completed + 1 /\ finishing' = {}
  BY DEF FinishCount
<1>2. /\ completed \in Nat /\ consumed \in Nat /\ Len(entries) \in Nat /\ pgProduced \in Nat
      /\ reaped \in Nat /\ upTo \in Nat /\ Depth \in Nat
  BY PageNumbers
<1>3. /\ qActive /\ InHand = 1 /\ InHand' = 0 /\ handler \in {"consume", "complete"}
      /\ consumed = completed + Len(entries) + InHand /\ consumed <= pgProduced
      /\ pgProduced - completed <= Depth /\ pgConsumed <= consumed
      /\ handler = "consume" => consumed <= published /\ published <= pgProduced
      /\ credit = {}
  BY <1>1 DEF PageInv, DeviceInv, InHand, TypeOK, DeviceTypeOK
<1>4. EngineTypeOK' /\ DeviceTypeOK' /\ PageTypeOK'
  BY <1>1, <1>2, EngineFrame DEF PageInv, TypeOK, DeviceTypeOK, PageTypeOK, wireVars
<1>5. /\ UNCHANGED <<active, qGeneration, reaped, owners, pc, issued, upTo>>
  BY DEF driverVars, queueVars, localVars
<1>6. DriverTypeOK' /\ RoomInv' /\ JoinInv' /\ WindowInv' /\ IssuedInv'
  BY <1>1, <1>4, DriverFrame DEF wireVars
<1>7. DeviceInv'
  <2>1. consumed = (completed + 1) + Len(entries) + 0 /\ pgProduced - (completed + 1) <= Depth
    BY <1>2, <1>3
  <2>2. QED
    BY <1>1, <1>3, <2>1 DEF DeviceInv, AtMostOne
<1>8. IntactInv'
  BY <1>1, <1>5, IntactInvFrame DEF PageInv
<1>9. StatusInv'
  <2>1. status[SlotOf(completed)] # "unset"
    BY <1>1, <1>3 DEF PageInv, StatusInv
  <2>2. ASSUME active, NEW i \in reaped..completed
        PROVE  status[SlotOf(i)] # "unset"
    <3>1. i = completed \/ i \in reaped..completed - 1
      BY <1>2
    <3>2. QED
      BY <1>3, <2>1, <2>2, <3>1 DEF PageInv, StatusInv
  <2>3. ASSUME NEW k \in DOMAIN entries
        PROVE  entries[k].slot = SlotOf(completed + 1 + 0 + k - 1)
    BY <1>2, <1>3 DEF PageInv, StatusInv
  <2>4. completed' - 1 = completed /\ reaped' = reaped /\ status' = status
    BY <1>1, <1>2, <1>5
  <2>5. active' /\ qActive' => \A i \in reaped'..completed' - 1 : status'[SlotOf(i)] # "unset"
    <3> SUFFICES ASSUME active', NEW i \in reaped'..completed' - 1 PROVE status'[SlotOf(i)] # "unset"
      OBVIOUS
    <3>1. active /\ i \in reaped..completed
      BY <1>5, <2>4
    <3>2. QED
      BY <2>2, <2>4, <3>1
  <2>6. \A k \in DOMAIN entries' : entries'[k].slot = SlotOf(completed' + InHand' + k - 1)
    BY <1>1, <1>3, <2>3
  <2>7. pc' = "reaping" => \A i \in reaped'..upTo' - 1 : status'[SlotOf(i)] # "unset"
    BY <1>1, <1>5 DEF PageInv, StatusInv
  <2>8. QED
    BY <1>1, <2>5, <2>6, <2>7 DEF StatusInv
<1>10. QED
  BY <1>4, <1>6, <1>7, <1>8, <1>9 DEF PageInv, TypeOK

(* Consuming: the entry read from the ring is the batch published there. *)
LEMMA ConsumeEntryKeeps ==
  ASSUME PageInv, HeadInv, ConsumeEntry, UNCHANGED driverVars
  PROVE  PageInv'
<1> DEFINE e == ring[SlotOf(consumed)]
<1>1. /\ dpc = "take" /\ consumed # published /\ Len(entries) < Depth /\ consumed' = consumed + 1
      /\ UNCHANGED <<pageVars, wireVars, qActive, completed, qFaults, handler, published, credit, armed>>
  BY DEF ConsumeEntry
<1>2. /\ UNCHANGED <<pgActive, pgGeneration, pgConsumed, pgCompleted, pgProduced, ring, status, buffer,
                     generation>>
      /\ UNCHANGED <<active, qGeneration, reaped, owners, pc, issued, upTo>>
  BY <1>1 DEF pageVars, deviceWords, wireVars, driverVars, queueVars, localVars
<1>3. /\ completed \in Nat /\ consumed \in Nat /\ pgProduced \in Nat /\ published \in Nat
      /\ Len(entries) \in Nat /\ reaped \in Nat
  BY PageNumbers DEF PageInv, TypeOK, DeviceTypeOK
<1>4. /\ qActive /\ finishing = {} /\ InHand = 0 /\ credit = {} /\ handler = "consume"
      /\ consumed = completed + Len(entries) + InHand /\ pgProduced - completed <= Depth
      /\ consumed < published /\ published <= pgProduced /\ consumed < pgProduced
      /\ pgCompleted = completed /\ pgConsumed <= consumed
  <2>1. consumed <= published /\ published <= pgProduced
    BY <1>1 DEF PageInv, DeviceInv
  <2>2. consumed < published /\ consumed < pgProduced
    BY <1>1, <1>3, <2>1
  <2>3. QED
    BY <1>1, <2>1, <2>2 DEF PageInv, DeviceInv, InHand, HeadInv
<1>5. active /\ pgProduced = produced /\ consumed \in reaped..produced - 1
  <2>1. completed < pgProduced
    BY <1>3, <1>4
  <2>2. active /\ pgProduced = produced /\ reaped <= completed
    BY <1>4, <2>1, Serving
  <2>3. QED
    BY <1>3, <1>4, <2>2
<1>6. e \in Entry /\ buffer[e.buffer] \in Batches /\ SlotOf(consumed) \in Slots
  <2>1. PICK b \in DOMAIN issued :
          OfQueue(b) /\ issued[b].index = consumed /\ SlotHolds(b) /\ b \in Batches
    BY <1>5, HeldBatch
  <2>2. buffer[BufferOf(consumed)] = b
    <3>1. consumed >= consumed
      BY <1>3
    <3>2. QED
      BY <1>4, <1>5, <2>1, <3>1 DEF PageInv, IntactInv
  <2>3. e.buffer = BufferOf(consumed)
    BY <2>1 DEF SlotHolds
  <2>4. SlotOf(consumed) \in Slots /\ ring \in [Slots -> Entry]
    BY <1>3, SlotType DEF PageInv, TypeOK, PageTypeOK
  <2>5. QED
    BY <2>1, <2>2, <2>3, <2>4
<1>7. e.dom \in Domains \cup {NoDomain} /\ e.coherent \in BOOLEAN /\ e.query \in BOOLEAN
  BY <1>6 DEF Entry
<1> HIDE DEF e
<1>8. ASSUME NEW error \in Outcome, NEW engine \in BOOLEAN
      PROVE  [batch |-> buffer[e.buffer], slot |-> SlotOf(consumed), dom |-> e.dom,
              query |-> e.query /\ error = "none",
              coherent |-> e.coherent /\ error \in {"none", "failed"},
              error |-> error, engine |-> engine] \in QueueEntry
  <2>1. (e.query /\ error = "none") \in BOOLEAN /\ (e.coherent /\ error \in {"none", "failed"}) \in BOOLEAN
    OBVIOUS
  <2>2. QED
    BY <1>6, <1>7, <2>1 DEF QueueEntry
<1>9. PICK error \in Verdicts(e) :
       \/ /\ Submit(EngineBatch(e, error))
          /\ entries' = Append(entries, Consumed(e, error, TRUE))
          /\ UNCHANGED <<dpc, finishing>>
       \/ /\ entries' = Append(entries, Consumed(e, error, FALSE))
          /\ UNCHANGED <<engineVars, dpc, finishing>>
       \/ /\ ~Behind
          /\ finishing' = {[entry |-> Consumed(e, error, FALSE), error |-> error]}
          /\ dpc' = "finish"
          /\ UNCHANGED <<engineVars, entries>>
  BY DEF ConsumeEntry, e
<1>10. error \in Outcome
  BY <1>9 DEF Verdicts, Outcome, Error
<1>11. \A engine \in BOOLEAN : Consumed(e, error, engine) \in QueueEntry
                              /\ Consumed(e, error, engine).slot = SlotOf(consumed)
  BY <1>8, <1>10 DEF Consumed
<1>12. EngineTypeOK'
  <2>1. EngineBatch(e, error) \in Batch
    BY <1>6, <1>7, <1>10 DEF EngineBatch, Batch, PageInv, TypeOK, PageTypeOK
  <2>2. QED
    BY <1>9, <2>1, SubmitType, EngineFrame DEF PageInv, TypeOK
<1>13. PageTypeOK'
  BY <1>1, <1>2 DEF PageInv, TypeOK, PageTypeOK, pageVars, deviceWords, wireVars
<1>14. DriverTypeOK' /\ RoomInv' /\ JoinInv' /\ WindowInv' /\ IssuedInv'
  BY <1>1, <1>2, <1>13, DriverFrame
<1>15. IntactInv'
  <2>1. \A b \in DOMAIN issued : issued[b].index >= consumed + 1 => issued[b].index >= consumed
    BY <1>3, IssuedNumbers
  <2>2. QED
    BY <1>1, <1>2, <2>1 DEF PageInv, IntactInv, OfQueue, SlotHolds
<1>16. entries \in Seq(QueueEntry)
  BY DEF PageInv, TypeOK, DeviceTypeOK
<1>17. CASE \E engine \in BOOLEAN : entries' = Append(entries, Consumed(e, error, engine))
                                    /\ UNCHANGED <<dpc, finishing>>
  <2>1. PICK engine \in BOOLEAN : entries' = Append(entries, Consumed(e, error, engine))
    BY <1>17
  <2> DEFINE x == Consumed(e, error, engine)
  <2>2. x \in QueueEntry /\ x.slot = SlotOf(consumed)
    BY <1>11
  <2> HIDE DEF x
  <2>3. /\ entries' \in Seq(QueueEntry) /\ Len(entries') = Len(entries) + 1 /\ entries' # <<>>
        /\ DOMAIN entries' = 1..Len(entries) + 1 /\ DOMAIN entries = 1..Len(entries)
        /\ \A k \in DOMAIN entries : entries'[k] = entries[k]
        /\ entries'[Len(entries) + 1] = x
    BY <1>16, <2>1, <2>2 DEF x
  <2>4. DeviceTypeOK'
    BY <1>1, <1>3, <1>17, <2>3 DEF PageInv, TypeOK, DeviceTypeOK
  <2>5. DeviceInv'
    <3>1. consumed + 1 = completed + (Len(entries) + 1) + 0 /\ consumed + 1 <= published
          /\ consumed + 1 <= pgProduced /\ pgConsumed <= consumed + 1
      BY <1>3, <1>4, PageNumbers, SMTT(30)
    <3>2. QED
      BY <1>1, <1>2, <1>4, <1>17, <2>3, <3>1 DEF DeviceInv, AtMostOne, InHand
  <2>6. StatusInv'
    <3>1. InHand' = 0
      BY <1>4, <1>17 DEF InHand
    <3>2. ASSUME NEW k \in DOMAIN entries'
          PROVE  entries'[k].slot = SlotOf(completed + 0 + k - 1)
      <4>1. CASE k \in DOMAIN entries
        BY <1>4, <2>3, <4>1 DEF PageInv, StatusInv
      <4>2. CASE k = Len(entries) + 1
        <5>1. completed + 0 + k - 1 = consumed
          BY <1>3, <1>4, <4>2
        <5>2. QED
          BY <2>2, <2>3, <4>2, <5>1
      <4>3. QED
        BY <1>3, <2>3, <4>1, <4>2
    <3>3. QED
      BY <1>1, <1>2, <1>4, <1>17, <3>1, <3>2 DEF PageInv, StatusInv
  <2>7. QED
    BY <1>12, <1>13, <1>14, <1>15, <2>4, <2>5, <2>6 DEF PageInv, TypeOK
<1>18. CASE /\ ~Behind /\ dpc' = "finish" /\ UNCHANGED entries
            /\ finishing' = {[entry |-> Consumed(e, error, FALSE), error |-> error]}
  <2> DEFINE x == Consumed(e, error, FALSE)
  <2>0. x \in QueueEntry /\ x.slot = SlotOf(consumed) /\ finishing' = {[entry |-> x, error |-> error]}
    BY <1>11, <1>18
  <2> HIDE DEF x
  <2>1. DeviceTypeOK'
    <3>1. finishing' \subseteq [entry : QueueEntry, error : Outcome]
      BY <1>10, <2>0
    <3>2. entries' \in Seq(QueueEntry) /\ consumed' \in Nat
      BY <1>1, <1>3, <1>16, <1>18
    <3>3. QED
      BY <1>1, <1>18, <3>1, <3>2 DEF PageInv, TypeOK, DeviceTypeOK
  <2>2. Len(entries) = 0 /\ consumed = completed
    BY <1>3, <1>4, <1>18 DEF Behind
  <2>3. InHand' = 1 /\ finishing' # {} /\ AtMostOne(finishing')
    BY <1>18 DEF InHand, AtMostOne
  <2>4. DeviceInv'
    <3>1. consumed + 1 = completed + 0 + 1 /\ consumed + 1 <= published
          /\ consumed + 1 <= pgProduced /\ pgConsumed <= consumed + 1
      BY <1>3, <1>4, <2>2, PageNumbers
    <3>2. QED
      BY <1>1, <1>2, <1>4, <1>18, <2>2, <2>3, <3>1 DEF DeviceInv, AtMostOne
  <2>5. StatusInv'
    <3>1. \A f \in finishing' : f.entry.slot = SlotOf(completed)
      <4> SUFFICES ASSUME NEW f \in finishing' PROVE f.entry.slot = SlotOf(completed)
        OBVIOUS
      <4>1. f = [entry |-> x, error |-> error]
        BY <2>0
      <4>2. QED
        BY <2>0, <2>2, <4>1
    <3>2. DOMAIN entries' = {}
      BY <1>18 DEF Behind
    <3>3. UNCHANGED <<status, completed, active, reaped, upTo, pc, qActive>> /\ dpc' = "finish"
      BY <1>1, <1>2, <1>18
    <3>4. QED
      BY <3>1, <3>2, <3>3 DEF PageInv, StatusInv
  <2>6. QED
    BY <1>12, <1>13, <1>14, <1>15, <2>1, <2>4, <2>5 DEF PageInv, TypeOK
<1>19. QED
  BY <1>9, <1>17, <1>18

LEMMA DeviceKeeps ==
  ASSUME PageInv, HeadInv, Device, UNCHANGED driverVars
  PROVE  PageInv'
BY ConsumeBeginKeeps, ConsumeEntryKeeps, ConsumeEndKeeps, CompleteBeginKeeps, DrainKeeps,
   HandlerEndKeeps, FinishStatusKeeps, FinishCountKeeps DEF Device

(* An engine reset ends the queue: the batches of its generation are lost. *)
LEMMA ResetKeeps ==
  ASSUME PageInv, ResetStep
  PROVE  PageInv'
<1>1. /\ UNCHANGED <<pgGeneration, pgConsumed, pgCompleted, pgProduced, pgWait, pgTarget, ring, status,
                     buffer, doorbell, irq, halted>>
      /\ UNCHANGED <<consumed, completed, dpc, handler, published, credit, finishing, armed, driverVars>>
      /\ dpc = "idle" /\ generation < MaxGeneration /\ generation' = generation + 1
      /\ ResetEngine(generation + 1)
      /\ qActive' = FALSE /\ pgActive' = (pgActive /\ ~qActive) /\ entries' = <<>> /\ qFaults' = <<>>
  BY DEF ResetStep, DeviceReset, ResetAdmitted
<1>2. /\ UNCHANGED <<active, qGeneration, produced, reaped, glFaulted, clientGen, call, ensureFor, reapFor,
                     upTo, waitFor, waited, owners, faults, pc, event, issued, settled, told>>
  BY <1>1 DEF driverVars, queueVars, clientVars, localVars
<1>3. generation \in Nat /\ qGeneration \in Nat /\ pgActive' = FALSE
  BY <1>1, PageNumbers DEF PageInv, JoinInv
<1>4. generation + 1 \in Generations
  BY <1>1, <1>3, EngineConstants DEF Generations, EngineConstants
<1>5. EngineTypeOK' /\ DeviceTypeOK' /\ PageTypeOK' /\ DriverTypeOK'
  <2>1. EngineTypeOK'
    BY <1>1, <1>4, ResetType DEF PageInv, TypeOK
  <2>2. DeviceTypeOK'
    <3>1. entries' \in Seq(QueueEntry) /\ qFaults' \in Seq(Domains)
      BY <1>1
    <3>2. qActive' \in BOOLEAN
      <4>1. qActive' = FALSE
        BY <1>1
      <4>2. QED
        BY <4>1, Zenon
    <3>3. QED
      BY <1>1, <3>1, <3>2 DEF PageInv, TypeOK, DeviceTypeOK
  <2>3. PageTypeOK'
    BY <1>1, <1>3, <1>4 DEF PageInv, TypeOK, PageTypeOK
  <2>4. DriverTypeOK'
    BY <1>2 DEF PageInv, TypeOK, DriverTypeOK
  <2>5. QED
    BY <2>1, <2>2, <2>3, <2>4
<1>6. RoomInv'
  BY <1>2 DEF PageInv, RoomInv, BeforeFill
<1>7. JoinInv'
  <2>1. /\ active => qGeneration <= generation + 1 /\ qGeneration # generation + 1
        /\ pc \in {"stores", "control", "enabled"} => upTo <= generation + 1
    <3>1. upTo \in Nat
      BY PageNumbers
    <3>2. QED
      BY <1>3, <3>1 DEF PageInv, JoinInv
  <2>2. qActive' = FALSE /\ pgActive' = FALSE /\ generation' = generation + 1
    BY <1>1, <1>3
  <2>3. QED
    BY <1>1, <1>2, <2>1, <2>2 DEF PageInv, JoinInv
<1>8. DeviceInv'
  BY <1>1 DEF PageInv, DeviceInv, AtMostOne
<1>9. WindowInv'
  BY <1>1, <1>2 DEF PageInv, WindowInv, Waiting, Reaping, Reached
<1>10. IssuedInv'
  <2>1. \A b \in DOMAIN issued : issued[b].live =>
          issued[b].queue <= generation + 1 /\ issued[b].queue # generation + 1
    BY <1>3, IssuedNumbers DEF PageInv, IssuedInv
  <2>2. QED
    BY <1>1, <1>2, <2>1 DEF PageInv, IssuedInv, OfQueue, Publishing
<1>11. IntactInv' /\ StatusInv'
  BY <1>1, <1>2 DEF PageInv, IntactInv, StatusInv, OfQueue, SlotHolds
<1>12. QED
  BY <1>5, <1>6, <1>7, <1>8, <1>9, <1>10, <1>11 DEF PageInv, TypeOK

LEMMA WorkerKeeps ==
  ASSUME PageInv, WorkerStep
  PROVE  PageInv'
<1>1. Worker /\ UNCHANGED <<pageVars, wireVars, deviceVars, driverVars>>
  BY DEF WorkerStep, EngineStep
<1>2. EngineTypeOK'
  BY <1>1, WorkerType DEF PageInv, TypeOK
<1>3. DeviceTypeOK' /\ PageTypeOK'
  BY <1>1, DeviceTypeFrame DEF PageInv, TypeOK, PageTypeOK, pageVars, deviceWords, wireVars
<1>4. DeviceInv'
  BY <1>1, DeviceInvFrame DEF PageInv, pageVars, deviceWords
<1>5. QED
  BY <1>1, <1>2, <1>3, <1>4, HandlerKeeps DEF pageVars, deviceWords, wireVars, deviceVars

LEMMA PageInit_ == Init => PageInv
<1> SUFFICES ASSUME Init PROVE PageInv
  OBVIOUS
<1> USE DEF Init
<1>1. /\ Depth \in Nat \ {0} /\ Buffers \in Nat \ {0, 1} /\ MaxBatches \in Nat /\ 0 \in Generations
      /\ Batches \subseteq Nat
  BY PageConstants, EngineConstants, GenerationsNat DEF PageConstants, EngineConstants, Batches
<1>2. EngineTypeOK
  BY EngineInitType
<1>3. PageTypeOK
  <2>1. BlankEntry \in Entry
    BY <1>1 DEF BlankEntry, Entry
  <2>2. ring \in [Slots -> Entry] /\ status \in [Slots -> Status]
    BY <2>1 DEF PageInit, Status
  <2>3. pgTarget \in [Counters -> Int] /\ buffer \in [0..Buffers-1 -> Batches \cup {0}]
    BY DEF PageInit
  <2>4. QED
    BY <1>1, <2>2, <2>3 DEF PageTypeOK, PageInit
<1>4. DeviceTypeOK
  <2>1. entries \in Seq(QueueEntry) /\ qFaults \in Seq(Domains)
    BY DEF DeviceInit
  <2>2. QED
    BY <2>1 DEF DeviceTypeOK, DeviceInit
<1>5. DriverTypeOK
  <2>1. NoCall \in Call_ /\ NoWait \in Wait_ /\ NoOwner \in Owner
    BY <1>1 DEF NoCall, NoWait, NoOwner, Call_, Wait_, Owner, Counters
  <2>2. owners \in [Slots -> Owner] /\ faults \in [1..TableSlots -> Fault_ \cup {NoFault}]
    BY <2>1 DEF DriverInit
  <2>3. clientGen \in [Clients -> Generations \cup {-1, -2}] /\ settled \in [Batches -> Status]
        /\ issued \in Seq(Issued_)
    BY DEF DriverInit, Status
  <2>4. QED
    BY <1>1, <2>1, <2>2, <2>3 DEF DriverTypeOK, DriverInit, DriverStations
<1>6. RoomInv
  <2>1. Len(issued) = 0 /\ call.kind = "none" /\ pc = "idle"
    BY DEF DriverInit, NoCall
  <2>2. QED
    BY <1>1, <2>1 DEF RoomInv, BeforeFill
<1>7. JoinInv
  BY DEF JoinInv, PageInit, DeviceInit, DriverInit
<1>8. DeviceInv
  BY DEF DeviceInv, AtMostOne, DeviceInit
<1>9. WindowInv
  BY DEF WindowInv, Waiting, Reaping, DriverInit
<1>10. IssuedInv /\ IntactInv
  BY DEF IssuedInv, IntactInv, DriverInit
<1>11. StatusInv
  BY DEF StatusInv, DriverInit, DeviceInit
<1>12. QED
  BY <1>2, <1>3, <1>4, <1>5, <1>6, <1>7, <1>8, <1>9, <1>10, <1>11 DEF PageInv, TypeOK

LEMMA PageStep == PageInv /\ HeadInv /\ [Next]_vars => PageInv'
<1> SUFFICES ASSUME PageInv, HeadInv, [Next]_vars PROVE PageInv'
  OBVIOUS
<1>1. CASE Call \/ Proceed
  BY <1>1, ProceedKeeps
<1>2. CASE ControlStep
  BY <1>2, ControlStepKeeps
<1>3. CASE InterruptStep
  BY <1>3, InterruptKeeps
<1>4. CASE DeviceStep
  BY <1>4, DeviceKeeps DEF DeviceStep
<1>5. CASE ResetStep
  BY <1>5, ResetKeeps
<1>6. CASE WorkerStep
  BY <1>6, WorkerKeeps
<1>7. CASE UNCHANGED vars
  <2>1. EngineTypeOK' /\ DeviceTypeOK' /\ PageTypeOK' /\ DeviceInv'
    BY <1>7, EngineFrame, DeviceTypeFrame, DeviceInvFrame
       DEF vars, PageInv, TypeOK, PageTypeOK, pageVars, deviceWords, wireVars
  <2>2. QED
    BY <1>7, <2>1, HandlerKeeps DEF vars, pageVars, deviceWords, wireVars, deviceVars
<1>8. QED
  BY <1>1, <1>2, <1>3, <1>4, <1>5, <1>6, <1>7 DEF Next, Quiet

(* Every variable of the driver, the page, the device and the engine keeps its type. *)
THEOREM TransportTypes == Spec => []TypeOK
<1>1. PageInv => TypeOK
  BY DEF PageInv
<1>2. QED
  BY HeadInit, HeadStep, PageInit_, PageStep, <1>1, PTL DEF Spec


-----------------------------------------------------------------------------
(* What was published is kept until it is done with, and recorded in the end. *)

LEMMA KeptInv == PageInv => BatchesKept
<1> SUFFICES ASSUME PageInv PROVE BatchesKept
  OBVIOUS
<1>1. NoSilentLoss
  <2> SUFFICES ASSUME pc = "idle", NEW b \in DOMAIN issued, issued[b].live, settled[b] = "unset"
               PROVE  active /\ issued[b].queue = qGeneration /\ issued[b].index \in reaped..produced-1
    BY DEF NoSilentLoss
  <2>1. QED
    BY DEF PageInv, IssuedInv, OfQueue, Publishing
<1>2. PublishedIntact
  <2> SUFFICES ASSUME qActive, active, NEW b \in Batches, Published(b)
               PROVE  LET i == issued[b].index
                          e == ring[SlotOf(i)] IN
                      /\ i >= consumed => e.batch = b /\ buffer[e.buffer] = b
                      /\ i >= reaped   => e.batch = b /\ owners[SlotOf(i)].batch = b
    BY DEF PublishedIntact
  <2>1. b \in DOMAIN issued /\ OfQueue(b)
    BY DEF Published, PageInv, IssuedInv, OfQueue
  <2>2. issued[b].index >= consumed => issued[b].index >= reaped
    <3>1. /\ consumed \in Nat /\ completed \in Nat /\ reaped \in Nat /\ issued[b].index \in Nat
          /\ Len(entries) \in Nat /\ InHand \in {0, 1}
      BY <2>1, PageNumbers, IssuedNumbers
    <3>2. reaped <= completed /\ consumed = completed + Len(entries) + InHand
      BY DEF PageInv, WindowInv, DeviceInv
    <3>3. QED
      BY <3>1, <3>2
  <2>3. issued[b].index >= reaped => SlotHolds(b)
    BY <2>1 DEF PageInv, IntactInv
  <2>4. issued[b].index >= consumed => buffer[BufferOf(issued[b].index)] = b
    BY <2>1 DEF PageInv, IntactInv
  <2>5. QED
    BY <2>2, <2>3, <2>4 DEF SlotHolds
<1>3. QED
  BY <1>1, <1>2 DEF BatchesKept

(* No batch is lost or overwritten on its way from the driver through the page to the
   device and back. *)
THEOREM KeptCorrect == Spec => []BatchesKept
<1>1. QED
  BY HeadInit, HeadStep, PageInit_, PageStep, KeptInv, PTL DEF Spec

(* The counters of page, device and driver stay in their window. *)
THEOREM WindowCorrect == Spec => []Window
<1>1. PageInv => Window
  <2> SUFFICES ASSUME PageInv PROVE Window
    OBVIOUS
  <2>1. /\ consumed \in Nat /\ completed \in Nat /\ reaped \in Nat /\ produced \in Nat
        /\ Len(entries) \in Nat /\ InHand \in {0, 1} /\ pgProduced \in Nat
    BY PageNumbers
  <2>2. Current => qActive /\ active
    BY DEF Current, PageInv, JoinInv
  <2>3. QED
    BY <2>1, <2>2 DEF Window, PageInv, DeviceInv, WindowInv
<1>2. QED
  BY HeadInit, HeadStep, PageInit_, PageStep, <1>1, PTL DEF Spec
=============================================================================
