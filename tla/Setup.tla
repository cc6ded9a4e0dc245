------------------------------- MODULE Setup --------------------------------
(***************************************************************************)
(* The guest installer as one process at a time that may end at any step:  *)
(* the coordinator of a whole operation (global-policy.h), the transaction *)
(* of one generation (system-engine.h, lifecycle.h) and the boot queue it  *)
(* hands the files to.  Between the steps the power may fail, Windows may  *)
(* be restarted, and other programs may replace what was installed.        *)
(***************************************************************************)
EXTENDS BootQueue

CONSTANTS
  Requests,       \* what the user asks for beyond continuing: set of intents
  MaxRequests, MaxLosses, MaxIntrusions,  \* bounds of the model
  Prompt          \* Windows wrote the registry back before setup is started again

ASSUME SetupConstants ==
    /\ Requests \subseteq {"upgrade", "rollback", "uninstall"}
    /\ {MaxRequests, MaxLosses, MaxIntrusions} \subseteq Nat
    /\ Prompt \in BOOLEAN

VARIABLES
  run,       \* the installer process: where it is, its journal, item and direction
  flow,      \* the coordinator's record on disk
  armed,     \* the Run value that continues setup at the next start
  starting,  \* entry of the rename queue Windows works on; 0 when it has started
  touched,   \* items other programs replaced since the last plan was captured
  spent      \* budget used, by kind

vars == <<storeVars, queueVars, run, flow, armed, starting, touched, spent>>

NoFlow == [intent |-> "none", phase |-> "none", gen |-> 0, origin |-> Unprepared]
Ended == [at |-> "idle", j |-> Unprepared, n |-> 0, undo |-> FALSE]

Init ==
    /\ StoreInit /\ QueueInit
    /\ run = Ended /\ flow = NoFlow /\ armed = FALSE /\ starting = 0
    /\ touched = {} /\ spent = [asked |-> 0, lost |-> 0, intruded |-> 0]

Idle == run.at = "idle" /\ starting = 0
At(place) == run.at = place
Go(place) == run' = [run EXCEPT !.at = place]
Spend(kind, limit) == spent[kind] < limit /\ spent' = [spent EXCEPT ![kind] = @ + 1]
outside == <<starting, touched, spent>>
coordinator == <<flow, armed>>

Forward(intent) == intent \in {"install", "upgrade"}
Terminal(phase) == phase \in {"activated", "restored"}

-----------------------------------------------------------------------------
(* The coordinator.                                                          *)

(* providers_verified: the generation of the operation ended as it should,   *)
(* or an upgrade was taken back before it published its generation.          *)
Expected(intent) == IF intent = "rollback" THEN "failed"
                    ELSE IF intent = "uninstall" THEN "removed" ELSE "activated"
OriginalProviders(j) ==
    /\ flow.origin.intent = "upgrade" /\ j.gen = flow.origin.gen
    /\ j.state = flow.origin.state /\ j.uninstall = flow.origin.uninstall
    /\ AllReached(j, j.state = "failed")
ProvidersVerified ==
    LET j == Newest
    IN \/ flow.intent = "rollback" /\ j.gen # flow.gen /\ OriginalProviders(j)
       \/ /\ j.gen = flow.gen /\ j.uninstall = (flow.intent = "uninstall")
          /\ j.state = Expected(flow.intent) /\ AllReached(j, flow.intent = "rollback")

ProviderTerminal(j) == \/ j.state = "activated" /\ ~j.uninstall
                       \/ j.state = "removed" /\ j.uninstall
                       \/ j.state = "failed"

FirstPhase(intent) == IF Forward(intent) THEN "driver" ELSE "restore_providers"
Origin(intent, j) == [intent |-> intent, gen |-> j.gen, state |-> j.state, uninstall |-> j.uninstall]

Admits(intent, j) ==
    /\ intent = "upgrade" => ProviderTerminal(j)
    /\ intent = "uninstall" => Assessed(j)
    /\ intent = "rollback" => flow.phase = "activated"
    /\ intent \in {"upgrade", "uninstall"} => j.gen < MaxGeneration

CanStart == Idle /\ (Prompt => kept = os)

(* act, for a new operation: the one before it is closed first.              *)
Begin(intent) ==
    /\ CanStart /\ Newest # Unprepared
    /\ IF intent = "install" THEN flow = NoFlow
       ELSE /\ Terminal(flow.phase) /\ ProvidersVerified
            /\ intent # flow.intent \/ intent = "upgrade"
    /\ Admits(intent, Newest)
    /\ flow' = [intent |-> intent, phase |-> FirstPhase(intent),
                gen |-> IF intent = "rollback" THEN flow.gen
                        ELSE Newest.gen + (IF intent = "install" THEN 0 ELSE 1),
                origin |-> IF intent = "rollback" THEN flow.origin ELSE Origin(intent, Newest)]
    /\ armed' = FALSE /\ Go("arm")
    /\ Spend("asked", MaxRequests) /\ UNCHANGED <<storeVars, queueVars, starting, touched>>

(* act, for the operation under way: resumed, or turned back when forward.   *)
Continue ==
    /\ CanStart /\ flow # NoFlow /\ ~Terminal(flow.phase)
    /\ Go("arm") /\ UNCHANGED <<storeVars, queueVars, coordinator, outside>>
TurnBack ==
    /\ CanStart /\ Forward(flow.intent) /\ ~Terminal(flow.phase) /\ "rollback" \in Requests
    /\ flow' = [flow EXCEPT !.intent = "rollback", !.phase = "restore_providers"]
    /\ Go("arm") /\ UNCHANGED <<storeVars, queueVars, armed, outside>>

Component == IF flow.phase \in {"driver", "restore_driver"} THEN "driver" ELSE "providers"
ArmRun ==
    /\ At("arm") /\ armed' = TRUE /\ Go(Component)
    /\ UNCHANGED <<storeVars, queueVars, flow, outside>>

(* A component is complete: the next phase is saved, the last one verified.  *)
NextPhase == CASE flow.phase = "driver" -> "providers"
               [] flow.phase = "providers" -> "activated"
               [] flow.phase = "restore_providers" -> "restore_driver"
               [] flow.phase = "restore_driver" -> "restored"
Advance ==
    /\ Terminal(NextPhase) => ProvidersVerified
    /\ flow' = [flow EXCEPT !.phase = NextPhase]
    /\ run' = [Ended EXCEPT !.at = IF Terminal(NextPhase) THEN "disarm"
                                   ELSE IF NextPhase = "providers" THEN "providers" ELSE "driver"]
DriverDone ==
    /\ At("driver") /\ Advance
    /\ UNCHANGED <<storeVars, queueVars, armed, outside>>
ProvidersDone ==
    /\ At("complete") /\ Advance
    /\ UNCHANGED <<storeVars, queueVars, armed, outside>>
Disarm ==
    /\ At("disarm") /\ armed' = FALSE /\ run' = Ended
    /\ UNCHANGED <<storeVars, queueVars, flow, outside>>

(* providers_apply and providers_restore, and the dispatch of system_act.    *)
Work(j, undo) == run' = [at |-> IF undo THEN "restore" ELSE "apply", j |-> j, n |-> 0, undo |-> undo]
IsOrigin(j) == j.gen = flow.origin.gen /\ j.gen + 1 = flow.gen
Providers ==
    LET j == Newest
    IN /\ At("providers")
       /\ \/ /\ flow.intent = "upgrade" /\ j.gen # flow.gen
             /\ IsOrigin(j) /\ OriginalProviders(j) /\ Succeeds(j) /\ Go("prepare")
          \/ /\ Forward(flow.intent) /\ j.gen = flow.gen /\ ~j.uninstall
             /\ Work(j, j.state = "rolling_back")
          \/ /\ flow.intent = "rollback" /\ j.gen # flow.gen
             /\ OriginalProviders(j) /\ Go("complete")
          \/ /\ flow.intent = "rollback" /\ j.gen = flow.gen /\ Work(j, TRUE)
          \/ /\ flow.intent = "uninstall" /\ j.gen # flow.gen
             /\ IsOrigin(j) /\ Assessed(j) /\ Go("prepare")
          \/ /\ flow.intent = "uninstall" /\ j.gen = flow.gen /\ j.uninstall
             /\ Work(j, j.state = "rolling_back")
       /\ UNCHANGED <<storeVars, queueVars, coordinator, outside>>

-----------------------------------------------------------------------------
(* The preparation of a generation.                                          *)

Stage ==
    /\ CanStart /\ flow = NoFlow /\ Newest = Unprepared
    /\ Go("prepare") /\ UNCHANGED <<storeVars, queueVars, coordinator, outside>>

Before == IF flow.intent = "upgrade" THEN Predecessor(Newest) ELSE Unprepared
Plan == IF flow.intent = "uninstall" THEN UninstallPlan(Newest)
        ELSE SystemPlan(Newest.gen + 1, flow.intent, Before)

Receive ==
    /\ At("prepare")
    /\ flow.intent # "uninstall" => CanCapture(Before)
    /\ WriteReceipt(Plan, Before) /\ touched' = {}
    /\ UNCHANGED <<queueVars, coordinator, run, starting, spent>>
Resolve ==
    /\ At("prepare") /\ ReceiptFits(Plan, Before)
    /\ run' = [run EXCEPT !.at = "backup", !.j = receipt[Plan.gen].plan]
    /\ UNCHANGED <<storeVars, queueVars, coordinator, outside>>
Backup ==
    /\ At("backup")
    /\ LET S == {n \in DOMAIN run.j.items : ToBackUp(run.j, n)}
       IN S # {} /\ BackUp(run.j, CHOOSE n \in S : \A m \in S : n <= m)
    /\ UNCHANGED <<queueVars, coordinator, run, outside>>
Publish ==
    /\ At("backup") /\ \A n \in DOMAIN run.j.items : ~ToBackUp(run.j, n)
    /\ Persist(run.j)
    /\ run' = IF flow = NoFlow THEN Ended ELSE [run EXCEPT !.at = "apply"]
    /\ UNCHANGED <<receipt, public, flushed, slots, queueVars, coordinator, outside>>

-----------------------------------------------------------------------------
(* SystemEngine and RuntimeFiles.                                            *)

SaveState(state) ==
    /\ Persist([run.j EXCEPT !.state = state])
    /\ UNCHANGED <<receipt, public, flushed, slots>>

Apply ==
    /\ At("apply")
    /\ \/ /\ run.j.state \in {"staged", "applying", "pending_reboot"}
          /\ SaveState("applying")
          /\ run' = [run EXCEPT !.at = "transition", !.j.state = "applying"]
       \/ /\ run.j.state = IF run.j.uninstall THEN "removed" ELSE "activated"
          /\ AllReached(run.j, FALSE) /\ Go("complete") /\ UNCHANGED storeVars
    /\ UNCHANGED <<queueVars, coordinator, outside>>

Outstanding(r) == r.phase \notin {"none", "prepared", "cancelled"}
Restore ==
    /\ At("restore") /\ SaveState("rolling_back")
    /\ run' = [run EXCEPT !.at = IF Outstanding(Record(run.j, FALSE)) THEN "cancel" ELSE "transition",
                          !.j.state = "rolling_back"]
    /\ UNCHANGED <<queueVars, coordinator, outside>>

Own == Record(run.j, run.undo)
EnginePass == run' = [run EXCEPT !.at = "item", !.n = IF run.undo THEN Len(run.j.items) ELSE 1]

(* transition: the files of the direction become a record, or none is needed. *)
Lay ==
    /\ At("transition") /\ Own = NoRecord
    /\ LET S == {n \in Pending(run.j, run.undo) : ~PayloadReady(run.j, n, run.undo)}
       IN S # {} /\ LayPayload(run.j, CHOOSE n \in S : \A m \in S : n <= m, run.undo)
    /\ UNCHANGED <<queueVars, coordinator, run, outside>>
Transition ==
    /\ At("transition")
    /\ \/ /\ Own = NoRecord /\ Pending(run.j, run.undo) # {}
          /\ Prepare(run.j, run.undo) /\ Go("register")
       \/ /\ Own = NoRecord /\ Pending(run.j, run.undo) = {}
          /\ EnginePass /\ UNCHANGED queueVars
       \/ /\ Own.phase = "prepared" /\ Go("register") /\ UNCHANGED queueVars
       \/ /\ Own.phase \in {"registering", "arming", "queued", "complete"}
          /\ Go("read") /\ UNCHANGED queueVars
    /\ UNCHANGED <<storeVars, coordinator, outside>>

(* wait_before_registration: an orderly queue of others is waited for.       *)
Registered ==
    /\ At("register") /\ Register(run.j, run.undo) /\ Go("read")
    /\ UNCHANGED <<storeVars, coordinator, outside>>
Deferred ==
    /\ At("register") /\ os.queue # <<>>
    /\ \A n \in Own.entries : Untouched(run.j, run.undo, n)
    /\ Go("pending") /\ UNCHANGED <<storeVars, queueVars, coordinator, outside>>
PendingReboot ==
    /\ At("pending") /\ run' = Ended
    /\ IF run.undo THEN UNCHANGED storeVars ELSE SaveState("pending_reboot")
    /\ UNCHANGED <<queueVars, coordinator, outside>>

Read ==
    /\ At("read") /\ SaveInventory(run.j, run.undo)
    /\ Go(IF NowDone(run.j, run.undo) = Own.entries THEN "done" ELSE "append")
    /\ UNCHANGED <<storeVars, coordinator, outside>>
QueueDone ==
    /\ At("done") /\ Complete(run.j, run.undo) /\ EnginePass
    /\ UNCHANGED <<storeVars, coordinator, outside>>

Step(action, from, to) ==
    /\ At(from) /\ action /\ Go(to) /\ UNCHANGED <<storeVars, coordinator, outside>>
AppendEntry == Step(Enqueue(run.j, run.undo), "append", "appended")
FlushEntry == Step(Flush, "appended", "append")
ArmGrant == Step(Arm(run.j, run.undo), "append", "arming")
GrantRenames == Step(Grant(run.j, run.undo), "arming", "granted")
FlushGrant == Step(Flush, "granted", "append")
QueueReady == Step(Queued(run.j, run.undo), "append", "pending")

(* cancel_apply *)
ReadCancel == Step(SaveInventory(run.j, FALSE), "cancel", "cancelling")
BeginCancel == Step(Cancelling(run.j), "cancelling", IF os.grant THEN "revoke" ELSE "dequeue")
RevokeGrant == Step(Revoke(run.j), "revoke", "revoked")
FlushRevoked == Step(Flush, "revoked", "dequeue")
RemoveQueue == Step(Dequeue, "dequeue", "dequeued")
FlushRemoved == Step(Flush, "dequeued", "cancelled")
NothingQueued == Step(os.queue = <<>> /\ UNCHANGED queueVars, "dequeue", "cancelled")
EndCancel == Step(Cancelled(run.j), "cancelled", "transition")

-----------------------------------------------------------------------------
(* Engine: the pass over the entries, forward or back.                       *)

This == run.j.items[run.n]
SettledPhase == IF run.undo THEN "restored" ELSE "applied"
NextItem == [run EXCEPT !.at = "item", !.n = IF run.undo THEN @ - 1 ELSE @ + 1]
AtItem == At("item") /\ run.n \in DOMAIN run.j.items
SavePhaseOf(phase, place) ==
    /\ Persist([run.j EXCEPT !.items[run.n].phase = phase])
    /\ run' = [run EXCEPT !.at = place, !.j.items[run.n].phase = phase]
    /\ UNCHANGED <<receipt, public, flushed, slots>>

PassSettled ==   \* faulty: what an earlier run applied is not looked at again
    /\ AtItem /\ This.phase \in {"borrowed", SettledPhase}
    /\ run' = NextItem /\ UNCHANGED <<storeVars, queueVars, coordinator, outside>>
Pass ==
    /\ AtItem /\ (This.phase = "borrowed" \/ (run.undo /\ This.phase = "restored"))
    /\ run' = NextItem /\ UNCHANGED <<storeVars, queueVars, coordinator, outside>>
Change ==
    /\ AtItem /\ This.item \notin Files
    /\ ~Reached(This, run.undo) /\ Waits(This, run.undo)
    /\ IF run.undo THEN This.phase \notin {"borrowed", "restored"}
       ELSE This.phase \in {"prepared", "changing"}
    /\ SavePhaseOf(IF run.undo THEN "restoring" ELSE "changing", "set")
    /\ UNCHANGED <<queueVars, coordinator, outside>>
Mutate ==
    /\ At("set") /\ Waits(This, run.undo) /\ SetValue(This, run.undo) /\ Go("confirm")
    /\ UNCHANGED <<queueVars, coordinator, outside>>
Confirms ==
    /\ AtItem /\ This.phase # "borrowed" /\ (run.undo => This.phase # "restored")
    /\ Reached(This, run.undo) /\ Go("confirm")
    /\ UNCHANGED <<storeVars, queueVars, coordinator, outside>>
(* confirm: a file is on the disk already; a value is flushed with its hive, *)
(* and when its key is gone with all of the machine's.                       *)
ConfirmUnflushed ==   \* faulty: seeing the value is taken for evidence
    /\ At("confirm") /\ Reached(This, run.undo) /\ Go("mark")
    /\ UNCHANGED <<storeVars, queueVars, coordinator, outside>>
Confirm ==
    /\ At("confirm") /\ Reached(This, run.undo) /\ Go("mark")
    /\ IF This.item \in Files THEN UNCHANGED storeVars ELSE FlushValue(This.item)
    /\ IF This.item \notin Files /\ To(This, run.undo) = Absent THEN Flush ELSE UNCHANGED queueVars
    /\ UNCHANGED <<coordinator, outside>>
Mark ==
    /\ At("mark")
    /\ IF This.phase = SettledPhase THEN run' = NextItem /\ UNCHANGED storeVars
       ELSE /\ Persist([run.j EXCEPT !.items[run.n].phase = SettledPhase])
            /\ run' = [NextItem EXCEPT !.j.items[run.n].phase = SettledPhase]
            /\ UNCHANGED <<receipt, public, flushed, slots>>
    /\ UNCHANGED <<queueVars, coordinator, outside>>

PassOver == At("item") /\ run.n \notin DOMAIN run.j.items
FinalState == IF run.undo THEN "failed" ELSE IF run.j.uninstall THEN "removed" ELSE "activated"
Finish ==
    /\ PassOver /\ SaveState(FinalState)
    /\ run' = [Ended EXCEPT !.at = "complete"]
    /\ UNCHANGED <<queueVars, coordinator, outside>>
(* verify_activation: the driver does not answer yet.                        *)
NotActive ==
    /\ PassOver /\ ~run.undo /\ ~run.j.uninstall
    /\ SaveState("pending_reboot") /\ run' = Ended
    /\ UNCHANGED <<queueVars, coordinator, outside>>

-----------------------------------------------------------------------------
(* The machine.                                                              *)

(* A conflict, an error or the user ends the process.                        *)
End ==
    /\ run.at # "idle" /\ run' = Ended
    /\ UNCHANGED <<storeVars, queueVars, coordinator, outside>>

Reboots == starting' = 1 /\ run' = Ended
Restart ==
    /\ Idle /\ Reboots
    /\ flushed' = public /\ kept' = os
    /\ UNCHANGED <<log, receipt, public, slots, boot, os, coordinator, touched, spent>>
PowerLoss ==
    /\ Reboots /\ Spend("lost", MaxLosses)
    /\ public' = flushed /\ os' = kept
    /\ UNCHANGED <<log, receipt, flushed, slots, boot, kept, coordinator, touched>>
RenameNext ==
    /\ starting \in DOMAIN os.queue /\ RenameAtStart(os.queue[starting])
    /\ starting' = starting + 1
    /\ UNCHANGED <<log, receipt, queueVars, run, coordinator, touched, spent>>
Started ==
    /\ starting > Len(os.queue)
    /\ starting' = 0 /\ os' = NoQueue /\ kept' = NoQueue
    /\ UNCHANGED <<storeVars, boot, run, coordinator, touched, spent>>

(* Windows writes the registry back in its own time.                         *)
WriteBack ==
    /\ starting = 0 /\ (kept # os \/ flushed # public)
    /\ kept' = os /\ flushed' = public
    /\ UNCHANGED <<log, receipt, public, slots, boot, os, run, coordinator, outside>>

(* Other programs.                                                           *)
Intrude(i) ==
    /\ Idle /\ Spend("intruded", MaxIntrusions)
    /\ public' = [public EXCEPT ![i] = "foreign"] /\ flushed' = [flushed EXCEPT ![i] = "foreign"]
    /\ touched' = touched \cup {i}
    /\ UNCHANGED <<log, receipt, slots, queueVars, run, coordinator, starting>>
IntrudeQueue ==
    /\ Idle /\ Spend("intruded", MaxIntrusions)
    /\ os' = [os EXCEPT !.queue = Append(@, Other)] /\ kept' = os'
    /\ UNCHANGED <<storeVars, boot, run, coordinator, starting, touched>>

SetupStep ==
    \/ Stage \/ Continue \/ TurnBack \/ ArmRun \/ DriverDone \/ ProvidersDone \/ Disarm \/ Providers
    \/ \E intent \in Requests \cup {"install"} : Begin(intent)
    \/ Receive \/ Resolve \/ Backup \/ Publish \/ Apply \/ Restore
    \/ Lay \/ Transition \/ Registered \/ Deferred \/ PendingReboot \/ Read \/ QueueDone
    \/ AppendEntry \/ FlushEntry \/ ArmGrant \/ GrantRenames \/ FlushGrant \/ QueueReady
    \/ ReadCancel \/ BeginCancel \/ RevokeGrant \/ FlushRevoked \/ RemoveQueue \/ FlushRemoved
    \/ NothingQueued \/ EndCancel
    \/ Pass \/ Change \/ Mutate \/ Confirms \/ Confirm \/ Mark \/ Finish \/ NotActive
Machine ==
    \/ End \/ Restart \/ PowerLoss \/ RenameNext \/ Started \/ WriteBack
    \/ (\E i \in Items : Intrude(i)) \/ IntrudeQueue
Next == SetupStep \/ Machine
Spec == Init /\ [][Next]_vars

-----------------------------------------------------------------------------
(* Properties.                                                               *)

Ending(j) == j # Unprepared /\ j.state \in {"activated", "removed", "failed"}
Steady(j, undo) == \A n \in DOMAIN j.items :
    LET e == j.items[n]
    IN e.item \notin touched =>
         public[e.item] = To(e, undo) /\ flushed[e.item] = To(e, undo)
Owned(q) == {e \in {q.queue[k] : k \in DOMAIN q.queue} : e # Other}

(* When the journal says that a generation was installed, removed or taken   *)
(* back, that is so on the disk, stays so over a power loss, and no rename   *)
(* of the installer is left; a restoration never runs beside the renames it  *)
(* undoes (SystemEngine, Engine::confirm, boot::Queue).                      *)
Honest ==
    /\ Ending(Newest) => /\ Steady(Newest, Newest.state = "failed")
                         /\ Owned(os) = {} /\ Owned(kept) = {}
    /\ \A e \in Owned(os) \cup Owned(kept) :
         ~e.undo => boot[e.gen][TRUE] = NoRecord

(* A generation that was taken back is so on the disk: no rename queued for  *)
(* it forward can bring its files back (system-engine.h, cancel_apply).      *)
RollbackFinal ==
    Newest # Unprepared /\ Newest.state = "failed" => Steady(Newest, TRUE)

(* Nothing that is needed to go back is ever missing or cut short, a public  *)
(* destination never holds anything but one of the two images of its entry,  *)
(* and an operation that has touched any is continued at the next start      *)
(* (backup_before, file_payload, persist before arm before mutate).          *)
Recoverable ==
    /\ \A g \in Generations : log[g] # Unprepared =>
         \A n \in DOMAIN log[g].items :
             LET e == log[g].items[n]
             IN e.item \in Files =>
                  /\ slots[g][n]["before"] = e.before
                  /\ slots[e.og][e.oi]["before"] = e.original
    /\ Newest # Unprepared =>
         \A n \in DOMAIN Newest.items :
             LET e == Newest.items[n]
             IN e.item \notin touched =>
                  {public[e.item], flushed[e.item]} \subseteq {e.before, e.desired}
    /\ Newest # Unprepared /\ Newest.state \in {"applying", "pending_reboot", "rolling_back"}
         => armed

(* What another program put in a destination between two runs of setup is    *)
(* never taken for one of the images of its entry: no rename is registered,  *)
(* queued, granted or reported done beside it, also not by a run that        *)
(* resumes a record it finds half written; and no generation is reported as  *)
(* installed or removed over it, although an earlier run saw the item in     *)
(* place (Queue::inventory, continue_apply).                                 *)
Known(e) == public[e.item] \in {e.before, e.desired}
Proceeds(g, undo) ==
    boot'[g][undo].phase # boot[g][undo].phase =>
      \A n \in boot'[g][undo].entries : Known(log[g].items[n])
Queues ==
    Owned(os') \ Owned(os) # {} \/ (os'.grant /\ ~os.grant) =>
      \A e \in Owned(os') : Known(Item(e))
Declares(g) ==
    log'[g] # log[g] /\ log'[g] # Unprepared /\ log'[g].state \in {"activated", "removed"} =>
      \A n \in DOMAIN log'[g].items :
        LET e == log'[g].items[n]
        IN e.phase # "borrowed" =>
             public[e.item] = e.desired /\ flushed[e.item] = e.desired
NotMistaken == [][
    /\ starting' = 0 => Queues /\ \A g \in Generations, undo \in BOOLEAN : Proceeds(g, undo)
    /\ \A g \in Generations : Declares(g)]_vars
=============================================================================
