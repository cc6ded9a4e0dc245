----------------------------- MODULE ShmemServer -----------------------------
(***************************************************************************)
(* The worker of src/shmem/server.rs with what it serves: the display, the *)
(* input queue and the cursor share one connection, one poll loop and one  *)
(* wake callback.  QEMU at the other end and the program that owns the     *)
(* display are not part of the sources; they are modelled from how the     *)
(* worker and its tests use them.                                          *)
(*                                                                         *)
(* Each behaviour has one kind of traffic beside connects, disconnects and *)
(* the stop, so that a run explores their union and not their product.     *)
(***************************************************************************)
EXTENDS ShmemDisplay, InputQueue, CursorChannel

CONSTANTS Traffic,       \* kinds of traffic, of {"frames", "input", "resets", "cursor"}
          MaxConnects,   \* bound on connections
          Room           \* events the socket to QEMU holds

ASSUME ServerAssumption == Traffic \subseteq {"frames", "input", "resets", "cursor"} /\ Room \in Nat \ {0}

VARIABLES traffic,
          worker,    \* pc, the poll's view of output, a partly written event
          link,      \* the connection: state, messages each way, peer gone
          qemu,      \* the emulator: connects, button, motion, capture, barriers done
          ui,        \* the program: pc and the callback's notification
          stop

vars == <<display, input, cursor, traffic, worker, link, qemu, ui, stop>>

NoLink == [state |-> "none", in |-> <<>>, out |-> <<>>, gone |-> FALSE]
NoQemu == [connects |-> 0, down |-> FALSE, moved |-> 0, capture |-> "unset", resets |-> {},
           faithful |-> TRUE, expected |-> "unset", pressed |-> "none"]
Init ==
    /\ DisplayInit /\ InputInit /\ CursorInit
    /\ traffic \in Traffic
    /\ worker = [pc |-> "top", pollout |-> FALSE, changed |-> FALSE, partial |-> <<>>]
    /\ link = NoLink
    /\ qemu = NoQemu
    /\ ui = [pc |-> "idle", notified |-> FALSE]
    /\ stop = FALSE

Up == link.state = "up" /\ ~link.gone
Tell(m) == IF Up THEN [link EXCEPT !.in = Append(@, m)] ELSE link
Message(kind, id) == [kind |-> kind, id |-> id]

-----------------------------------------------------------------------------
(* QEMU.                                                                     *)

(* A connection that carries frames announces a mapping; frames are explored *)
(* on one connection, the rest on MaxConnects.                               *)
Connect ==
    /\ link.state = "none" /\ qemu.connects < MaxConnects
    /\ IF traffic = "frames"
         THEN /\ writer.map = 0
              /\ writer' = [writer EXCEPT !.map = 1]
         ELSE UNCHANGED writer
    /\ link' = [link EXCEPT !.state = "asking"]
    /\ qemu' = [qemu EXCEPT !.connects = @ + 1]
    /\ shapes' = FreeShapes /\ pointer' = [shape |-> 0, position |-> 0]
    /\ UNCHANGED <<maps, received, view, scan, held, input, mapping, mailbox, look, traffic, worker,
                   ui, stop>>

Leave ==
    /\ Up /\ link' = [link EXCEPT !.gone = TRUE, !.out = <<>>]
    /\ qemu' = [NoQemu EXCEPT !.connects = qemu.connects, !.resets = qemu.resets]
    /\ UNCHANGED <<display, input, cursor, traffic, worker, ui, stop>>

Resize ==
    /\ traffic = "frames" /\ Up /\ NewMap
    /\ link' = Tell(Message("D", writer.map + 1))
    /\ UNCHANGED <<input, cursor, traffic, worker, qemu, ui, stop>>
Draw ==
    /\ traffic = "frames"
    /\ \/ WriteBegin /\ UNCHANGED link
       \/ WriteEnd /\ link' = Tell(Message("F", 0))
    /\ UNCHANGED <<input, cursor, traffic, worker, qemu, ui, stop>>

Point ==
    /\ traffic = "cursor" /\ Up
    /\ \/ /\ pointer.shape = 0 /\ pointer.position = 0
          /\ link' = Tell(Message("C", 0))
          /\ pointer' = [pointer EXCEPT !.position = 1]
          /\ UNCHANGED <<shapes, mapping, mailbox, look>>
       \/ /\ pointer.position > 0
          /\ PublishShape /\ link' = Tell(Message("S", 0))
       \/ /\ pointer.position \in 1..MaxCursor
          /\ pointer' = [pointer EXCEPT !.position = @ + 1]
          /\ link' = Tell(Message("P", pointer.position + 1))
          /\ UNCHANGED <<shapes, mapping, mailbox, look>>
    /\ UNCHANGED <<display, input, traffic, worker, qemu, ui, stop>>

Malformed ==
    /\ Up /\ link.in = <<>> /\ traffic = "cursor"
    /\ link' = Tell(Message("X", 0))
    /\ UNCHANGED <<display, input, cursor, traffic, worker, qemu, ui, stop>>

(* The emulator consumes an event; resets are acknowledged.                  *)
Consume ==
    LET e == Head(link.out)
    IN /\ Up /\ link.out # <<>>
       /\ link' = [link EXCEPT !.out = Tail(@),
                               !.in = IF e.kind = "reset" THEN Append(@, Message("A", e.id)) ELSE @]
       /\ qemu' = [qemu EXCEPT
            !.down = CASE e.kind = "btn" -> e.value = 1 [] e.kind = "reset" -> FALSE [] OTHER -> @,
            !.moved = CASE e.kind = "rel" -> @ + e.value
                        [] e.kind = "reset" -> e.moved [] OTHER -> @,
            !.capture = IF e.kind = "capture" THEN e.value ELSE @,
            !.resets = IF e.kind = "reset" THEN @ \union {e.id} ELSE @,
            !.faithful = @ /\ (e.kind = "btn" => qemu.moved = e.moved),
            !.pressed = IF e.kind = "btn" /\ @ = "none" THEN qemu.capture ELSE @]
       /\ UNCHANGED <<display, input, cursor, traffic, worker, ui, stop>>

-----------------------------------------------------------------------------
(* The worker.                                                               *)

Goto(pc) == worker' = [worker EXCEPT !.pc = pc]

Top ==
    /\ worker.pc = "top"
    /\ worker' = IF stop THEN [worker EXCEPT !.pc = "exit"]
                 ELSE [worker EXCEPT !.pc = "poll", !.changed = FALSE,
                                     !.pollout = worker.partial # <<>> \/ queue.events # <<>>]
    /\ UNCHANGED <<display, input, cursor, traffic, link, qemu, ui, stop>>

Readable == link.state = "up" /\ (link.in # <<>> \/ link.gone)
Writable == link.state = "up" /\ worker.pollout /\ (Len(link.out) < Room \/ link.gone)

Poll ==
    /\ worker.pc = "poll"
    /\ wake \/ link.state = "asking" \/ Readable \/ Writable
    /\ wake' = FALSE
    /\ Goto(CASE stop -> "exit"
              [] link.state = "asking" -> "accept"
              [] Readable -> "read"
              [] link.state = "up" -> "write"
              [] OTHER -> "top")
    /\ UNCHANGED <<display, queue, ack, barrier, host, cursor, traffic, link, qemu, ui, stop>>

(* A new client: marked connected, refilled and announced in three steps.    *)
Accept ==
    /\ worker.pc = "accept" /\ Goto("refill")
    /\ queue' = [queue EXCEPT !.connected = TRUE]
    /\ qemu' = [qemu EXCEPT !.down = FALSE, !.moved = host.moved, !.capture = "unset",
                            !.expected = queue.capture, !.pressed = "none"]
    /\ UNCHANGED <<display, ack, wake, barrier, host, cursor, traffic, link, ui, stop>>
Refill ==
    /\ worker.pc = "refill" /\ Goto("announce") /\ Reconnected
    /\ UNCHANGED <<display, ack, wake, barrier, host, cursor, traffic, link, qemu, ui, stop>>
AnnounceUp ==
    /\ worker.pc = "announce" /\ Goto("write") /\ Announce(TRUE)
    /\ link' = [NoLink EXCEPT !.state = "up",
                              !.in = IF writer.map = 0 THEN <<>> ELSE <<Message("D", writer.map)>>]
    /\ UNCHANGED <<display, queue, wake, barrier, host, cursor, traffic, qemu, ui, stop>>

Change(pc) == worker' = [worker EXCEPT !.pc = pc, !.changed = TRUE]
Read ==
    /\ worker.pc = "read"
    /\ IF link.in = <<>>
         THEN /\ Goto(IF link.gone THEN "drop" ELSE "write")
              /\ UNCHANGED <<display, input, cursor, link>>
         ELSE LET m == Head(link.in)
                  lost == m.kind = "X" \/ (m.kind \in {"S", "P"} /\ ~mapping.there)
              IN /\ link' = [link EXCEPT !.in = Tail(@)]
                 /\ CASE lost -> Goto("drop") /\ UNCHANGED <<display, input, cursor>>
                      [] ~lost /\ m.kind = "S" ->
                           Goto("look") /\ LookBegin /\ UNCHANGED <<display, input>>
                      [] ~lost /\ m.kind = "P" ->
                           /\ ReceivePosition(m.id)
                           /\ IF m.id > mapping.position THEN Change("read") ELSE UNCHANGED worker
                           /\ UNCHANGED <<display, input>>
                      [] m.kind = "C" -> /\ Change("read") /\ ReceiveMapping
                                         /\ UNCHANGED <<display, input>>
                      [] m.kind = "A" -> /\ Acknowledge(m.id)
                                         /\ UNCHANGED <<worker, display, cursor, queue, wake,
                                                        barrier, host>>
                      [] m.kind = "F" -> Change("read") /\ UNCHANGED <<display, input, cursor>>
                      [] m.kind = "D" -> /\ Change("read") /\ received' = m.id
                                         /\ UNCHANGED <<maps, writer, view, scan, held, input,
                                                        cursor>>
    /\ UNCHANGED <<traffic, qemu, ui, stop>>
Look ==
    /\ worker.pc = "look"
    /\ \/ LookSlot /\ UNCHANGED worker
       \/ LookEnd /\ IF mailbox' # mailbox THEN Change("read") ELSE Goto("read")
    /\ UNCHANGED <<display, input, traffic, link, qemu, ui, stop>>

Fill ==
    /\ worker.pc = "write" /\ worker.partial = <<>>
    /\ IF queue.events = <<>> THEN Goto("call") /\ UNCHANGED queue
       ELSE /\ worker' = [worker EXCEPT !.partial = <<Head(queue.events)>>]
            /\ queue' = [queue EXCEPT !.events = Tail(@)]
    /\ UNCHANGED <<display, ack, wake, barrier, host, cursor, traffic, link, qemu, ui, stop>>
Write ==
    /\ worker.pc = "write" /\ worker.partial # <<>>
    /\ CASE link.gone -> Goto("drop") /\ UNCHANGED link
         [] ~link.gone /\ Len(link.out) = Room -> Goto("call") /\ UNCHANGED link
         [] OTHER -> /\ link' = [link EXCEPT !.out = @ \o worker.partial]
                     /\ worker' = [worker EXCEPT !.partial = <<>>]
    /\ UNCHANGED <<display, input, cursor, traffic, qemu, ui, stop>>

DropClient ==
    /\ worker.pc = "drop"
    /\ CursorDisconnect /\ link' = NoLink
    /\ worker' = [worker EXCEPT !.pc = "announce_gone", !.partial = <<>>]
    /\ UNCHANGED <<display, input, traffic, qemu, ui, stop>>
AnnounceGone ==
    /\ worker.pc = "announce_gone" /\ Goto("clear") /\ Announce(FALSE)
    /\ UNCHANGED <<display, queue, wake, barrier, host, cursor, traffic, link, qemu, ui, stop>>
Clear ==
    /\ worker.pc = "clear" /\ Change("call")
    /\ queue' = [queue EXCEPT !.connected = FALSE, !.events = <<>>]
    /\ UNCHANGED <<display, ack, wake, barrier, host, cursor, traffic, link, qemu, ui, stop>>

Call ==
    /\ worker.pc = "call" /\ Goto("top")
    /\ ui' = [ui EXCEPT !.notified = @ \/ (worker.changed /\ traffic = "frames")]
    /\ UNCHANGED <<display, input, cursor, traffic, link, qemu, stop>>

(* After the loop.                                                           *)
Exit ==
    /\ worker.pc = "exit" /\ Goto("exit_announce")
    /\ queue' = [queue EXCEPT !.connected = FALSE]
    /\ UNCHANGED <<display, ack, wake, barrier, host, cursor, traffic, link, qemu, ui, stop>>
ExitAnnounce ==
    /\ worker.pc = "exit_announce" /\ Goto("gone") /\ Announce(FALSE)
    /\ link' = NoLink
    /\ UNCHANGED <<display, queue, wake, barrier, host, cursor, traffic, qemu, ui, stop>>

Worker ==
    \/ Top \/ Poll \/ Accept \/ Refill \/ AnnounceUp \/ Read \/ Look \/ Fill \/ Write
    \/ DropClient \/ AnnounceGone \/ Clear \/ Call \/ Exit \/ ExitAnnounce

-----------------------------------------------------------------------------
(* The program.                                                              *)

Stops == stop' = TRUE /\ wake' = TRUE

Stop ==
    /\ ~stop /\ traffic = "cursor" /\ Stops
    /\ UNCHANGED <<display, queue, ack, barrier, host, cursor, traffic, worker, link, qemu, ui>>

InputTraffic ==
    /\ ~stop
    /\ \/ traffic = "input" /\ \E kind \in {"rel", "abs"} : SendMotion(kind)
       \/ traffic \in {"input", "resets"} /\ SendButton
       \/ traffic = "input" /\ (SetMouseCapture \/ SetHostRefresh)
       \/ traffic = "resets" /\ (ResetAndWait \/ WaitEnds)
    /\ UNCHANGED <<display, cursor, traffic, worker, link, qemu, ui, stop>>

UiGoto(pc) == ui' = [ui EXCEPT !.pc = pc]
UiPoll ==
    /\ ui.pc = "idle" /\ ui.notified
    /\ ui' = [pc |-> "changed", notified |-> FALSE]
    /\ IF received # 0 THEN PollDisplay ELSE UNCHANGED display
    /\ UNCHANGED <<input, cursor, traffic, worker, link, qemu, stop>>
UiChanged ==
    /\ ui.pc = "changed"
    /\ IF view.map # 0 /\ maps[view.map].frame_counter # view.notified
         THEN TakeFrameChanged /\ UiGoto("claim") ELSE UNCHANGED display /\ UiGoto("idle")
    /\ UNCHANGED <<input, cursor, traffic, worker, link, qemu, stop>>
(* The program may look for a frame without being told of one.               *)
UiLook ==
    /\ ui.pc = "idle" /\ view.map # 0
    /\ ScanBegin /\ UiGoto("claim")
    /\ UNCHANGED <<maps, writer, received, view, held, input, cursor, traffic, worker, link, qemu,
                   stop>>
UiClaim ==
    /\ ui.pc = "claim"
    /\ \/ ScanSlot /\ UNCHANGED ui
       \/ ScanEnd /\ UiGoto("idle")
    /\ UNCHANGED <<input, cursor, traffic, worker, link, qemu, stop>>
UiDrops ==
    /\ DiscardCurrent \/ DropFrame
    /\ UNCHANGED <<input, cursor, traffic, worker, link, qemu, ui, stop>>

Program == Stop \/ InputTraffic \/ UiPoll \/ UiChanged \/ UiLook \/ UiClaim \/ UiDrops
Qemu == Connect \/ Leave \/ Resize \/ Draw \/ Point \/ Malformed \/ Consume

Next == Qemu \/ Worker \/ Program
Spec == Init /\ [][Next]_vars

-----------------------------------------------------------------------------
(* Properties.                                                               *)

TypeOK ==
    /\ Len(queue.events) <= Capacity /\ Len(worker.partial) <= 1
    /\ queue.connected \in BOOLEAN /\ queue.capture \in {"unset", "abs", "rel"}
    /\ \A m \in Maps, s \in Slots :
         maps[m].slot[s].state \in {"free", "writing", "ready", "reading"}
    /\ view.map \in 0..MaxMaps /\ received \in 0..MaxMaps /\ Cardinality(scan) <= 1
    /\ mapping.shape \in 0..MaxCursor /\ stop \in BOOLEAN

Owned == OwnersOf(view, scan, held)

(* QEMU never writes what the consumer reads: every frame the display, a     *)
(* scan in progress or a lease of this or an earlier mapping owns lies in a  *)
(* slot marked as being read.                                                *)
ReadersUndisturbed == \A o \in Owned : maps[o[1]].slot[o[2]].state = "reading"

(* A slot marked as being read has an owner: a frame claimed on the way and  *)
(* not kept, one replaced, discarded or superseded by a resize is given      *)
(* back, or QEMU would run out of slots.                                     *)
NoSlotLeaks ==
    \A m \in Maps, s \in Slots : maps[m].slot[s].state = "reading" => <<m, s>> \in Owned

(* What the consumer shows is never older than what it showed before, in the *)
(* same mapping, whatever slots were claimed in which order.                 *)
NeverBackwards == [][ view'.map = view.map /\ view'.current # 0 =>
                        Generation(view.map, view.current)' >= view.last_frame ]_vars

(* When worker and program have come to rest, with nothing on the way, the   *)
(* program has claimed the newest frame: none is missed because its notice   *)
(* was merged with an older one, came during a claim, or followed a resize.  *)
Newest == IF writer.map = 0 THEN 0 ELSE maps[writer.map].frame_counter
AtRest == /\ Up /\ link.in = <<>> /\ worker.pc = "poll" /\ writer.slot = 0
          /\ ui.pc = "idle" /\ ~ui.notified
NewestShown == (AtRest /\ traffic = "frames") => view.last_frame = Newest

(* The worker never sleeps over queued input: blocked in a poll that does    *)
(* not wait for output, with events queued for a live connection, it has a   *)
(* wake byte to read.                                                        *)
NoStrandedInput ==
    (worker.pc = "poll" /\ ~worker.pollout /\ link.state = "up" /\ queue.events # <<>>) => wake

(* What QEMU will hold once everything on the way arrived is held by the     *)
(* user: neither an overflow nor a reconnect leaves a button down.           *)
Stream == link.out \o worker.partial \o queue.events
Among(list, kinds) == {i \in DOMAIN list : list[i].kind \in kinds}
Last(list, kinds) == {i \in Among(list, kinds) : \A j \in Among(list, kinds) : j <= i}
DownAfter(down, list) ==
    IF Among(list, {"btn", "reset"}) = {} THEN down
    ELSE \E i \in Last(list, {"btn", "reset"}) : list[i].kind = "btn" /\ list[i].value = 1
NoStuckButton ==
    Up => (DownAfter(qemu.down, Stream) => host.down)

(* Merging motion never moves it across a button: QEMU has seen exactly the  *)
(* motion sent before a button, or discarded since an overflow, when the     *)
(* button arrives.                                                           *)
RoutedInOrder == qemu.faithful

(* The first button after a connect finds the pointer routed as the user     *)
(* had set it before, although the button was queued concurrently with the   *)
(* connect; an overflow forgets the routing.                                 *)
RoutingRestored ==
    (qemu.pressed = "unset" /\ ~host.overflowed) => qemu.expected = "unset"

(* When all events arrived, QEMU routes the pointer as the user last asked,  *)
(* across reconnects and requests made while disconnected; an overflow       *)
(* forgets the request.                                                      *)
RoutingKnown ==
    (Up /\ queue.connected /\ Stream = <<>> /\ ~host.overflowed)
        => qemu.capture = queue.capture

(* A call told that QEMU was reset is told so of its own reset.              *)
BarrierHonest == barrier.ok \subseteq qemu.resets

(* No cursor is shown for a connection that is gone.                         *)
NoGhostCursor == mailbox.enabled => mapping.there

(* Neither a late position nor the position a shape was made at takes the    *)
(* cursor back, and no older shape replaces a newer one.                     *)
CursorForwards == [][ mapping.there /\ mapping'.there =>
                        /\ mapping'.shape >= mapping.shape
                        /\ mailbox'.position >= mailbox.position ]_vars

(* The program that drops the server joins the worker: a worker blocked in   *)
(* its poll after the stop has a wake byte to read.                          *)
StopWakes == (stop /\ worker.pc = "poll") => wake

(* The shared frames are sound: nobody writes what is read, every claim is   *)
(* given back, and the newest frame is the one that ends up shown.           *)
FramesOwned == TypeOK /\ ReadersUndisturbed /\ NoSlotLeaks /\ NewestShown

(* Nobody is left asleep or shown what is gone: the worker has a wake byte   *)
(* for queued input and for the stop, and no cursor outlives its connection. *)
WorkerWakes == NoStrandedInput /\ StopWakes /\ NoGhostCursor

(* Input ends in the state the user holds: no button is left down, motion    *)
(* and routing keep their place among the buttons, and a barrier answers for *)
(* its own reset.                                                            *)
InputFaithful ==
    NoStuckButton /\ RoutedInOrder /\ RoutingRestored /\ RoutingKnown /\ BarrierHonest

(* What is shown never goes back: neither to an older frame nor to an older  *)
(* cursor or position.                                                       *)
OnlyForwards == NeverBackwards /\ CursorForwards
=============================================================================
