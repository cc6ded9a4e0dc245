---------------------------- MODULE ShmemProofs ----------------------------
(***************************************************************************)
(* For every number of connections, mappings, frames, leases and events    *)
(* and every queue capacity: the shared-memory server and what it serves   *)
(* keep their frames, their input and their cursor sound.                  *)
(***************************************************************************)
EXTENDS ShmemServer, FiniteSetTheorems, SequenceTheorems, TLAPS

-----------------------------------------------------------------------------
(* Types. *)

Routing == {"unset", "abs", "rel"}
Plain_ == [kind : {"rel", "abs", "btn", "refresh", "reset"}, value : Nat, id : Nat, moved : Nat]
Event_ == Plain_ \cup [kind : {"capture"}, value : {"abs", "rel"}, id : Nat, moved : Nat]
Message_ == [kind : {"F", "C", "S", "P", "X", "A"}, id : Nat] \cup [kind : {"D"}, id : Maps]

InputTypes ==
  /\ queue \in [events : Seq(Event_), connected : BOOLEAN, refresh : Nat, capture : Routing]
  /\ ack \in [id : Nat, connected : BOOLEAN] /\ wake \in BOOLEAN
  /\ barrier \in [next : Nat \ {0}, waiting : Nat, ok : SUBSET Nat]
  /\ host \in [sent : Nat, sets : Nat, moved : Nat, down : BOOLEAN, overflowed : BOOLEAN]

Stations == {"top", "poll", "accept", "refill", "announce", "read", "look", "write", "drop",
             "announce_gone", "clear", "call", "exit", "exit_announce", "gone"}
ServerTypes ==
  /\ worker \in [pc : Stations, pollout : BOOLEAN, changed : BOOLEAN, partial : Seq(Event_)]
  /\ link \in [state : {"none", "asking", "up"}, in : Seq(Message_), out : Seq(Event_),
               gone : BOOLEAN]
  /\ qemu \in [connects : Nat, down : BOOLEAN, moved : Nat, capture : Routing,
               resets : SUBSET Nat, faithful : BOOLEAN, expected : Routing,
               pressed : Routing \cup {"none"}]
  /\ ui \in [pc : {"idle", "changed", "claim"}, notified : BOOLEAN]
  /\ stop \in BOOLEAN /\ traffic \in {"frames", "input", "resets", "cursor"}

Slot_ == [state : {"free", "writing", "ready", "reading"}, generation : Nat]
DisplayTypes ==
  /\ maps \in [Maps -> [slot : [Slots -> Slot_], frame_counter : Nat]]
  /\ writer \in [map : 0..MaxMaps, slot : 0..3, frames : Nat]
  /\ received \in 0..MaxMaps
  /\ view \in [map : 0..MaxMaps, current : 0..3, last_frame : Nat, notified : Nat]
  /\ scan = {} \/ \E c \in [next : 1..4, best : 0..3] : scan = {c}
  /\ held \subseteq Maps \X Slots
  /\ writer.slot # 0 => writer.map # 0
  /\ scan # {} \/ view.current # 0 => view.map # 0

CursorTypes ==
  /\ shapes \in [CursorSlots -> [state : {"free", "ready"}, generation : 0..MaxCursor, position : Nat]]
  /\ pointer \in [shape : 0..MaxCursor, position : Nat]
  /\ mapping \in [there : BOOLEAN, shape : 0..MaxCursor, position : Nat]
  /\ mailbox \in [there : BOOLEAN, shape : 0..MaxCursor, position : Nat, enabled : BOOLEAN,
                  revision : Nat]
  /\ look = {} \/ \E k \in [next : 1..4, generation : 0..MaxCursor, position : Nat] : look = {k}

Typed == InputTypes /\ ServerTypes /\ DisplayTypes /\ CursorTypes

LEMMA TypedInit == Init => Typed
<1> SUFFICES ASSUME Init PROVE Typed
  OBVIOUS
<1>1. /\ MaxMaps \in Nat /\ MaxCursor \in Nat
      /\ Traffic \subseteq {"frames", "input", "resets", "cursor"}
  BY DisplayAssumption, CursorAssumption, ServerAssumption
     DEF DisplayAssumption, CursorAssumption, ServerAssumption
<1>2. InputTypes
  <2>1. queue \in [events : Seq(Event_), connected : BOOLEAN, refresh : Nat, capture : Routing]
    BY DEF Init, InputInit, Routing
  <2>2. ack \in [id : Nat, connected : BOOLEAN] /\ wake \in BOOLEAN
    BY DEF Init, InputInit
  <2>3. barrier \in [next : Nat \ {0}, waiting : Nat, ok : SUBSET Nat]
    <3>1. {} \in SUBSET Nat
      OBVIOUS
    <3>2. QED
      BY <3>1 DEF Init, InputInit
  <2>4. host \in [sent : Nat, sets : Nat, moved : Nat, down : BOOLEAN, overflowed : BOOLEAN]
    BY DEF Init, InputInit
  <2>5. QED
    BY <2>1, <2>2, <2>3, <2>4 DEF InputTypes
<1>3. ServerTypes
  <2>1. worker \in [pc : Stations, pollout : BOOLEAN, changed : BOOLEAN, partial : Seq(Event_)]
    BY DEF Init, Stations
  <2>2. link \in [state : {"none", "asking", "up"}, in : Seq(Message_), out : Seq(Event_),
                  gone : BOOLEAN]
    BY DEF Init, NoLink
  <2>3. qemu \in [connects : Nat, down : BOOLEAN, moved : Nat, capture : Routing,
                  resets : SUBSET Nat, faithful : BOOLEAN, expected : Routing,
                  pressed : Routing \cup {"none"}]
    <3>1. {} \in SUBSET Nat
      OBVIOUS
    <3>2. QED
      BY <3>1 DEF Init, NoQemu, Routing
  <2>4. QED
    BY <1>1, <2>1, <2>2, <2>3 DEF ServerTypes, Init
<1>4. DisplayTypes
  BY <1>1 DEF Init, DisplayInit, NoView, DisplayTypes, Slot_, Slots
<1>5. CursorTypes
  BY <1>1 DEF Init, CursorInit, FreeShapes, NoMapping, CursorTypes
<1>6. QED
  BY <1>2, <1>3, <1>4, <1>5 DEF Typed

-----------------------------------------------------------------------------
(* The queue. *)

LEMMA Capacities == Capacity \in Nat /\ Capacity >= 2
BY InputAssumption DEF InputAssumption

(* What a push does: the last motion grows, an overflow leaves a reset and the event,
   or the event is appended. *)
Merged(events, e) ==
  [e EXCEPT !.value = IF e.kind = "rel" THEN @ + events[Len(events)].value ELSE @]

LEMMA PushCases ==
  ASSUME NEW events \in Seq(Event_), NEW e \in Event_, host.moved \in Nat
  PROVE  /\ PushedOn(events, e) \in Seq(Event_) /\ Len(PushedOn(events, e)) > 0
         /\ Len(events) <= Capacity => Len(PushedOn(events, e)) <= Capacity
         /\ ResetEvent(0) \in Event_ /\ Merged(events, e).kind = e.kind
         /\ Merged(events, e).moved = e.moved /\ Merged(events, e).id = e.id
         /\ \/ /\ Len(events) > 0 /\ Merges(events[Len(events)], e)
               /\ Merged(events, e) \in Event_
               /\ PushedOn(events, e) = [events EXCEPT ![Len(events)] = Merged(events, e)]
            \/ /\ Overflows(events, e)
               /\ ~(Len(events) > 0 /\ Merges(events[Len(events)], e))
               /\ PushedOn(events, e) = <<ResetEvent(0), e>>
            \/ /\ ~Overflows(events, e)
               /\ PushedOn(events, e) = Append(events, e)
<1> DEFINE n == Len(events)
           r == ResetEvent(0)
           m == Merged(events, e)
<1>1. r \in Event_ /\ n \in Nat /\ DOMAIN events = 1..n
  BY DEF ResetEvent, Event, Event_, Plain_
<1>2. m.kind = e.kind /\ m.moved = e.moved /\ m.id = e.id
  BY DEF Merged, Event_, Plain_
<1>3. ASSUME n > 0, Merges(events[n], e)
      PROVE  m \in Event_ /\ PushedOn(events, e) = [events EXCEPT ![n] = m]
  <2>1. events[n] \in Event_ /\ events[n].kind = e.kind /\ e.kind \in {"rel", "abs"}
    BY <1>1, <1>3 DEF Merges
  <2>2. e \in Plain_ /\ events[n] \in Plain_ /\ e.value \in Nat /\ events[n].value \in Nat
    BY <2>1 DEF Event_, Plain_
  <2>3. m = [kind |-> e.kind, id |-> e.id, moved |-> e.moved,
             value |-> IF e.kind = "rel" THEN e.value + events[n].value ELSE e.value]
    BY <2>2 DEF Merged, Plain_
  <2>4. m \in Event_
    BY <2>2, <2>3 DEF Event_, Plain_
  <2>5. QED
    BY <1>3, <2>4 DEF PushedOn, Merged
<1>4. ASSUME ~(n > 0 /\ Merges(events[n], e))
      PROVE  PushedOn(events, e) = IF Overflows(events, e) THEN <<r, e>> ELSE Append(events, e)
  BY <1>4 DEF PushedOn
<1> HIDE DEF m, r
<1>5. CASE n > 0 /\ Merges(events[n], e)
  <2>1. [events EXCEPT ![n] = m] \in Seq(Event_) /\ Len([events EXCEPT ![n] = m]) = n
    BY <1>1, <1>3, <1>5
  <2>2. QED
    BY <1>1, <1>2, <1>3, <1>5, <2>1 DEF m, r
<1>6. CASE ~(n > 0 /\ Merges(events[n], e)) /\ Overflows(events, e)
  <2>1. <<r, e>> \in Seq(Event_) /\ Len(<<r, e>>) = 2
    BY <1>1
  <2>2. PushedOn(events, e) = <<r, e>>
    BY <1>4, <1>6
  <2>3. Len(PushedOn(events, e)) = 2 /\ PushedOn(events, e) \in Seq(Event_)
    BY <2>1, <2>2
  <2>4. Len(PushedOn(events, e)) > 0 /\ Len(PushedOn(events, e)) <= Capacity
    BY <2>3, Capacities
  <2>5. QED
    BY <1>1, <1>2, <1>6, <2>2, <2>3, <2>4 DEF m, r
<1>7. CASE ~(n > 0 /\ Merges(events[n], e)) /\ ~Overflows(events, e)
  <2>1. Append(events, e) \in Seq(Event_) /\ Len(Append(events, e)) = n + 1
    OBVIOUS
  <2>2. n + 1 <= Capacity
    BY <1>1, <1>7, Capacities DEF Overflows
  <2>3. PushedOn(events, e) = Append(events, e)
    BY <1>4, <1>7
  <2>4. Len(PushedOn(events, e)) > 0 /\ Len(PushedOn(events, e)) <= Capacity
    BY <1>1, <2>1, <2>2, <2>3
  <2>5. QED
    BY <1>1, <1>2, <1>7, <2>1, <2>3, <2>4 DEF m, r
<1>8. QED
  BY <1>5, <1>6, <1>7

-----------------------------------------------------------------------------
(* Types: the input queue. *)

Queue_ == [events : Seq(Event_), connected : BOOLEAN, refresh : Nat, capture : Routing]
Host_ == [sent : Nat, sets : Nat, moved : Nat, down : BOOLEAN, overflowed : BOOLEAN]
Ack_ == [id : Nat, connected : BOOLEAN]

LEMMA SendTyped ==
  ASSUME Typed, NEW e \in Event_, e.kind \in {"rel", "abs", "btn", "reset"}, Send(e)
  PROVE  queue' \in Queue_ /\ wake' \in BOOLEAN /\ host' \in Host_
<1>1. queue \in Queue_ /\ wake \in BOOLEAN /\ host \in Host_
  BY DEF Typed, InputTypes, Queue_, Host_
<1>2. CASE ~queue.connected
  BY <1>1, <1>2 DEF Send
<1>3. CASE queue.connected
  <2>1. queue.events \in Seq(Event_) /\ host.moved \in Nat /\ e.value \in Nat
    BY <1>1 DEF Queue_, Host_, Event_, Plain_
  <2>2. PushedOn(queue.events, e) \in Seq(Event_)
    BY <2>1, PushCases
  <2>3. queue' \in Queue_
    BY <1>1, <1>3, <2>2 DEF Send, Queue_
  <2>4. wake' \in BOOLEAN
    BY <1>1, <1>3 DEF Send, Wakes
  <2>5. host' \in Host_
    <3>1. Lost(e) \in BOOLEAN
      BY DEF Lost
    <3>2. host' = [sent |-> host.sent + 1, sets |-> host.sets,
                   moved |-> IF e.kind = "rel" THEN host.moved + e.value ELSE host.moved,
                   down |-> IF e.kind = "btn" THEN e.value = 1 ELSE host.down,
                   overflowed |-> host.overflowed \/ Lost(e)]
      BY <1>1, <1>3 DEF Send, Host_
    <3>3. /\ (IF e.kind = "rel" THEN host.moved + e.value ELSE host.moved) \in Nat
          /\ host.sent + 1 \in Nat /\ host.sets \in Nat
      BY <1>1, <2>1 DEF Host_
    <3>4. (IF e.kind = "btn" THEN e.value = 1 ELSE host.down) \in BOOLEAN
      BY <1>1 DEF Host_
    <3>5. (host.overflowed \/ Lost(e)) \in BOOLEAN
      OBVIOUS
    <3> HIDE <3>1
    <3>6. QED
      BY ONLY <3>2, <3>3, <3>4, <3>5 DEF Host_
  <2>6. QED
    BY <2>3, <2>4, <2>5
<1>4. QED
  BY <1>2, <1>3

LEMMA SetTyped ==
  ASSUME Typed, NEW q \in Queue_, q.events = queue.events, NEW e \in Event_, SetHost(q, e)
  PROVE  queue' \in Queue_ /\ wake' \in BOOLEAN /\ host' \in Host_
<1>1. queue \in Queue_ /\ host \in Host_
  BY DEF Typed, InputTypes, Queue_, Host_
<1>2. PushedOn(queue.events, e) \in Seq(Event_)
  BY <1>1, PushCases DEF Queue_, Host_
<1>3. queue' \in Queue_
  BY <1>1, <1>2 DEF SetHost, Queue_
<1>4. host' \in Host_
  <2>1. Lost(e) \in BOOLEAN
    BY DEF Lost
  <2>2. (host.overflowed \/ (queue.connected /\ Lost(e))) \in BOOLEAN
    OBVIOUS
  <2>3. host' = [sent |-> host.sent, sets |-> host.sets + 1, moved |-> host.moved, down |-> host.down,
                 overflowed |-> host.overflowed \/ (queue.connected /\ Lost(e))]
    BY <1>1 DEF SetHost, Host_
  <2>4. host.sent \in Nat /\ host.sets + 1 \in Nat /\ host.moved \in Nat /\ host.down \in BOOLEAN
    BY <1>1 DEF Host_
  <2>5. QED
    BY ONLY <2>2, <2>3, <2>4 DEF Host_
<1>5. QED
  BY <1>3, <1>4 DEF SetHost

LEMMA RefillTyped ==
  ASSUME Typed, Reconnected
  PROVE  queue' \in Queue_
<1>1. queue \in Queue_ /\ host \in Host_ /\ queue.events \in Seq(Event_) /\ host.moved \in Nat
  BY DEF Typed, InputTypes, Queue_, Host_
<1> DEFINE r == Event("refresh", queue.refresh, 0)
           c == Event("capture", queue.capture, 0)
           e == IF queue.refresh = 0 THEN queue.events ELSE PushedOn(queue.events, r)
           f == IF Len(e) >= Capacity THEN <<ResetEvent(0)>> ELSE e
<1>2. r \in Event_ /\ ResetEvent(0) \in Event_
  BY <1>1 DEF Event, ResetEvent, Event_, Plain_, Queue_
<1>3. e \in Seq(Event_)
  BY <1>1, <1>2, PushCases
<1>4. f \in Seq(Event_)
  BY <1>2, <1>3
<1>5. ASSUME queue.capture # "unset"
      PROVE  CaptureFirst(f, c) \in Seq(Event_)
  <2>1. c \in Event_
    BY <1>1, <1>5 DEF Event, Event_, Plain_, Queue_, Routing
  <2>2. <<c>> \in Seq(Event_)
    BY <2>1
  <2>3. <<c>> \o f \in Seq(Event_)
    BY <1>4, <2>2
  <2>4. QED
    BY <2>3 DEF CaptureFirst
<1> HIDE DEF c, f, e
<1>6. queue' = IF queue.capture = "unset" THEN [queue EXCEPT !.events = e]
               ELSE [queue EXCEPT !.events = CaptureFirst(f, c)]
  BY DEF Reconnected, c, f, e
<1>7. QED
  BY <1>1, <1>3, <1>5, <1>6 DEF Queue_

LEMMA TrafficTyped ==
  ASSUME Typed, InputTraffic
  PROVE  InputTypes'
<1>1. /\ queue \in Queue_ /\ ack \in Ack_ /\ wake \in BOOLEAN /\ host \in Host_
      /\ barrier \in [next : Nat \ {0}, waiting : Nat, ok : SUBSET Nat] /\ host.moved \in Nat
      /\ barrier.next \in Nat /\ barrier.next + 1 \in Nat \ {0} /\ barrier.waiting \in Nat
      /\ barrier.ok \in SUBSET Nat
  BY DEF Typed, InputTypes, Queue_, Host_, Ack_
<1> USE DEF Queue_, Host_, Ack_
<1>2. ASSUME NEW kind \in {"rel", "abs"}, SendMotion(kind)
      PROVE  InputTypes'
  <2>1. Event(kind, 1, 0) \in Event_ /\ Event(kind, 1, 0).kind = kind
    BY <1>1 DEF Event, Event_, Plain_
  <2>2. Send(Event(kind, 1, 0)) /\ UNCHANGED <<ack, barrier>>
    BY <1>2 DEF SendMotion
  <2>3. queue' \in Queue_ /\ wake' \in BOOLEAN /\ host' \in Host_
    BY <2>1, <2>2, SendTyped
  <2>4. QED
    BY <1>1, <2>2, <2>3 DEF InputTypes
<1>3. ASSUME SendButton
      PROVE  InputTypes'
  <2> DEFINE e == Event("btn", IF host.down THEN 0 ELSE 1, 0)
  <2>1. e \in Event_ /\ e.kind = "btn"
    BY <1>1 DEF Event, Event_, Plain_
  <2>2. Send(e) /\ UNCHANGED <<ack, barrier>>
    BY <1>3 DEF SendButton
  <2>3. queue' \in Queue_ /\ wake' \in BOOLEAN /\ host' \in Host_
    BY <2>1, <2>2, SendTyped
  <2>4. QED
    BY <1>1, <2>2, <2>3 DEF InputTypes
<1>4. ASSUME SetMouseCapture
      PROVE  InputTypes'
  <2>1. PICK captured \in {"abs", "rel"} :
          SetHost([queue EXCEPT !.capture = captured], Event("capture", captured, 0))
    BY <1>4 DEF SetMouseCapture
  <2>2. /\ [queue EXCEPT !.capture = captured] \in Queue_
        /\ [queue EXCEPT !.capture = captured].events = queue.events
    BY <1>1 DEF Routing
  <2>3. Event("capture", captured, 0) \in Event_
    BY <1>1 DEF Event, Event_
  <2>4. queue' \in Queue_ /\ wake' \in BOOLEAN /\ host' \in Host_
    BY <2>1, <2>2, <2>3, SetTyped
  <2>5. QED
    BY <1>1, <2>1, <2>4 DEF InputTypes, SetHost
<1>5. ASSUME SetHostRefresh
      PROVE  InputTypes'
  <2>1. PICK rate \in 1..2 :
          SetHost([queue EXCEPT !.refresh = rate], Event("refresh", rate, 0))
    BY <1>5 DEF SetHostRefresh
  <2>2. /\ [queue EXCEPT !.refresh = rate] \in Queue_
        /\ [queue EXCEPT !.refresh = rate].events = queue.events
    BY <1>1
  <2>3. Event("refresh", rate, 0) \in Event_
    BY <1>1 DEF Event, Event_, Plain_
  <2>4. queue' \in Queue_ /\ wake' \in BOOLEAN /\ host' \in Host_
    BY <2>1, <2>2, <2>3, SetTyped
  <2>5. QED
    BY <1>1, <2>1, <2>4 DEF InputTypes, SetHost
<1>6. ASSUME ResetAndWait
      PROVE  InputTypes'
  <2> DEFINE e == ResetEvent(barrier.next)
  <2>1. e \in Event_ /\ e.kind = "reset"
    BY <1>1 DEF ResetEvent, Event, Event_, Plain_
  <2>2. Send(e) /\ UNCHANGED ack
    BY <1>6 DEF ResetAndWait
  <2>3. queue' \in Queue_ /\ wake' \in BOOLEAN /\ host' \in Host_
    BY <2>1, <2>2, SendTyped
  <2>4. barrier' \in [next : Nat \ {0}, waiting : Nat, ok : SUBSET Nat]
    BY <1>1, <1>6 DEF ResetAndWait
  <2>5. QED
    BY <1>1, <2>2, <2>3, <2>4 DEF InputTypes
<1>7. ASSUME WaitEnds
      PROVE  InputTypes'
  <2>1. barrier.ok \cup {barrier.waiting} \in SUBSET Nat
    BY <1>1
  <2>2. PICK ok \in {barrier.ok, barrier.ok \cup {barrier.waiting}} :
          barrier' = [barrier EXCEPT !.waiting = 0, !.ok = ok]
    BY <1>7 DEF WaitEnds
  <2>3. ok \in SUBSET Nat
    BY <1>1, <2>1
  <2>4. barrier' \in [next : Nat \ {0}, waiting : Nat, ok : SUBSET Nat]
    BY <1>1, <2>2, <2>3
  <2>5. QED
    BY <1>1, <1>7, <2>4 DEF InputTypes, WaitEnds
<1>8. QED
  BY <1>2, <1>3, <1>4, <1>5, <1>6, <1>7 DEF InputTraffic

-----------------------------------------------------------------------------
(* Types: the worker and the emulator. *)

Worker_ == [pc : Stations, pollout : BOOLEAN, changed : BOOLEAN, partial : Seq(Event_)]
Link_ == [state : {"none", "asking", "up"}, in : Seq(Message_), out : Seq(Event_), gone : BOOLEAN]
Qemu_ == [connects : Nat, down : BOOLEAN, moved : Nat, capture : Routing, resets : SUBSET Nat,
          faithful : BOOLEAN, expected : Routing, pressed : Routing \cup {"none"}]
Ui_ == [pc : {"idle", "changed", "claim"}, notified : BOOLEAN]

LEMMA NoQemuTyped ==
  ASSUME Typed
  PROVE  /\ NoLink \in Link_
         /\ [NoQemu EXCEPT !.connects = qemu.connects, !.resets = qemu.resets] \in Qemu_
<1>1. qemu \in Qemu_
  BY DEF Typed, ServerTypes, Qemu_
<1>2. {} \in SUBSET Nat
  OBVIOUS
<1>3. NoQemu \in Qemu_
  BY <1>2 DEF NoQemu, Qemu_, Routing
<1>4. [NoQemu EXCEPT !.connects = qemu.connects, !.resets = qemu.resets] \in Qemu_
  BY <1>1, <1>3 DEF Qemu_
<1>5. NoLink \in Link_
  BY DEF NoLink, Link_
<1>6. QED
  BY <1>4, <1>5

LEMMA TellTyped ==
  ASSUME Typed, NEW m \in Message_
  PROVE  Tell(m) \in Link_
<1>1. link \in Link_
  BY DEF Typed, ServerTypes, Link_
<1>2. Append(link.in, m) \in Seq(Message_)
  BY <1>1 DEF Link_
<1>3. QED
  BY <1>1, <1>2 DEF Tell, Link_

LEMMA QemuTyped ==
  ASSUME Typed, Qemu
  PROVE  InputTypes' /\ ServerTypes'
<1>1. /\ worker \in Worker_ /\ link \in Link_ /\ qemu \in Qemu_ /\ ui \in Ui_
      /\ stop \in BOOLEAN /\ traffic \in {"frames", "input", "resets", "cursor"}
      /\ link.in \in Seq(Message_) /\ link.out \in Seq(Event_) /\ qemu.connects + 1 \in Nat
      /\ writer.map \in Nat /\ pointer.position + 1 \in Nat /\ host.moved \in Nat
  <2>1. /\ worker \in Worker_ /\ link \in Link_ /\ qemu \in Qemu_ /\ ui \in Ui_
        /\ stop \in BOOLEAN /\ traffic \in {"frames", "input", "resets", "cursor"}
        /\ link.in \in Seq(Message_) /\ link.out \in Seq(Event_) /\ qemu.connects + 1 \in Nat
    BY DEF Typed, ServerTypes, Worker_, Link_, Qemu_, Ui_
  <2>2. writer.map \in Nat /\ pointer.position \in Nat /\ host.moved \in Nat
    BY DisplayAssumption DEF Typed, DisplayTypes, CursorTypes, InputTypes, DisplayAssumption
  <2>3. QED
    BY <2>1, <2>2
<1>2. ASSUME UNCHANGED <<input, worker, ui, stop, traffic>>, link' \in Link_, qemu' \in Qemu_
      PROVE  InputTypes' /\ ServerTypes'
  <2>1. InputTypes'
    BY <1>2 DEF Typed, InputTypes, input
  <2>2. ServerTypes'
    BY <1>1, <1>2 DEF ServerTypes, Worker_, Link_, Qemu_, Ui_
  <2>3. QED
    BY <2>1, <2>2
<1>3. /\ \A kind \in {"F", "C", "S", "P", "X", "A"}, id \in Nat : Message(kind, id) \in Message_
      /\ \A id \in Maps : Message("D", id) \in Message_
  BY DEF Message, Message_
<1>4. CASE Connect
  <2>1. link' \in Link_ /\ qemu' \in Qemu_
    BY <1>1, <1>4 DEF Connect, Link_, Qemu_
  <2>2. QED
    BY <1>2, <1>4, <2>1 DEF Connect
<1>5. CASE Leave
  <2>1. link' \in Link_ /\ qemu' \in Qemu_
    <3>1. link' = [link EXCEPT !.gone = TRUE, !.out = <<>>]
      BY <1>5 DEF Leave
    <3>2. <<>> \in Seq(Event_)
      OBVIOUS
    <3>3. link' \in Link_
      BY <1>1, <3>1, <3>2 DEF Link_
    <3>4. QED
      BY <1>5, <3>3, NoQemuTyped DEF Leave
  <2>2. QED
    BY <1>2, <1>5, <2>1 DEF Leave
<1>6. CASE Resize
  <2>1. writer.map + 1 \in Maps
    BY <1>1, <1>6, DisplayAssumption DEF Resize, NewMap, Maps, DisplayAssumption
  <2>2. link' \in Link_
    BY <1>3, <1>6, <2>1, TellTyped DEF Resize
  <2>3. QED
    BY <1>1, <1>2, <1>6, <2>2 DEF Resize
<1>7. CASE Draw
  <2>1. Message("F", 0) \in Message_
    BY <1>3
  <2>2. link' \in Link_
    BY <1>1, <1>7, <2>1, TellTyped DEF Draw
  <2>3. QED
    BY <1>1, <1>2, <1>7, <2>2 DEF Draw
<1>8. CASE Point
  <2>1. /\ Message("C", 0) \in Message_ /\ Message("S", 0) \in Message_
        /\ Message("P", pointer.position + 1) \in Message_
    BY <1>1, <1>3
  <2>2. link' \in Link_
    BY <1>8, <2>1, TellTyped DEF Point
  <2>3. QED
    BY <1>1, <1>2, <1>8, <2>2 DEF Point
<1>9. CASE Malformed
  <2>1. Message("X", 0) \in Message_
    BY <1>3
  <2>2. link' \in Link_
    BY <1>9, <2>1, TellTyped DEF Malformed
  <2>3. QED
    BY <1>1, <1>2, <1>9, <2>2 DEF Malformed
<1>10. CASE Consume
  <2> DEFINE e == Head(link.out)
  <2>1. e \in Event_ /\ Tail(link.out) \in Seq(Event_)
    BY <1>1, <1>10 DEF Consume
  <2>2. /\ e.id \in Nat /\ e.moved \in Nat /\ (e.kind = "rel" => e.value \in Nat)
        /\ (e.kind = "capture" => e.value \in Routing)
    BY <2>1 DEF Event_, Plain_, Routing
  <2>3. Append(link.in, Message("A", e.id)) \in Seq(Message_)
    BY <1>1, <1>3, <2>2
  <2> HIDE DEF e
  <2>4. link' = [link EXCEPT !.out = Tail(@),
                       !.in = IF e.kind = "reset" THEN Append(@, Message("A", e.id)) ELSE @]
    BY <1>10 DEF Consume, e
  <2>5. link' \in Link_
    BY <1>1, <2>1, <2>3, <2>4 DEF Link_
  <2>6. qemu' \in Qemu_
    <3>1. qemu' =
            [connects |-> qemu.connects,
             down |-> CASE e.kind = "btn" -> e.value = 1 [] e.kind = "reset" -> FALSE
                        [] OTHER -> qemu.down,
             moved |-> CASE e.kind = "rel" -> qemu.moved + e.value
                         [] e.kind = "reset" -> e.moved [] OTHER -> qemu.moved,
             capture |-> IF e.kind = "capture" THEN e.value ELSE qemu.capture,
             resets |-> IF e.kind = "reset" THEN qemu.resets \cup {e.id} ELSE qemu.resets,
             faithful |-> qemu.faithful /\ (e.kind = "btn" => qemu.moved = e.moved),
             expected |-> qemu.expected,
             pressed |-> IF e.kind = "btn" /\ qemu.pressed = "none" THEN qemu.capture
                         ELSE qemu.pressed]
      BY <1>1, <1>10 DEF Consume, e, Qemu_
    <3>2. /\ (CASE e.kind = "rel" -> qemu.moved + e.value
                [] e.kind = "reset" -> e.moved [] OTHER -> qemu.moved) \in Nat
          /\ (IF e.kind = "capture" THEN e.value ELSE qemu.capture) \in Routing
          /\ (IF e.kind = "btn" /\ qemu.pressed = "none" THEN qemu.capture
              ELSE qemu.pressed) \in Routing \cup {"none"}
          /\ qemu.connects \in Nat /\ qemu.expected \in Routing
      BY <1>1, <2>2 DEF Qemu_
    <3>3. /\ (CASE e.kind = "btn" -> e.value = 1 [] e.kind = "reset" -> FALSE
                [] OTHER -> qemu.down) \in BOOLEAN
          /\ (qemu.faithful /\ (e.kind = "btn" => qemu.moved = e.moved)) \in BOOLEAN
      BY <1>1 DEF Qemu_
    <3>4. (IF e.kind = "reset" THEN qemu.resets \cup {e.id} ELSE qemu.resets) \in SUBSET Nat
      BY <1>1, <2>2 DEF Qemu_
    <3>5. QED
      BY ONLY <3>1, <3>2, <3>3, <3>4 DEF Qemu_
  <2>7. QED
    BY <1>2, <1>10, <2>5, <2>6 DEF Consume
<1>11. QED
  BY <1>4, <1>5, <1>6, <1>7, <1>8, <1>9, <1>10 DEF Qemu

LEMMA WorkerTyped ==
  ASSUME Typed, Worker
  PROVE  InputTypes' /\ ServerTypes'
<1>1. /\ worker \in Worker_ /\ link \in Link_ /\ qemu \in Qemu_ /\ ui \in Ui_
      /\ queue \in Queue_ /\ ack \in Ack_ /\ wake \in BOOLEAN /\ host \in Host_
      /\ barrier \in [next : Nat \ {0}, waiting : Nat, ok : SUBSET Nat]
      /\ stop \in BOOLEAN /\ traffic \in {"frames", "input", "resets", "cursor"}
      /\ link.in \in Seq(Message_) /\ link.out \in Seq(Event_) /\ worker.partial \in Seq(Event_)
      /\ queue.events \in Seq(Event_) /\ host.moved \in Nat /\ queue.capture \in Routing
  BY DEF Typed, ServerTypes, InputTypes, Worker_, Link_, Qemu_, Ui_, Queue_, Ack_, Host_
<1>2. writer.map # 0 => writer.map \in Maps
  BY DisplayAssumption DEF Typed, DisplayTypes, DisplayAssumption, Maps
<1>3. ASSUME UNCHANGED input PROVE InputTypes'
  BY <1>3 DEF Typed, InputTypes, input
<1>4. ASSUME UNCHANGED <<ack, wake, barrier, host>>, queue' \in Queue_
      PROVE  InputTypes'
  BY <1>1, <1>4 DEF InputTypes, Queue_, Ack_, Host_
<1>5. ASSUME UNCHANGED <<queue, wake, barrier, host>>, ack' \in Ack_
      PROVE  InputTypes'
  BY <1>1, <1>5 DEF InputTypes, Queue_, Ack_, Host_
<1>6. ASSUME UNCHANGED <<stop, traffic>>, worker' \in Worker_, link' \in Link_, qemu' \in Qemu_,
             ui' \in Ui_
      PROVE  ServerTypes'
  BY <1>1, <1>6 DEF ServerTypes, Worker_, Link_, Qemu_, Ui_
<1>7. ASSUME NEW pc \in Stations, Goto(pc) \/ Change(pc) PROVE worker' \in Worker_
  BY <1>1, <1>7 DEF Goto, Change, Worker_
<1>8. CASE Top
  <2>1. (worker.partial # <<>> \/ queue.events # <<>>) \in BOOLEAN
    OBVIOUS
  <2>2. worker' \in Worker_
    BY <1>1, <1>8, <2>1 DEF Top, Worker_, Stations
  <2>3. QED
    BY <1>1, <1>3, <1>6, <1>8, <2>2 DEF Top
<1>9. CASE Poll
  <2>1. \E pc \in Stations : Goto(pc)
    BY <1>9 DEF Poll, Stations
  <2>2. worker' \in Worker_
    BY <1>7, <2>1
  <2>3. InputTypes'
    BY <1>1, <1>9 DEF Poll, InputTypes, Queue_, Ack_, Host_
  <2>4. QED
    BY <1>1, <1>6, <1>9, <2>2, <2>3 DEF Poll
<1>10. CASE Accept
  <2>1. queue' \in Queue_
    BY <1>1, <1>10 DEF Accept, Queue_
  <2>2. qemu' \in Qemu_
    BY <1>1, <1>10 DEF Accept, Qemu_, Routing
  <2>3. worker' \in Worker_
    BY <1>7, <1>10 DEF Accept, Stations
  <2>4. QED
    BY <1>1, <1>4, <1>6, <1>10, <2>1, <2>2, <2>3 DEF Accept
<1>11. CASE Refill
  <2>1. queue' \in Queue_
    BY <1>11, RefillTyped DEF Refill
  <2>2. worker' \in Worker_
    BY <1>7, <1>11 DEF Refill, Stations
  <2>3. QED
    BY <1>1, <1>4, <1>6, <1>11, <2>1, <2>2 DEF Refill
<1>12. CASE AnnounceUp
  <2>1. ack' \in Ack_
    BY <1>1, <1>12 DEF AnnounceUp, Announce, Ack_
  <2>2. writer.map # 0 => Message("D", writer.map) \in Message_
    BY <1>2 DEF Message, Message_
  <2>3. (IF writer.map = 0 THEN <<>> ELSE <<Message("D", writer.map)>>) \in Seq(Message_)
    BY <2>2
  <2>4. link' \in Link_
    <3> DEFINE in == IF writer.map = 0 THEN <<>> ELSE <<Message("D", writer.map)>>
    <3>1. in \in Seq(Message_)
      BY <2>3
    <3> HIDE DEF in
    <3>2. link' = [NoLink EXCEPT !.state = "up", !.in = in]
      BY <1>12 DEF AnnounceUp, in
    <3>3. QED
      BY <3>1, <3>2, NoQemuTyped DEF Link_
  <2>5. worker' \in Worker_
    BY <1>7, <1>12 DEF AnnounceUp, Stations
  <2>6. QED
    BY <1>1, <1>5, <1>6, <1>12, <2>1, <2>4, <2>5 DEF AnnounceUp
<1>13. CASE Read
  <2>1. CASE link.in = <<>>
    <3>1. worker' \in Worker_
      BY <1>7, <1>13, <2>1 DEF Read, Stations
    <3>2. QED
      BY <1>1, <1>3, <1>6, <1>13, <2>1, <3>1 DEF Read
  <2>2. CASE link.in # <<>>
    <3> DEFINE m == Head(link.in)
               lost == m.kind = "X" \/ (m.kind \in {"S", "P"} /\ ~mapping.there)
    <3>1. m \in Message_ /\ Tail(link.in) \in Seq(Message_)
      BY <1>1, <2>2
    <3>2. link' \in Link_
      BY <1>1, <1>13, <2>2, <3>1 DEF Read, Link_
    <3>3. \/ lost /\ Goto("drop") /\ UNCHANGED input
          \/ ~lost /\ m.kind = "S" /\ Goto("look") /\ UNCHANGED input
          \/ ~lost /\ m.kind = "P" /\ (Change("read") \/ UNCHANGED worker) /\ UNCHANGED input
          \/ m.kind = "C" /\ Change("read") /\ UNCHANGED input
          \/ m.kind = "A" /\ UNCHANGED worker /\ Acknowledge(m.id)
             /\ UNCHANGED <<queue, wake, barrier, host>>
          \/ m.kind \in {"F", "D"} /\ Change("read") /\ UNCHANGED input
      <4>1. m.kind \in {"D", "F", "C", "S", "P", "X", "A"}
        BY <3>1 DEF Message_
      <4>2. CASE lost
        BY <1>13, <2>2, <4>2 DEF Read
      <4>3. CASE ~lost /\ m.kind \in {"S", "P"}
        BY <1>13, <2>2, <4>3 DEF Read
      <4>4. CASE ~lost /\ m.kind \in {"C", "A", "F", "D"}
        BY <1>13, <2>2, <4>4 DEF Read
      <4>5. QED
        BY <4>1, <4>2, <4>3, <4>4
    <3> HIDE DEF m, lost
    <3>4. worker' \in Worker_
      BY <1>1, <1>7, <3>3 DEF Stations
    <3>5. InputTypes'
      <4>1. CASE UNCHANGED input
        BY <1>3, <4>1
      <4>2. CASE m.kind = "A" /\ Acknowledge(m.id) /\ UNCHANGED <<queue, wake, barrier, host>>
        <5>1. m.id \in Nat
          BY <3>1, <4>2 DEF Message_
        <5>2. ack' \in Ack_
          BY <1>1, <4>2, <5>1 DEF Acknowledge, Ack_
        <5>3. QED
          BY <1>5, <4>2, <5>2
      <4>3. QED
        BY <3>3, <4>1, <4>2
    <3>6. QED
      BY <1>1, <1>6, <1>13, <3>2, <3>4, <3>5 DEF Read
  <2>3. QED
    BY <2>1, <2>2
<1>14. CASE Look
  <2>1. worker' \in Worker_
    BY <1>1, <1>7, <1>14 DEF Look, Stations
  <2>2. QED
    BY <1>1, <1>3, <1>6, <1>14, <2>1 DEF Look
<1>15. CASE Fill
  <2>1. CASE queue.events = <<>>
    <3>1. worker' \in Worker_
      BY <1>7, <1>15, <2>1 DEF Fill, Stations
    <3>2. QED
      BY <1>1, <1>4, <1>6, <1>15, <2>1, <3>1 DEF Fill
  <2>2. CASE queue.events # <<>>
    <3>1. Head(queue.events) \in Event_ /\ Tail(queue.events) \in Seq(Event_)
      BY <1>1, <2>2
    <3>2. <<Head(queue.events)>> \in Seq(Event_)
      BY <3>1
    <3>3. worker' \in Worker_ /\ queue' \in Queue_
      <4> DEFINE first == <<Head(queue.events)>>
                 rest == Tail(queue.events)
      <4>1. first \in Seq(Event_) /\ rest \in Seq(Event_)
        BY <3>1, <3>2
      <4> HIDE DEF first, rest
      <4>2. worker' = [worker EXCEPT !.partial = first] /\ queue' = [queue EXCEPT !.events = rest]
        BY <1>15, <2>2 DEF Fill, first, rest
      <4>3. QED
        BY <1>1, <4>1, <4>2 DEF Worker_, Queue_
    <3>4. QED
      BY <1>1, <1>4, <1>6, <1>15, <3>3 DEF Fill
  <2>3. QED
    BY <2>1, <2>2
<1>16. CASE Write
  <2>1. link.out \o worker.partial \in Seq(Event_) /\ <<>> \in Seq(Event_)
    BY <1>1
  <2>2. link' \in Link_
    BY <1>1, <1>16, <2>1 DEF Write, Link_
  <2>3. worker' \in Worker_
    BY <1>1, <1>7, <1>16, <2>1 DEF Write, Worker_, Stations
  <2>4. QED
    BY <1>1, <1>3, <1>6, <1>16, <2>2, <2>3 DEF Write
<1>17. CASE DropClient
  <2>1. <<>> \in Seq(Event_)
    OBVIOUS
  <2>2. link' \in Link_
    BY <1>17, NoQemuTyped DEF DropClient
  <2>3. worker' \in Worker_
    BY <1>1, <1>17, <2>1 DEF DropClient, Worker_, Stations
  <2>4. QED
    BY <1>1, <1>3, <1>6, <1>17, <2>2, <2>3 DEF DropClient
<1>18. CASE AnnounceGone
  <2>1. ack' \in Ack_
    BY <1>1, <1>18 DEF AnnounceGone, Announce, Ack_
  <2>2. worker' \in Worker_
    BY <1>7, <1>18 DEF AnnounceGone, Stations
  <2>3. QED
    BY <1>1, <1>5, <1>6, <1>18, <2>1, <2>2 DEF AnnounceGone
<1>19. CASE Clear
  <2>1. <<>> \in Seq(Event_)
    OBVIOUS
  <2>2. queue' \in Queue_
    BY <1>1, <1>19, <2>1 DEF Clear, Queue_
  <2>3. worker' \in Worker_
    BY <1>7, <1>19 DEF Clear, Stations
  <2>4. QED
    BY <1>1, <1>4, <1>6, <1>19, <2>2, <2>3 DEF Clear
<1>20. CASE Call
  <2>1. (ui.notified \/ (worker.changed /\ traffic = "frames")) \in BOOLEAN
    OBVIOUS
  <2>2. ui' \in Ui_
    BY <1>1, <1>20, <2>1 DEF Call, Ui_
  <2>3. worker' \in Worker_
    BY <1>7, <1>20 DEF Call, Stations
  <2>4. QED
    BY <1>1, <1>3, <1>6, <1>20, <2>2, <2>3 DEF Call
<1>21. CASE Exit
  <2>1. queue' \in Queue_
    BY <1>1, <1>21 DEF Exit, Queue_
  <2>2. worker' \in Worker_
    BY <1>7, <1>21 DEF Exit, Stations
  <2>3. QED
    BY <1>1, <1>4, <1>6, <1>21, <2>1, <2>2 DEF Exit
<1>22. CASE ExitAnnounce
  <2>1. ack' \in Ack_
    BY <1>1, <1>22 DEF ExitAnnounce, Announce, Ack_
  <2>2. link' \in Link_
    BY <1>22, NoQemuTyped DEF ExitAnnounce
  <2>3. worker' \in Worker_
    BY <1>7, <1>22 DEF ExitAnnounce, Stations
  <2>4. QED
    BY <1>1, <1>5, <1>6, <1>22, <2>1, <2>2, <2>3 DEF ExitAnnounce
<1>23. QED
  BY <1>8, <1>9, <1>10, <1>11, <1>12, <1>13, <1>14, <1>15, <1>16, <1>17, <1>18, <1>19, <1>20,
     <1>21, <1>22 DEF Worker

LEMMA ProgramTyped ==
  ASSUME Typed, Program
  PROVE  InputTypes' /\ ServerTypes'
<1>1. /\ worker \in Worker_ /\ link \in Link_ /\ qemu \in Qemu_ /\ ui \in Ui_
      /\ stop \in BOOLEAN /\ traffic \in {"frames", "input", "resets", "cursor"}
  BY DEF Typed, ServerTypes, Worker_, Link_, Qemu_, Ui_
<1>2. ASSUME UNCHANGED <<worker, link, qemu, traffic>>, stop' \in BOOLEAN, ui' \in Ui_
      PROVE  ServerTypes'
  BY <1>1, <1>2 DEF ServerTypes, Worker_, Link_, Qemu_, Ui_
<1>3. ASSUME UNCHANGED <<queue, ack, barrier, host>>, wake' \in BOOLEAN PROVE InputTypes'
  BY <1>3 DEF Typed, InputTypes
<1>4. CASE Stop
  BY <1>1, <1>2, <1>3, <1>4 DEF Stop, Stops
<1>5. CASE InputTraffic
  BY <1>1, <1>2, <1>5, TrafficTyped DEF InputTraffic
<1>6. CASE UiPoll \/ UiChanged \/ UiLook \/ UiClaim \/ UiDrops
  <2>1. UNCHANGED input /\ UNCHANGED <<worker, link, qemu, stop, traffic>>
    BY <1>6 DEF UiPoll, UiChanged, UiLook, UiClaim, UiDrops
  <2>2. ui' \in Ui_
    <3>1. CASE UiPoll
      BY <1>1, <3>1 DEF UiPoll, Ui_
    <3>2. CASE UiChanged
      BY <1>1, <3>2 DEF UiChanged, UiGoto, Ui_
    <3>3. CASE UiLook
      BY <1>1, <3>3 DEF UiLook, UiGoto, Ui_
    <3>4. CASE UiClaim
      BY <1>1, <3>4 DEF UiClaim, UiGoto, Ui_
    <3>5. CASE UiDrops
      BY <1>1, <3>5 DEF UiDrops
    <3>6. QED
      BY <1>6, <3>1, <3>2, <3>3, <3>4, <3>5
  <2>3. InputTypes'
    BY <2>1 DEF Typed, InputTypes, input
  <2>4. QED
    BY <1>1, <1>2, <2>1, <2>2, <2>3
<1>7. QED
  BY <1>4, <1>5, <1>6 DEF Program

-----------------------------------------------------------------------------
(* Types: the display and the cursor. *)

Map_ == [slot : [Slots -> Slot_], frame_counter : Nat]
Writer_ == [map : 0..MaxMaps, slot : 0..3, frames : Nat]
View_ == [map : 0..MaxMaps, current : 0..3, last_frame : Nat, notified : Nat]
Scan_ == [next : 1..4, best : 0..3]

LEMMA DisplayTyped ==
  ASSUME Typed
  PROVE  /\ MaxMaps \in Nat /\ maps \in [Maps -> Map_] /\ writer \in Writer_ /\ view \in View_
         /\ received \in 0..MaxMaps /\ held \subseteq Maps \X Slots
         /\ scan = {} \/ \E c \in Scan_ : scan = {c}
         /\ writer.slot # 0 => writer.map \in Maps /\ writer.slot \in Slots
         /\ writer.map # 0 => writer.map \in Maps
         /\ received # 0 => received \in Maps
         /\ view.map # 0 => view.map \in Maps
         /\ scan # {} \/ view.current # 0 => view.map \in Maps
         /\ view.current # 0 => view.current \in Slots
         /\ \A m \in Maps : maps[m].frame_counter \in Nat
         /\ \A m \in Maps, s \in Slots : maps[m].slot[s] \in Slot_ /\ Generation(m, s) \in Nat
         /\ view.last_frame \in Nat /\ view.notified \in Nat /\ writer.frames \in Nat
<1>1. /\ MaxMaps \in Nat /\ maps \in [Maps -> Map_] /\ writer \in Writer_ /\ view \in View_
      /\ received \in 0..MaxMaps /\ held \subseteq Maps \X Slots
      /\ scan = {} \/ \E c \in Scan_ : scan = {c}
      /\ writer.slot # 0 => writer.map # 0
      /\ scan # {} \/ view.current # 0 => view.map # 0
  BY DisplayAssumption DEF DisplayAssumption, Typed, DisplayTypes, Map_, Writer_, View_, Scan_
<1>2. /\ writer.map \in 0..MaxMaps /\ writer.slot \in 0..3 /\ writer.frames \in Nat
      /\ view.map \in 0..MaxMaps /\ view.current \in 0..3 /\ view.last_frame \in Nat
      /\ view.notified \in Nat
  BY <1>1 DEF Writer_, View_
<1>3. \A m \in Maps : maps[m].frame_counter \in Nat /\ maps[m].slot \in [Slots -> Slot_]
  BY <1>1 DEF Map_
<1>4. \A m \in Maps, s \in Slots : maps[m].slot[s] \in Slot_ /\ Generation(m, s) \in Nat
  BY <1>3 DEF Slot_, Generation
<1>5. \A n \in 0..MaxMaps : n # 0 => n \in Maps
  BY <1>1 DEF Maps
<1>6. \A n \in 0..3 : n # 0 => n \in Slots
  BY DEF Slots
<1>7. QED
  BY <1>1, <1>2, <1>3, <1>4, <1>5, <1>6

(* What Dropping changes: the words of the frames that lost their last owner. *)
LEMMA DroppingEffect ==
  ASSUME NEW M \in [Maps -> Map_], NEW v, NEW c, NEW h
  PROVE  /\ Dropping(M, v, c, h) \in [Maps -> Map_]
         /\ \A m \in Maps : Dropping(M, v, c, h)[m].frame_counter = M[m].frame_counter
         /\ \A m \in Maps, s \in Slots :
              /\ Dropping(M, v, c, h)[m].slot[s].generation = M[m].slot[s].generation
              /\ Dropping(M, v, c, h)[m].slot[s].state =
                   IF <<m, s>> \in OwnersOf(view, scan, held) /\ <<m, s>> \notin OwnersOf(v, c, h)
                   THEN "free" ELSE M[m].slot[s].state
<1> DEFINE gone == OwnersOf(view, scan, held) \ OwnersOf(v, c, h)
           D == Dropping(M, v, c, h)
           word(m, s) == IF <<m, s>> \in gone THEN [M[m].slot[s] EXCEPT !.state = "free"]
                         ELSE M[m].slot[s]
<1> HIDE DEF gone
<1>1. D = [m \in Maps |-> [M[m] EXCEPT !.slot = [s \in Slots |-> word(m, s)]]]
  BY DEF Dropping, gone
<1>2. ASSUME NEW m \in Maps, NEW s \in Slots
      PROVE  /\ word(m, s) \in Slot_ /\ word(m, s).generation = M[m].slot[s].generation
             /\ word(m, s).state = IF <<m, s>> \in gone THEN "free" ELSE M[m].slot[s].state
  <2>1. M[m].slot[s] \in Slot_
    BY DEF Map_
  <2>2. QED
    BY <2>1 DEF Slot_
<1> HIDE DEF word, D
<1>3. ASSUME NEW m \in Maps
      PROVE  /\ D[m] \in Map_ /\ D[m].frame_counter = M[m].frame_counter
             /\ \A s \in Slots : D[m].slot[s] = word(m, s)
  <2>1. D[m] = [M[m] EXCEPT !.slot = [s \in Slots |-> word(m, s)]]
    BY <1>1
  <2>2. [s \in Slots |-> word(m, s)] \in [Slots -> Slot_]
    BY <1>2
  <2>3. QED
    BY <2>1, <2>2 DEF Map_
<1>4. D \in [Maps -> Map_]
  BY <1>1, <1>3
<1>5. QED
  BY <1>2, <1>3, <1>4 DEF D, gone

LEMMA OwnersTyped ==
  ASSUME Typed
  PROVE  OwnersOf(view, scan, held) \subseteq Maps \X Slots
<1>1. view.current # 0 => <<view.map, view.current>> \in Maps \X Slots
  BY DisplayTyped
<1>2. ASSUME NEW k \in scan, k.best # 0
      PROVE  <<view.map, k.best>> \in Maps \X Slots
  <2>1. k.best \in 0..3 /\ view.map \in Maps
    BY <1>2, DisplayTyped DEF Scan_
  <2>2. QED
    BY <1>2, <2>1 DEF Slots
<1>3. QED
  BY <1>1, <1>2, DisplayTyped DEF OwnersOf

-----------------------------------------------------------------------------
(* Ownership.  A slot is marked as being read exactly while its frame has an owner,
   and as being written exactly while QEMU writes it. *)

ReadingInv ==
  \A m \in Maps, s \in Slots : maps[m].slot[s].state = "reading" <=> <<m, s>> \in Owned
WritingInv ==
  \A m \in Maps, s \in Slots :
    maps[m].slot[s].state = "writing" <=> m = writer.map /\ s = writer.slot
OwnerInv == ReadingInv /\ WritingInv

(* Dropping owners keeps that, for the owners that are left. *)
LEMMA OwnersFollow ==
  ASSUME Typed, OwnerInv, NEW v, NEW c, NEW h, OwnersOf(v, c, h) \subseteq Owned
  PROVE  /\ Dropping(maps, v, c, h) \in [Maps -> Map_]
         /\ \A m \in Maps, s \in Slots :
              /\ Dropping(maps, v, c, h)[m].slot[s].state = "reading" <=> <<m, s>> \in OwnersOf(v, c, h)
              /\ Dropping(maps, v, c, h)[m].slot[s].state = "writing" <=> m = writer.map /\ s = writer.slot
<1>1. maps \in [Maps -> Map_]
  BY DisplayTyped
<1> DEFINE D == Dropping(maps, v, c, h)
<1>2. /\ D \in [Maps -> Map_]
      /\ \A m \in Maps, s \in Slots : D[m].slot[s].state =
           IF <<m, s>> \in OwnersOf(view, scan, held) /\ <<m, s>> \notin OwnersOf(v, c, h)
           THEN "free" ELSE maps[m].slot[s].state
  BY <1>1, DroppingEffect
<1> HIDE DEF D
<1>3. ASSUME NEW m \in Maps, NEW s \in Slots
      PROVE  /\ D[m].slot[s].state = "reading" <=> <<m, s>> \in OwnersOf(v, c, h)
             /\ D[m].slot[s].state = "writing" <=> m = writer.map /\ s = writer.slot
  <2>1. maps[m].slot[s].state = "reading" <=> <<m, s>> \in OwnersOf(view, scan, held)
    BY DEF OwnerInv, ReadingInv, Owned
  <2>2. maps[m].slot[s].state = "writing" <=> m = writer.map /\ s = writer.slot
    BY DEF OwnerInv, WritingInv
  <2>3. <<m, s>> \in OwnersOf(v, c, h) => <<m, s>> \in OwnersOf(view, scan, held)
    BY DEF Owned
  <2>4. QED
    BY <1>2, <2>1, <2>2, <2>3
<1>4. QED
  BY <1>2, <1>3 DEF D

(* A step of the consumer that only lets owners go. *)
LEMMA OwnersDrop ==
  ASSUME Typed, OwnerInv, UNCHANGED writer, maps' = Dropping(maps, view', scan', held'),
         OwnersOf(view', scan', held') \subseteq Owned
  PROVE  maps' \in [Maps -> Map_] /\ OwnerInv'
<1>1. /\ maps' \in [Maps -> Map_]
      /\ \A m \in Maps, s \in Slots :
           /\ maps'[m].slot[s].state = "reading" <=> <<m, s>> \in OwnersOf(view', scan', held')
           /\ maps'[m].slot[s].state = "writing" <=> m = writer.map /\ s = writer.slot
  BY OwnersFollow
<1>2. Owned' = OwnersOf(view', scan', held')
  BY DEF Owned, OwnersOf
<1>3. ReadingInv'
  BY <1>1, <1>2 DEF ReadingInv
<1>4. WritingInv'
  BY <1>1 DEF WritingInv
<1>5. QED
  BY <1>1, <1>3, <1>4 DEF OwnerInv

(* One word of a mapping is set. *)
Sets(M, N, m, s, w) == N = [M EXCEPT ![m].slot[s].state = w]

LEMMA WordSet ==
  ASSUME NEW M \in [Maps -> Map_], NEW m \in Maps, NEW s \in Slots,
         NEW w \in {"free", "writing", "ready", "reading"},
         NEW N, Sets(M, N, m, s, w)
  PROVE  /\ N \in [Maps -> Map_] /\ N[m].slot[s].state = w
         /\ \A n \in Maps : N[n].frame_counter = M[n].frame_counter
         /\ \A n \in Maps, t \in Slots :
              /\ N[n].slot[t].generation = M[n].slot[t].generation
              /\ <<n, t>> # <<m, s>> => N[n].slot[t].state = M[n].slot[t].state
<1>1. M[m] \in Map_ /\ M[m].slot \in [Slots -> Slot_] /\ M[m].slot[s] \in Slot_
  BY DEF Map_
<1> DEFINE word == [M[m].slot[s] EXCEPT !.state = w]
           words == [M[m].slot EXCEPT ![s] = word]
           map == [M[m] EXCEPT !.slot = words]
<1>2. word \in Slot_ /\ word.state = w /\ word.generation = M[m].slot[s].generation
  BY <1>1 DEF Slot_
<1> HIDE DEF word
<1>3. /\ words \in [Slots -> Slot_] /\ words[s] = word
      /\ \A t \in Slots : t # s => words[t] = M[m].slot[t]
  BY <1>1, <1>2
<1> HIDE DEF words
<1>4. map \in Map_ /\ map.slot = words /\ map.frame_counter = M[m].frame_counter
  BY <1>1, <1>3 DEF Map_
<1>5. [M EXCEPT ![m].slot[s].state = w] = [M EXCEPT ![m] = map]
  BY DEF map, words, word
<1> HIDE DEF map
<1>6. QED
  BY <1>2, <1>3, <1>4, <1>5 DEF Sets

LEMMA QemuDraws ==
  ASSUME Typed, OwnerInv, NewMap \/ WriteBegin \/ WriteEnd
  PROVE  DisplayTypes' /\ OwnerInv'
<1>1. /\ maps \in [Maps -> Map_] /\ writer \in Writer_ /\ view \in View_
      /\ received \in 0..MaxMaps /\ held \subseteq Maps \X Slots
      /\ scan = {} \/ \E c \in Scan_ : scan = {c}
      /\ writer.map \in 0..MaxMaps /\ writer.slot \in 0..3 /\ writer.frames \in Nat /\ MaxMaps \in Nat
  BY DisplayTyped DEF Writer_
<1>2. UNCHANGED <<received, view, scan, held>>
  BY DEF NewMap, WriteBegin, WriteEnd
<1>3. Owned' = Owned
  BY <1>2 DEF Owned, OwnersOf
<1>4. ASSUME maps' \in [Maps -> Map_], writer' \in Writer_, writer'.slot # 0 => writer'.map # 0
      PROVE  DisplayTypes'
  BY <1>1, <1>2, <1>4, DisplayTyped DEF Typed, DisplayTypes, Map_, Writer_, View_, Scan_
<1>5. CASE NewMap
  <2>1. /\ writer' = [writer EXCEPT !.map = @ + 1] /\ writer.map < MaxMaps /\ writer.slot = 0
        /\ maps' = maps
    BY <1>5 DEF NewMap
  <2>2. writer' \in Writer_ /\ writer'.slot = 0
    BY <1>1, <2>1 DEF Writer_
  <2>3. \A s \in Slots : s # 0
    BY DEF Slots
  <2>4. ReadingInv'
    BY <1>3, <2>1 DEF OwnerInv, ReadingInv
  <2>5. WritingInv'
    BY <2>1, <2>2, <2>3 DEF OwnerInv, WritingInv
  <2>6. QED
    BY <1>1, <1>4, <2>1, <2>2, <2>4, <2>5 DEF OwnerInv
<1>6. CASE WriteBegin
  <2>1. PICK s \in Slots :
          /\ writer.map # 0 /\ writer.slot = 0
          /\ maps[writer.map].slot[s].state \in {"free", "ready"}
          /\ maps' = [maps EXCEPT ![writer.map].slot[s].state = "writing"]
          /\ writer' = [writer EXCEPT !.slot = s]
    BY <1>6 DEF WriteBegin
  <2> DEFINE m == writer.map
  <2>2. m \in Maps /\ Sets(maps, maps', m, s, "writing")
    BY <2>1, DisplayTyped DEF Sets
  <2> HIDE DEF m
  <2>3. /\ maps' \in [Maps -> Map_] /\ maps'[m].slot[s].state = "writing"
        /\ \A n \in Maps, t \in Slots :
             <<n, t>> # <<m, s>> => maps'[n].slot[t].state = maps[n].slot[t].state
    BY <1>1, <2>2, WordSet
  <2>4. writer' \in Writer_ /\ writer'.map = m /\ writer'.slot = s
    BY <1>1, <2>1 DEF Writer_, Slots, m
  <2>5. \A t \in Slots : t # 0
    BY DEF Slots
  <2>6. <<m, s>> \notin Owned
    BY <2>1, <2>2 DEF OwnerInv, ReadingInv, m
  <2>7. ReadingInv'
    <3> SUFFICES ASSUME NEW n \in Maps, NEW t \in Slots
                 PROVE  maps'[n].slot[t].state = "reading" <=> <<n, t>> \in Owned
      BY <1>3 DEF ReadingInv
    <3>1. CASE <<n, t>> = <<m, s>>
      BY <2>3, <2>6, <3>1
    <3>2. CASE <<n, t>> # <<m, s>>
      BY <2>3, <3>2 DEF OwnerInv, ReadingInv
    <3>3. QED
      BY <3>1, <3>2
  <2>8. WritingInv'
    <3> SUFFICES ASSUME NEW n \in Maps, NEW t \in Slots
                 PROVE  maps'[n].slot[t].state = "writing" <=> n = m /\ t = s
      BY <2>4 DEF WritingInv
    <3>1. CASE <<n, t>> = <<m, s>>
      BY <2>3, <3>1
    <3>2. CASE <<n, t>> # <<m, s>>
      <4>1. maps[n].slot[t].state # "writing"
        BY <2>1, <2>5 DEF OwnerInv, WritingInv
      <4>2. QED
        BY <2>3, <3>2, <4>1
    <3>3. QED
      BY <3>1, <3>2
  <2>9. DisplayTypes'
    BY <1>4, <2>1, <2>3, <2>4 DEF m
  <2>10. QED
    BY <2>7, <2>8, <2>9 DEF OwnerInv
<1>7. CASE WriteEnd
  <2> DEFINE m == writer.map
             s == writer.slot
             n == writer.frames + 1
             word == [state |-> "ready", generation |-> n]
  <2>1. /\ m \in Maps /\ s \in Slots /\ n \in Nat
        /\ maps' = [maps EXCEPT ![m].slot[s] = word, ![m].frame_counter = n]
        /\ writer' = [writer EXCEPT !.slot = 0, !.frames = n]
    BY <1>1, <1>7, DisplayTyped DEF WriteEnd
  <2> HIDE DEF n
  <2>2. writer' \in Writer_ /\ writer'.slot = 0
    <3>1. writer' = [writer EXCEPT !.slot = 0, !.frames = n] /\ n \in Nat
      BY <2>1
    <3>2. writer' = [map |-> writer.map, slot |-> 0, frames |-> n]
      BY <1>1, <3>1 DEF Writer_
    <3>3. QED
      BY <1>1, <3>1, <3>2 DEF Writer_
  <2>3. word \in Slot_ /\ word.state = "ready"
    BY <2>1 DEF Slot_
  <2>4. maps[m] \in Map_ /\ maps[m].slot \in [Slots -> Slot_]
    BY <1>1, <2>1 DEF Map_
  <2> HIDE DEF word, m, s
  <2> DEFINE words == [maps[m].slot EXCEPT ![s] = word]
  <2>5. /\ words \in [Slots -> Slot_] /\ words[s] = word
        /\ \A t \in Slots : t # s => words[t] = maps[m].slot[t]
    BY <2>1, <2>3, <2>4
  <2> DEFINE map == [[maps[m] EXCEPT !.slot = words] EXCEPT !.frame_counter = n]
  <2>6. maps' = [maps EXCEPT ![m] = map]
    BY <1>1, <2>1, <2>4 DEF Map_
  <2> HIDE DEF words
  <2>14. map \in Map_ /\ map.slot = words
    BY <2>1, <2>4, <2>5 DEF Map_
  <2> HIDE DEF map
  <2>7. /\ maps' \in [Maps -> Map_] /\ maps'[m].slot = words
        /\ \A k \in Maps : k # m => maps'[k] = maps[k]
    BY <1>1, <2>1, <2>6, <2>14
  <2>8. <<m, s>> \notin Owned /\ maps[m].slot[s].state = "writing"
    BY <2>1 DEF OwnerInv, WritingInv, ReadingInv, m, s
  <2>9. ASSUME NEW k \in Maps, NEW t \in Slots
        PROVE  /\ <<k, t>> = <<m, s>> => maps'[k].slot[t].state = "ready"
               /\ <<k, t>> # <<m, s>> => maps'[k].slot[t].state = maps[k].slot[t].state
    BY <2>3, <2>5, <2>7
  <2>10. ReadingInv'
    <3> SUFFICES ASSUME NEW k \in Maps, NEW t \in Slots
                 PROVE  maps'[k].slot[t].state = "reading" <=> <<k, t>> \in Owned
      BY <1>3 DEF ReadingInv
    <3>1. QED
      BY <2>8, <2>9 DEF OwnerInv, ReadingInv
  <2>11. WritingInv'
    <3> SUFFICES ASSUME NEW k \in Maps, NEW t \in Slots
                 PROVE  ~(maps'[k].slot[t].state = "writing") /\ t # 0
      BY <2>2 DEF WritingInv
    <3>1. QED
      BY <2>9 DEF OwnerInv, WritingInv, m, s, Slots
  <2>12. DisplayTypes'
    BY <1>4, <2>2, <2>7
  <2>13. QED
    BY <2>10, <2>11, <2>12 DEF OwnerInv
<1>8. QED
  BY <1>5, <1>6, <1>7

LEMMA OwnersOfOne ==
  ASSUME NEW v, NEW k, NEW h
  PROVE  /\ OwnersOf(v, {}, h) = h \cup (IF v.current # 0 THEN {<<v.map, v.current>>} ELSE {})
         /\ OwnersOf(v, {k}, h) = OwnersOf(v, {}, h) \cup (IF k.best # 0 THEN {<<v.map, k.best>>} ELSE {})
<1>1. {x \in {} : x.best # 0} = {}
  OBVIOUS
<1>2. {x \in {k} : x.best # 0} = IF k.best # 0 THEN {k} ELSE {}
  OBVIOUS
<1>3. OwnersOf(v, {}, h) = h \cup (IF v.current # 0 THEN {<<v.map, v.current>>} ELSE {})
  BY <1>1 DEF OwnersOf
<1>4. CASE k.best # 0
  BY <1>2, <1>3, <1>4 DEF OwnersOf
<1>5. CASE k.best = 0
  BY <1>2, <1>3, <1>5 DEF OwnersOf
<1>6. QED
  BY <1>3, <1>4, <1>5

LEMMA OwnersAlike ==
  ASSUME NEW v, NEW w, NEW j, NEW k, NEW h, v.map = w.map, v.current = w.current
  PROVE  /\ OwnersOf(v, {}, h) = OwnersOf(w, {}, h)
         /\ k.best = 0 => OwnersOf(v, {k}, h) = OwnersOf(w, {}, h)
         /\ j.best = k.best => OwnersOf(v, {j}, h) = OwnersOf(w, {k}, h)
<1>1. OwnersOf(v, {}, h) = OwnersOf(w, {}, h)
  <2>1. OwnersOf(v, {}, h) = h \cup (IF v.current # 0 THEN {<<v.map, v.current>>} ELSE {})
    BY OwnersOfOne
  <2>2. OwnersOf(w, {}, h) = h \cup (IF w.current # 0 THEN {<<w.map, w.current>>} ELSE {})
    BY OwnersOfOne
  <2>3. QED
    BY <2>1, <2>2
<1>2. OwnersOf(v, {k}, h) = OwnersOf(v, {}, h) \cup (IF k.best # 0 THEN {<<v.map, k.best>>} ELSE {})
  BY OwnersOfOne
<1>3. OwnersOf(v, {j}, h) = OwnersOf(v, {}, h) \cup (IF j.best # 0 THEN {<<v.map, j.best>>} ELSE {})
  BY OwnersOfOne
<1>4. OwnersOf(w, {k}, h) = OwnersOf(w, {}, h) \cup (IF k.best # 0 THEN {<<w.map, k.best>>} ELSE {})
  BY OwnersOfOne
<1>5. ASSUME k.best = 0 PROVE OwnersOf(v, {k}, h) = OwnersOf(v, {}, h)
  BY <1>2, <1>5
<1>6. QED
  BY <1>1, <1>3, <1>4, <1>5

LEMMA ConsumerDrops ==
  ASSUME Typed, OwnerInv, PollDisplay \/ DiscardCurrent \/ DropFrame
  PROVE  DisplayTypes' /\ OwnerInv'
<1>1. /\ maps \in [Maps -> Map_] /\ writer \in Writer_ /\ view \in View_
      /\ received \in 0..MaxMaps /\ held \subseteq Maps \X Slots
      /\ scan = {} \/ \E c \in Scan_ : scan = {c}
      /\ view.map \in 0..MaxMaps /\ view.last_frame \in Nat /\ view.notified \in Nat /\ MaxMaps \in Nat
  BY DisplayTyped DEF View_
<1>2. Owned = OwnersOf(view, scan, held)
  BY DEF Owned
<1>3. ASSUME maps' \in [Maps -> Map_], view' \in View_, received' \in 0..MaxMaps,
             held' \subseteq Maps \X Slots, UNCHANGED <<writer, scan>>,
             scan # {} \/ view'.current # 0 => view'.map # 0
      PROVE  DisplayTypes'
  BY <1>1, <1>3, DisplayTyped DEF Typed, DisplayTypes, Map_, Writer_, View_, Scan_
<1>4. CASE PollDisplay
  <2>1. /\ received # 0 /\ scan = {} /\ scan' = {} /\ received' = 0
        /\ view' = [NoView EXCEPT !.map = received]
        /\ maps' = Dropping(maps, view', scan', held') /\ UNCHANGED <<writer, scan, held>>
    BY <1>4 DEF PollDisplay
  <2>2. view' \in View_ /\ view'.current = 0 /\ view'.map = received
    BY <1>1, <2>1 DEF NoView, View_
  <2>3. OwnersOf(view', {}, held) = held
    BY <2>2, OwnersOfOne
  <2>4. OwnersOf(view', scan', held') \subseteq Owned
    BY <2>1, <2>3 DEF Owned, OwnersOf
  <2>5. QED
    BY <1>1, <1>3, <2>1, <2>2, <2>4, OwnersDrop
<1>5. CASE DiscardCurrent
  <2>1. /\ scan = {} /\ scan' = {} /\ view' = [view EXCEPT !.current = 0]
        /\ maps' = Dropping(maps, view', scan', held') /\ UNCHANGED <<writer, scan, held, received>>
    BY <1>5 DEF DiscardCurrent
  <2>2. view' \in View_ /\ view'.current = 0
    BY <1>1, <2>1 DEF View_
  <2>3. OwnersOf(view', {}, held) = held
    BY <2>2, OwnersOfOne
  <2>4. OwnersOf(view', scan', held') \subseteq Owned
    BY <2>1, <2>3 DEF Owned, OwnersOf
  <2>5. QED
    BY <1>1, <1>3, <2>1, <2>2, <2>4, OwnersDrop
<1>6. CASE DropFrame
  <2>1. PICK l \in held : held' = held \ {l}
    BY <1>6 DEF DropFrame
  <2>2. maps' = Dropping(maps, view', scan', held') /\ UNCHANGED <<writer, scan, view, received>>
    BY <1>6 DEF DropFrame
  <2>3. OwnersOf(view', scan', held') \subseteq Owned
    BY <2>1, <2>2 DEF Owned, OwnersOf
  <2>4. scan # {} \/ view'.current # 0 => view'.map # 0
    BY <2>2 DEF Typed, DisplayTypes
  <2>5. QED
    BY <1>1, <1>3, <2>1, <2>2, <2>3, <2>4, OwnersDrop
<1>7. QED
  BY <1>4, <1>5, <1>6

LEMMA ScanStarts ==
  ASSUME Typed, OwnerInv, ScanBegin, view.map # 0, UNCHANGED <<maps, writer, received, held>>,
         \/ UNCHANGED view
         \/ view' = [view EXCEPT !.notified = maps[view.map].frame_counter]
  PROVE  DisplayTypes' /\ OwnerInv'
<1>1. /\ maps \in [Maps -> Map_] /\ writer \in Writer_ /\ view \in View_ /\ view.map \in Maps
      /\ maps[view.map].frame_counter \in Nat
  BY DisplayTyped
<1> DEFINE k == [next |-> 1, best |-> 0]
<1>2. scan = {} /\ scan' = {k} /\ k.best = 0 /\ k \in Scan_
  BY DEF ScanBegin, Scan_
<1> HIDE DEF k
<1>3. view' \in View_ /\ view'.map = view.map /\ view'.current = view.current
  BY <1>1 DEF View_
<1>4. Owned' = Owned
  <2>1. OwnersOf(view', {k}, held) = OwnersOf(view, {}, held)
    BY <1>2, <1>3, OwnersAlike
  <2>2. Owned' = OwnersOf(view', scan', held')
    BY DEF Owned, OwnersOf
  <2>3. QED
    BY <1>2, <2>1, <2>2 DEF Owned
<1>5. OwnerInv'
  BY <1>4 DEF OwnerInv, ReadingInv, WritingInv
<1>6. DisplayTypes'
  <2>1. \E c \in Scan_ : scan' = {c}
    BY <1>2
  <2>2. /\ maps' \in [Maps -> Map_] /\ writer' \in Writer_ /\ view' \in View_
        /\ received' \in 0..MaxMaps /\ held' \subseteq Maps \X Slots
        /\ writer'.slot # 0 => writer'.map # 0
        /\ view'.map # 0
    BY <1>1, <1>3, DisplayTyped DEF Typed, DisplayTypes
  <2>3. QED
    BY <2>1, <2>2 DEF DisplayTypes, Map_, Writer_, View_, Scan_
<1>7. QED
  BY <1>5, <1>6

LEMMA ScanGoes ==
  ASSUME Typed, OwnerInv, ScanSlot
  PROVE  DisplayTypes' /\ OwnerInv'
<1>1. /\ maps \in [Maps -> Map_] /\ writer \in Writer_ /\ view \in View_
      /\ received \in 0..MaxMaps /\ held \subseteq Maps \X Slots
  BY DisplayTyped
<1>2. PICK c \in scan :
        /\ c.next \in Slots
        /\ IF maps[view.map].slot[c.next].state = "ready"
             THEN IF Keeps(c, c.next)
                    THEN /\ scan' = {[next |-> c.next + 1, best |-> c.next]}
                         /\ maps' = [Dropping(maps, view, scan', held)
                                       EXCEPT ![view.map].slot[c.next].state = "reading"]
                    ELSE /\ scan' = {[c EXCEPT !.next = @ + 1]}
                         /\ maps' = [maps EXCEPT ![view.map].slot[c.next].state = GivenBack(@)]
             ELSE /\ scan' = {[c EXCEPT !.next = @ + 1]} /\ UNCHANGED maps
  BY DEF ScanSlot
<1>3. UNCHANGED <<writer, received, view, held>>
  BY DEF ScanSlot
<1> DEFINE m == view.map
           s == c.next
<1>4. c \in Scan_ /\ scan = {c} /\ m \in Maps /\ s \in Slots /\ s \in Nat /\ s + 1 \in 1..4
  BY <1>2, DisplayTyped DEF Slots
<1>5. ASSUME maps' \in [Maps -> Map_], \E d \in Scan_ : scan' = {d}
      PROVE  DisplayTypes'
  BY <1>1, <1>3, <1>4, <1>5, DisplayTyped
     DEF Typed, DisplayTypes, Map_, Writer_, View_, Scan_
<1>6. ASSUME scan' = {[c EXCEPT !.next = @ + 1]}
      PROVE  Owned' = Owned /\ \E d \in Scan_ : scan' = {d}
  <2> DEFINE d == [c EXCEPT !.next = @ + 1]
  <2>1. d \in Scan_ /\ d.best = c.best
    BY <1>4 DEF Scan_
  <2> HIDE DEF d
  <2>2. OwnersOf(view, {d}, held) = OwnersOf(view, {c}, held)
    BY <2>1, OwnersAlike
  <2>3. Owned' = OwnersOf(view', scan', held')
    BY DEF Owned, OwnersOf
  <2>4. scan' = {d}
    BY <1>6 DEF d
  <2>5. QED
    BY <1>3, <1>4, <2>1, <2>2, <2>3, <2>4 DEF Owned
<1>7. CASE maps[m].slot[s].state = "ready" /\ Keeps(c, s)
  <2> DEFINE d == [next |-> s + 1, best |-> s]
             M == Dropping(maps, view, {d}, held)
  <2>1. d \in Scan_ /\ d.best = s /\ s # 0
    BY <1>4 DEF Scan_, Slots
  <2> HIDE DEF d
  <2>2. scan' = {d}
    BY <1>2, <1>7 DEF d
  <2>3. OwnersOf(view, {d}, held) = OwnersOf(view, {}, held) \cup {<<m, s>>}
    BY <2>1, OwnersOfOne
  <2>4. OwnersOf(view, {}, held) \subseteq Owned
    BY <1>4, OwnersOfOne DEF Owned
  <2>5. <<m, s>> \notin Owned
    BY <1>4, <1>7 DEF OwnerInv, ReadingInv
  <2>6. maps' = [M EXCEPT ![m].slot[s].state = "reading"]
    BY <1>2, <1>7, <2>2 DEF d
  <2>7. /\ M \in [Maps -> Map_]
        /\ \A n \in Maps, t \in Slots :
             M[n].slot[t].state = IF <<n, t>> \in Owned /\ <<n, t>> \notin OwnersOf(view, {d}, held)
                                  THEN "free" ELSE maps[n].slot[t].state
    BY <1>1, DroppingEffect DEF Owned
  <2> HIDE DEF M, m, s
  <2>8. Sets(M, maps', m, s, "reading")
    BY <2>6 DEF Sets
  <2>9. /\ maps' \in [Maps -> Map_] /\ maps'[m].slot[s].state = "reading"
        /\ \A n \in Maps, t \in Slots :
             <<n, t>> # <<m, s>> => maps'[n].slot[t].state = M[n].slot[t].state
    BY <1>4, <2>7, <2>8, WordSet
  <2>10. Owned' = OwnersOf(view, {d}, held)
    <3>1. Owned' = OwnersOf(view', scan', held')
      BY DEF Owned, OwnersOf
    <3>2. QED
      BY <1>3, <2>2, <3>1
  <2>11. ASSUME NEW n \in Maps, NEW t \in Slots
         PROVE  /\ maps'[n].slot[t].state = "reading" <=> <<n, t>> \in Owned'
                /\ maps'[n].slot[t].state = "writing" <=> n = writer.map /\ t = writer.slot
    <3>1. /\ maps[n].slot[t].state = "reading" <=> <<n, t>> \in Owned
          /\ maps[n].slot[t].state = "writing" <=> n = writer.map /\ t = writer.slot
      BY DEF OwnerInv, ReadingInv, WritingInv
    <3>2. CASE <<n, t>> = <<m, s>>
      <4>1. maps[n].slot[t].state = "ready"
        BY <1>7, <3>2 DEF m, s
      <4>2. QED
        BY <2>3, <2>9, <2>10, <3>1, <3>2, <4>1
    <3>3. CASE <<n, t>> # <<m, s>>
      <4>1. maps'[n].slot[t].state = M[n].slot[t].state
        BY <2>9, <3>3
      <4>2. <<n, t>> \in Owned' => <<n, t>> \in Owned
        BY <2>3, <2>4, <2>10, <3>3
      <4>3. QED
        BY <2>7, <2>10, <3>1, <4>1, <4>2
    <3>4. QED
      BY <3>2, <3>3
  <2>12. OwnerInv'
    BY <1>3, <2>11 DEF OwnerInv, ReadingInv, WritingInv
  <2>13. QED
    BY <1>5, <2>1, <2>2, <2>9, <2>12
<1>8. CASE maps[m].slot[s].state = "ready" /\ ~Keeps(c, s)
  <2>1. /\ maps' = [maps EXCEPT ![m].slot[s].state = "free"]
        /\ scan' = {[c EXCEPT !.next = @ + 1]}
    BY <1>2, <1>8 DEF GivenBack
  <2>2. <<m, s>> \notin Owned
    BY <1>4, <1>8 DEF OwnerInv, ReadingInv
  <2>3. ~(m = writer.map /\ s = writer.slot)
    BY <1>4, <1>8 DEF OwnerInv, WritingInv
  <2> HIDE DEF m, s
  <2>4. Sets(maps, maps', m, s, "free")
    BY <2>1 DEF Sets
  <2>5. /\ maps' \in [Maps -> Map_] /\ maps'[m].slot[s].state = "free"
        /\ \A n \in Maps, t \in Slots :
             <<n, t>> # <<m, s>> => maps'[n].slot[t].state = maps[n].slot[t].state
    BY <1>1, <1>4, <2>4, WordSet
  <2>6. ASSUME NEW n \in Maps, NEW t \in Slots
        PROVE  /\ maps'[n].slot[t].state = "reading" <=> <<n, t>> \in Owned
               /\ maps'[n].slot[t].state = "writing" <=> n = writer.map /\ t = writer.slot
    <3>1. CASE <<n, t>> = <<m, s>>
      BY <2>2, <2>3, <2>5, <3>1
    <3>2. CASE <<n, t>> # <<m, s>>
      BY <2>5, <3>2 DEF OwnerInv, ReadingInv, WritingInv
    <3>3. QED
      BY <3>1, <3>2
  <2>7. Owned' = Owned /\ \E d \in Scan_ : scan' = {d}
    BY <1>6, <2>1
  <2>8. OwnerInv'
    BY <1>3, <2>6, <2>7 DEF OwnerInv, ReadingInv, WritingInv
  <2>9. QED
    BY <1>5, <2>5, <2>7, <2>8
<1>9. CASE maps[m].slot[s].state # "ready"
  <2>1. maps' = maps /\ scan' = {[c EXCEPT !.next = @ + 1]}
    BY <1>2, <1>9
  <2>2. Owned' = Owned /\ \E d \in Scan_ : scan' = {d}
    BY <1>6, <2>1
  <2>3. OwnerInv'
    BY <1>3, <2>1, <2>2 DEF OwnerInv, ReadingInv, WritingInv
  <2>4. QED
    BY <1>1, <1>5, <2>1, <2>2, <2>3
<1>10. QED
  BY <1>7, <1>8, <1>9

LEMMA ScanEnds ==
  ASSUME Typed, OwnerInv, ScanEnd
  PROVE  DisplayTypes' /\ OwnerInv'
<1>1. /\ maps \in [Maps -> Map_] /\ writer \in Writer_ /\ view \in View_
      /\ received \in 0..MaxMaps /\ held \subseteq Maps \X Slots
  BY DisplayTyped
<1>2. PICK c \in scan, lease \in BOOLEAN :
        /\ view' = IF c.best = 0 THEN view
                   ELSE [view EXCEPT !.current = c.best, !.last_frame = Generation(view.map, c.best)]
        /\ held' = IF lease /\ view'.current # 0 THEN held \cup {<<view.map, view'.current>>}
                   ELSE held
  BY DEF ScanEnd
<1>3. /\ scan' = {} /\ maps' = Dropping(maps, view', scan', held') /\ UNCHANGED <<writer, received>>
  BY DEF ScanEnd
<1>4. c \in Scan_ /\ scan = {c} /\ view.map \in Maps /\ c.best \in 0..3
  BY <1>2, DisplayTyped DEF Scan_
<1>5. c.best # 0 => c.best \in Slots /\ Generation(view.map, c.best) \in Nat
  <2>1. c.best # 0 => c.best \in Slots
    BY <1>4 DEF Slots
  <2>2. QED
    BY <1>4, <2>1, DisplayTyped
<1>6. /\ view' \in View_ /\ view'.map = view.map
      /\ view'.current \in {view.current, c.best}
  <2>1. CASE c.best = 0
    BY <1>1, <1>2, <2>1
  <2>2. CASE c.best # 0
    <3> DEFINE g == Generation(view.map, c.best)
    <3>1. g \in Nat
      BY <1>5, <2>2
    <3> HIDE DEF g
    <3>2. view' = [view EXCEPT !.current = c.best, !.last_frame = g]
      BY <1>2, <2>2 DEF g
    <3>3. QED
      BY <1>1, <1>4, <3>1, <3>2 DEF View_
  <2>3. QED
    BY <2>1, <2>2
<1>7. Owned = OwnersOf(view, {}, held) \cup (IF c.best # 0 THEN {<<view.map, c.best>>} ELSE {})
  BY <1>4, OwnersOfOne DEF Owned
<1>8. OwnersOf(view, {}, held) = held \cup (IF view.current # 0 THEN {<<view.map, view.current>>} ELSE {})
  BY OwnersOfOne
<1>9. view'.current # 0 => <<view.map, view'.current>> \in Owned
  BY <1>6, <1>7, <1>8
<1>10. held \subseteq Owned
  BY <1>7, <1>8
<1>11. OwnersOf(view', scan', held') \subseteq Owned
  <2>1. OwnersOf(view', {}, held') =
          held' \cup (IF view'.current # 0 THEN {<<view'.map, view'.current>>} ELSE {})
    BY OwnersOfOne
  <2>2. QED
    BY <1>2, <1>3, <1>6, <1>9, <1>10, <2>1
<1>12. held' \subseteq Maps \X Slots
  BY <1>2, <1>9, <1>10, OwnersTyped DEF Owned
<1>13. maps' \in [Maps -> Map_] /\ OwnerInv'
  BY <1>3, <1>11, OwnersDrop
<1>14. DisplayTypes'
  <2>1. view'.map # 0
    BY <1>4, <1>6, DisplayTyped DEF Maps
  <2>2. QED
    BY <1>1, <1>3, <1>6, <1>12, <1>13, <2>1 DEF Typed, DisplayTypes, Map_, Writer_, View_
<1>15. QED
  BY <1>13, <1>14

(* Every step keeps the words of the frames in step with their owners. *)
LEMMA OwnerStep ==
  ASSUME Typed, OwnerInv, [Next]_vars
  PROVE  DisplayTypes' /\ OwnerInv'
<1>1. CASE UNCHANGED display
  <2>1. Owned' = Owned
    BY <1>1 DEF display, Owned, OwnersOf
  <2>2. QED
    BY <1>1, <2>1 DEF display, Typed, DisplayTypes, OwnerInv, ReadingInv, WritingInv
<1>2. CASE Connect
  <2>1. /\ maps' = maps /\ UNCHANGED <<received, view, scan, held>>
        /\ writer' = writer \/ (writer.map = 0 /\ writer' = [writer EXCEPT !.map = 1])
    BY <1>2 DEF Connect
  <2>2. CASE writer' = writer
    BY <1>1, <2>1, <2>2 DEF display
  <2>3. CASE writer.map = 0 /\ writer' = [writer EXCEPT !.map = 1]
    <3>1. writer \in Writer_ /\ (writer.slot # 0 => writer.map \in Maps) /\ 1 \in 0..MaxMaps
      BY DisplayTyped, DisplayAssumption DEF DisplayAssumption
    <3>2. writer.slot = 0
      BY <2>3, <3>1 DEF Maps
    <3>3. writer' \in Writer_ /\ writer'.slot = 0
      BY <2>3, <3>1, <3>2 DEF Writer_
    <3>4. Owned' = Owned
      BY <2>1 DEF Owned, OwnersOf
    <3>5. \A s \in Slots : s # 0
      BY DEF Slots
    <3>6. OwnerInv'
      BY <2>1, <3>2, <3>3, <3>4, <3>5 DEF OwnerInv, ReadingInv, WritingInv
    <3>7. DisplayTypes'
      BY <2>1, <3>3 DEF Typed, DisplayTypes, Writer_
    <3>8. QED
      BY <3>6, <3>7
  <2>4. QED
    BY <2>1, <2>2, <2>3
<1>3. CASE Resize \/ Draw
  BY <1>3, QemuDraws DEF Resize, Draw
<1>4. CASE Leave \/ Point \/ Malformed \/ Consume
  BY <1>1, <1>4 DEF Leave, Point, Malformed, Consume
<1>5. CASE Read
  <2> DEFINE m == Head(link.in)
             lost == m.kind = "X" \/ (m.kind \in {"S", "P"} /\ ~mapping.there)
  <2>1. CASE link.in = <<>>
    BY <1>1, <1>5, <2>1 DEF Read
  <2>2. CASE link.in # <<>>
    <3>1. m \in Message_
      BY <2>2 DEF Typed, ServerTypes
    <3>2. m.kind \in {"D", "F", "C", "S", "P", "X", "A"} /\ (m.kind = "D" => m.id \in Maps)
      BY <3>1 DEF Message_
    <3>3. CASE lost \/ m.kind # "D"
      <4>1. CASE lost
        BY <1>1, <1>5, <2>2, <4>1 DEF Read
      <4>2. CASE ~lost /\ m.kind \in {"S", "P"}
        BY <1>1, <1>5, <2>2, <4>2 DEF Read
      <4>3. CASE ~lost /\ m.kind \in {"C", "A", "F"}
        BY <1>1, <1>5, <2>2, <4>3 DEF Read, display
      <4>4. QED
        BY <3>2, <3>3, <4>1, <4>2, <4>3
    <3>4. CASE m.kind = "D"
      <4>1. received' = m.id /\ UNCHANGED <<maps, writer, view, scan, held>>
        BY <1>5, <2>2, <3>4 DEF Read
      <4>2. received' \in 0..MaxMaps
        BY <3>2, <3>4, <4>1, DisplayTyped DEF Maps
      <4>3. Owned' = Owned
        BY <4>1 DEF Owned, OwnersOf
      <4>4. QED
        BY <4>1, <4>2, <4>3 DEF Typed, DisplayTypes, OwnerInv, ReadingInv, WritingInv
    <3>5. QED
      BY <3>3, <3>4
  <2>3. QED
    BY <2>1, <2>2
<1>6. CASE Top \/ Poll \/ Accept \/ Refill \/ AnnounceUp \/ Look \/ Fill \/ Write \/ DropClient
           \/ AnnounceGone \/ Clear \/ Call \/ Exit \/ ExitAnnounce
  BY <1>1, <1>6 DEF Top, Poll, Accept, Refill, AnnounceUp, Look, Fill, Write, DropClient,
     AnnounceGone, Clear, Call, Exit, ExitAnnounce
<1>7. CASE Stop \/ InputTraffic
  BY <1>1, <1>7 DEF Stop, InputTraffic
<1>8. CASE UiPoll
  BY <1>1, <1>8, ConsumerDrops DEF UiPoll
<1>9. CASE UiChanged
  <2>1. CASE UNCHANGED display
    BY <1>1, <2>1
  <2>2. CASE TakeFrameChanged
    BY <2>2, ScanStarts DEF TakeFrameChanged
  <2>3. QED
    BY <1>9, <2>1, <2>2 DEF UiChanged
<1>10. CASE UiLook
  BY <1>10, ScanStarts DEF UiLook
<1>11. CASE UiClaim
  BY <1>11, ScanGoes, ScanEnds DEF UiClaim
<1>12. CASE UiDrops
  BY <1>12, ConsumerDrops DEF UiDrops
<1>13. CASE UNCHANGED vars
  BY <1>1, <1>13 DEF vars, display
<1>14. QED
  BY <1>2, <1>3, <1>4, <1>5, <1>6, <1>7, <1>8, <1>9, <1>10, <1>11, <1>12, <1>13
     DEF Next, Qemu, Worker, Program

-----------------------------------------------------------------------------
(* The connection: what the worker's station says of the link, the queue and the cursor. *)

Leaving == {"exit", "exit_announce", "gone"}

LinkInv ==
  /\ worker.pc \in {"accept", "refill", "announce"} => link.state = "asking"
  /\ worker.pc \in {"read", "look", "write", "drop"} => link.state = "up"
  /\ worker.pc \in {"announce_gone", "clear"} => link.state # "up"
  /\ worker.pc \in {"top", "poll", "accept", "read", "look", "write", "drop", "call"} =>
       (queue.connected <=> link.state = "up")
  /\ worker.pc \in {"refill", "announce", "announce_gone", "clear"} => queue.connected
  /\ worker.pc \in {"exit_announce", "gone"} => ~queue.connected
  /\ ~queue.connected /\ worker.pc \notin Leaving => queue.events = <<>>
  /\ link.state # "up" => link.out = <<>> /\ link.in = <<>> /\ ~link.gone
  /\ link.gone => link.out = <<>>
  /\ link.state # "up" /\ worker.pc \notin Leaving => worker.partial = <<>> /\ ~mapping.there
  /\ Len(worker.partial) <= 1 /\ Len(queue.events) <= Capacity
  /\ worker.pc \in Leaving => stop

(* A push keeps the queue in its capacity, and only while it is connected. *)
LEMMA TrafficLinks ==
  ASSUME Typed, LinkInv, InputTraffic
  PROVE  /\ UNCHANGED <<cursor, worker, link, qemu, stop>> /\ queue'.connected = queue.connected
         /\ Len(queue'.events) <= Capacity
         /\ ~queue.connected => queue'.events = queue.events
<1>1. queue \in Queue_ /\ host.moved \in Nat /\ queue.events \in Seq(Event_) /\ Len(queue.events) <= Capacity
  BY DEF Typed, InputTypes, Queue_, LinkInv
<1>2. ASSUME NEW e \in Event_, Send(e)
      PROVE  /\ queue'.connected = queue.connected /\ Len(queue'.events) <= Capacity
             /\ ~queue.connected => queue'.events = queue.events
  <2>1. Len(PushedOn(queue.events, e)) <= Capacity
    BY <1>1, PushCases
  <2>2. QED
    BY <1>1, <1>2, <2>1 DEF Send, Queue_
<1>3. ASSUME NEW q \in Queue_, q.events = queue.events, q.connected = queue.connected,
             NEW e \in Event_, SetHost(q, e)
      PROVE  /\ queue'.connected = queue.connected /\ Len(queue'.events) <= Capacity
             /\ ~queue.connected => queue'.events = queue.events
  <2>1. Len(PushedOn(queue.events, e)) <= Capacity
    BY <1>1, PushCases
  <2>2. QED
    BY <1>1, <1>3, <2>1 DEF SetHost, Queue_
<1>4. UNCHANGED <<cursor, worker, link, qemu, stop>>
  BY DEF InputTraffic
<1>5. ASSUME NEW kind \in {"rel", "abs"}, SendMotion(kind)
      PROVE  /\ queue'.connected = queue.connected /\ Len(queue'.events) <= Capacity
             /\ ~queue.connected => queue'.events = queue.events
  <2>1. Event(kind, 1, 0) \in Event_
    BY <1>1 DEF Event, Event_, Plain_
  <2>2. QED
    BY <1>2, <1>5, <2>1 DEF SendMotion
<1>6. CASE SendButton
  <2> DEFINE e == Event("btn", IF host.down THEN 0 ELSE 1, 0)
  <2>1. e \in Event_
    BY <1>1 DEF Event, Event_, Plain_
  <2>2. Send(e)
    BY <1>6 DEF SendButton
  <2>3. QED
    BY <1>2, <1>4, <2>1, <2>2
<1>7. CASE SetMouseCapture
  <2>1. PICK captured \in {"abs", "rel"} :
          SetHost([queue EXCEPT !.capture = captured], Event("capture", captured, 0))
    BY <1>7 DEF SetMouseCapture
  <2>2. /\ [queue EXCEPT !.capture = captured] \in Queue_
        /\ [queue EXCEPT !.capture = captured].events = queue.events
        /\ [queue EXCEPT !.capture = captured].connected = queue.connected
    BY <1>1 DEF Routing, Queue_
  <2>3. Event("capture", captured, 0) \in Event_
    BY <1>1 DEF Event, Event_
  <2>4. QED
    BY <1>3, <1>4, <2>1, <2>2, <2>3
<1>8. CASE SetHostRefresh
  <2>1. PICK rate \in 1..2 :
          SetHost([queue EXCEPT !.refresh = rate], Event("refresh", rate, 0))
    BY <1>8 DEF SetHostRefresh
  <2>2. /\ [queue EXCEPT !.refresh = rate] \in Queue_
        /\ [queue EXCEPT !.refresh = rate].events = queue.events
        /\ [queue EXCEPT !.refresh = rate].connected = queue.connected
    BY <1>1 DEF Queue_
  <2>3. Event("refresh", rate, 0) \in Event_
    BY <1>1 DEF Event, Event_, Plain_
  <2>4. QED
    BY <1>3, <1>4, <2>1, <2>2, <2>3
<1>9. CASE ResetAndWait
  <2>1. ResetEvent(barrier.next) \in Event_
    BY <1>1 DEF ResetEvent, Event, Event_, Plain_, Typed, InputTypes
  <2>2. QED
    BY <1>2, <1>4, <1>9, <2>1 DEF ResetAndWait
<1>10. CASE WaitEnds
  BY <1>1, <1>4, <1>10 DEF WaitEnds
<1>11. QED
  BY <1>4, <1>5, <1>6, <1>7, <1>8, <1>9, <1>10 DEF InputTraffic

LEMMA RefillLength ==
  ASSUME Typed, LinkInv, Reconnected
  PROVE  Len(queue'.events) <= Capacity /\ queue'.connected = queue.connected
<1>1. /\ queue \in Queue_ /\ host.moved \in Nat /\ queue.events \in Seq(Event_)
      /\ Len(queue.events) <= Capacity /\ Capacity \in Nat /\ Capacity >= 2
  BY Capacities DEF Typed, InputTypes, Queue_, LinkInv
<1> DEFINE r == Event("refresh", queue.refresh, 0)
           c == Event("capture", queue.capture, 0)
           e == IF queue.refresh = 0 THEN queue.events ELSE PushedOn(queue.events, r)
           f == IF Len(e) >= Capacity THEN <<ResetEvent(0)>> ELSE e
<1>2. r \in Event_ /\ ResetEvent(0) \in Event_
  BY <1>1 DEF Event, ResetEvent, Event_, Plain_, Queue_
<1>3. e \in Seq(Event_) /\ Len(e) <= Capacity
  BY <1>1, <1>2, PushCases
<1>4. f \in Seq(Event_) /\ Len(f) < Capacity
  BY <1>1, <1>2, <1>3
<1>5. ASSUME queue.capture # "unset"
      PROVE  Len(CaptureFirst(f, c)) <= Capacity
  <2>1. c \in Event_
    BY <1>1, <1>5 DEF Event, Event_, Plain_, Queue_, Routing
  <2>2. <<c>> \in Seq(Event_) /\ Len(<<c>>) = 1
    BY <2>1
  <2>3. Len(<<c>> \o f) = 1 + Len(f)
    BY <1>4, <2>2
  <2>4. QED
    BY <1>1, <1>4, <2>3 DEF CaptureFirst
<1> HIDE DEF c, f, e
<1>6. queue' = IF queue.capture = "unset" THEN [queue EXCEPT !.events = e]
               ELSE [queue EXCEPT !.events = CaptureFirst(f, c)]
  BY DEF Reconnected, c, f, e
<1>7. QED
  BY <1>1, <1>3, <1>5, <1>6 DEF Queue_

LEMMA LinkStep ==
  ASSUME Typed, LinkInv, [Next]_vars
  PROVE  LinkInv'
<1>1. /\ worker \in Worker_ /\ link \in Link_ /\ queue \in Queue_ /\ mapping.there \in BOOLEAN
      /\ link.in \in Seq(Message_) /\ link.out \in Seq(Event_) /\ worker.partial \in Seq(Event_)
      /\ queue.events \in Seq(Event_)
      /\ mapping \in [there : BOOLEAN, shape : 0..MaxCursor, position : Nat]
  BY DEF Typed, ServerTypes, InputTypes, CursorTypes, Worker_, Link_, Queue_
<1> USE DEF LinkInv, Leaving
<1>2. CASE UNCHANGED <<worker, link, queue, mapping, stop>>
  BY <1>2
<1>3. CASE Connect
  <2>1. UNCHANGED <<worker, queue, mapping, stop>> /\ link.state = "none"
    BY <1>3 DEF Connect, input
  <2>2. /\ link'.state = "asking" /\ link'.in = link.in /\ link'.out = link.out
        /\ link'.gone = link.gone
    BY <1>1, <1>3 DEF Connect, Link_
  <2>3. QED
    BY <1>1, <2>1, <2>2 DEF Worker_
<1>4. CASE Leave
  <2>1. UNCHANGED <<worker, queue, mapping, stop>> /\ link.state = "up"
    BY <1>4 DEF Leave, Up, input, cursor
  <2>2. link'.state = "up" /\ link'.out = <<>> /\ link'.in = link.in /\ link'.gone
    BY <1>1, <1>4 DEF Leave, Up, Link_
  <2>3. QED
    BY <1>1, <2>1, <2>2
<1>5. ASSUME UNCHANGED <<worker, queue, mapping, stop>>, NEW m \in Message_, link' = Tell(m) \/ link' = link
      PROVE  LinkInv'
  BY <1>1, <1>5 DEF Tell, Up, Link_
<1>6. CASE Resize \/ Draw \/ Point \/ Malformed
  <2>1. UNCHANGED <<worker, queue, mapping, stop>>
    BY <1>6 DEF Resize, Draw, Point, Malformed, cursor, input, PublishShape
  <2>2. \E m \in Message_ : link' = Tell(m) \/ link' = link
    <3>1. /\ \A kind \in {"F", "C", "S", "P", "X", "A"}, id \in Nat : Message(kind, id) \in Message_
          /\ \A id \in Maps : Message("D", id) \in Message_
      BY DEF Message, Message_
    <3>2. pointer.position \in Nat => pointer.position + 1 \in Nat
      OBVIOUS
    <3>3. pointer.position \in Nat
      BY DEF Typed, CursorTypes
    <3>4. CASE Resize
      <4>1. writer.map + 1 \in Maps
        BY <3>4, DisplayTyped, DisplayAssumption DEF Resize, NewMap, Maps, DisplayAssumption, Writer_
      <4>2. QED
        BY <3>1, <3>4, <4>1 DEF Resize
    <3>5. CASE Draw
      <4>1. Message("F", 0) \in Message_ /\ (link' = Tell(Message("F", 0)) \/ link' = link)
        BY <3>1, <3>5 DEF Draw
      <4>2. QED
        BY <4>1
    <3>6. CASE Point
      <4>1. /\ Message("C", 0) \in Message_ /\ Message("S", 0) \in Message_
            /\ Message("P", pointer.position + 1) \in Message_
        BY <3>1, <3>2, <3>3
      <4>2. \/ link' = Tell(Message("C", 0)) \/ link' = Tell(Message("S", 0))
            \/ link' = Tell(Message("P", pointer.position + 1))
        BY <3>6 DEF Point
      <4>3. QED
        BY <4>1, <4>2
    <3>7. CASE Malformed
      <4>1. Message("X", 0) \in Message_ /\ link' = Tell(Message("X", 0))
        BY <3>1, <3>7 DEF Malformed
      <4>2. QED
        BY <4>1
    <3>8. QED
      BY <1>6, <3>4, <3>5, <3>6, <3>7
  <2>3. QED
    BY <1>5, <2>1, <2>2
<1>7. CASE Consume
  <2>1. UNCHANGED <<worker, queue, mapping, stop>> /\ link.state = "up" /\ ~link.gone
    BY <1>7 DEF Consume, Up, cursor, input
  <2>2. link'.state = "up" /\ ~link'.gone
    BY <1>1, <1>7, <2>1 DEF Consume, Link_
  <2>3. QED
    BY <2>1, <2>2
<1>8. CASE Top
  BY <1>1, <1>8 DEF Top, Worker_, input, cursor
<1>9. CASE Poll
  BY <1>1, <1>9 DEF Poll, Goto, Readable, Worker_, cursor
<1>10. CASE Accept
  BY <1>1, <1>10 DEF Accept, Goto, Worker_, Queue_, cursor
<1>11. CASE Refill
  <2>1. Len(queue'.events) <= Capacity /\ queue'.connected = queue.connected
    BY <1>11, RefillLength DEF Refill
  <2>2. QED
    BY <1>1, <1>11, <2>1 DEF Refill, Goto, Worker_, cursor
<1>12. CASE AnnounceUp
  <2>1. link'.state = "up" /\ ~link'.gone
    BY <1>12 DEF AnnounceUp, NoLink
  <2>2. QED
    BY <1>1, <1>12, <2>1 DEF AnnounceUp, Goto, Worker_, cursor
<1>13. CASE Read
  <2>1. /\ worker.pc = "read" /\ link.state = "up" /\ UNCHANGED <<queue, stop>>
        /\ link'.state = "up" /\ link'.gone = link.gone /\ link'.out = link.out
        /\ worker'.pc \in {"read", "look", "write", "drop"} /\ worker'.partial = worker.partial
    <3> DEFINE m == Head(link.in)
               lost == m.kind = "X" \/ (m.kind \in {"S", "P"} /\ ~mapping.there)
    <3>1. worker.pc = "read" /\ link.state = "up" /\ UNCHANGED stop
      BY <1>13 DEF Read
    <3>2. CASE link.in = <<>>
      BY <1>1, <1>13, <3>1, <3>2 DEF Read, Goto, Worker_, input
    <3>3. CASE link.in # <<>>
      <4>1. m \in Message_
        BY <1>1, <3>3
      <4>2. m.kind \in {"D", "F", "C", "S", "P", "X", "A"}
        BY <4>1 DEF Message_
      <4>3. link' = [link EXCEPT !.in = Tail(@)]
        BY <1>13, <3>3 DEF Read
      <4>4. CASE lost
        BY <1>1, <1>13, <3>1, <3>3, <4>3, <4>4 DEF Read, Goto, Worker_, Link_, input
      <4>5. CASE ~lost /\ m.kind \in {"S", "P"}
        BY <1>1, <1>13, <3>1, <3>3, <4>3, <4>5 DEF Read, Goto, Change, Worker_, Link_, input
      <4>6. CASE ~lost /\ m.kind \in {"C", "A", "F", "D"}
        BY <1>1, <1>13, <3>1, <3>3, <4>3, <4>6 DEF Read, Goto, Change, Worker_, Link_, input
      <4>7. QED
        BY <4>2, <4>4, <4>5, <4>6
    <3>4. QED
      BY <3>2, <3>3
  <2>2. QED
    BY <2>1
<1>14. CASE Look
  BY <1>1, <1>14 DEF Look, Goto, Change, Worker_, input
<1>15. CASE Fill
  <2>1. CASE queue.events = <<>>
    BY <1>1, <1>15, <2>1 DEF Fill, Goto, Worker_, cursor
  <2>2. CASE queue.events # <<>>
    <3> DEFINE first == <<Head(queue.events)>>
               rest == Tail(queue.events)
    <3>1. Len(first) = 1 /\ Len(rest) = Len(queue.events) - 1 /\ Len(queue.events) \in Nat
      BY <1>1, <2>2
    <3> HIDE DEF first, rest
    <3>2. /\ worker' = [worker EXCEPT !.partial = first] /\ queue' = [queue EXCEPT !.events = rest]
          /\ UNCHANGED <<link, mapping, stop>> /\ worker.pc = "write"
      BY <1>15, <2>2 DEF Fill, first, rest, cursor
    <3>3. /\ worker'.pc = "write" /\ worker'.partial = first /\ queue'.events = rest
          /\ queue'.connected = queue.connected
      BY <1>1, <3>2 DEF Worker_, Queue_
    <3>4. Len(rest) <= Capacity
      BY <3>1, Capacities
    <3>5. link'.state = "up" /\ queue'.connected /\ link' = link /\ mapping' = mapping
      BY <3>2, <3>3
    <3>6. Len(worker'.partial) <= 1 /\ Len(queue'.events) <= Capacity
      <4>1. Len(worker'.partial) = Len(first) /\ Len(queue'.events) = Len(rest)
        BY ONLY <3>3
      <4>2. QED
        BY ONLY <3>1, <3>4, <4>1
    <3>7. QED
      BY <3>3, <3>5, <3>6
  <2>3. QED
    BY <2>1, <2>2
<1>16. CASE Write
  <2>1. /\ link.state = "up" /\ link'.state = "up" /\ link'.gone = link.gone /\ UNCHANGED <<queue, mapping, stop>>
        /\ link.gone => link'.out = link.out
        /\ worker'.pc \in {"drop", "call", "write"} /\ worker'.partial \in {worker.partial, <<>>}
    BY <1>1, <1>16 DEF Write, Goto, Worker_, Link_, input, cursor
  <2>2. Len(<<>>) <= 1
    OBVIOUS
  <2>3. Len(worker'.partial) <= 1 /\ queue.connected
    BY <1>16, <2>1, <2>2 DEF Write
  <2>4. QED
    BY <2>1, <2>3
<1>17. CASE DropClient
  <2>1. /\ worker'.pc = "announce_gone" /\ worker'.partial = <<>> /\ link' = NoLink
        /\ UNCHANGED <<queue, stop>> /\ ~mapping'.there /\ worker.pc = "drop"
    BY <1>1, <1>17 DEF DropClient, CursorDisconnect, NoMapping, Worker_, input
  <2>2. Len(<<>>) <= 1
    OBVIOUS
  <2>3. QED
    BY <2>1, <2>2 DEF NoLink
<1>18. CASE AnnounceGone
  BY <1>1, <1>18 DEF AnnounceGone, Goto, Worker_, cursor
<1>19. CASE Clear
  <2>1. Len(<<>>) <= Capacity
    BY Capacities
  <2>2. QED
    BY <1>1, <1>19, <2>1 DEF Clear, Change, Worker_, Queue_, cursor
<1>20. CASE Call
  BY <1>1, <1>20 DEF Call, Goto, Worker_, input, cursor
<1>21. CASE Exit
  BY <1>1, <1>21 DEF Exit, Goto, Worker_, Queue_, cursor
<1>22. CASE ExitAnnounce
  BY <1>1, <1>22 DEF ExitAnnounce, Goto, Worker_, NoLink, cursor
<1>23. CASE Stop
  BY <1>1, <1>23 DEF Stop, Stops, cursor
<1>24. CASE InputTraffic
  BY <1>1, <1>24, TrafficLinks DEF cursor
<1>25. CASE UiPoll \/ UiChanged \/ UiLook \/ UiClaim \/ UiDrops \/ UNCHANGED vars
  BY <1>2, <1>25 DEF UiPoll, UiChanged, UiLook, UiClaim, UiDrops, vars, input, cursor
<1>26. QED
  BY <1>3, <1>4, <1>6, <1>7, <1>8, <1>9, <1>10, <1>11, <1>12, <1>13, <1>14, <1>15, <1>16, <1>17, <1>18,
     <1>19, <1>20, <1>21, <1>22, <1>23, <1>24, <1>25 DEF Next, Qemu, Worker, Program

-----------------------------------------------------------------------------
(* The cursor.  QEMU announces the cursor channel once on a connection, so the positions and shapes of a      *)
(* mapping only grow, and a mailbox shows a cursor only while its mapping is there.                           *)

Mapping_ == [there : BOOLEAN, shape : 0..MaxCursor, position : Nat]
Mailbox_ == [there : BOOLEAN, shape : 0..MaxCursor, position : Nat, enabled : BOOLEAN, revision : Nat]
Look_ == [next : 1..4, generation : 0..MaxCursor, position : Nat]
Pointer_ == [shape : 0..MaxCursor, position : Nat]
Shape_ == [state : {"free", "ready"}, generation : 0..MaxCursor, position : Nat]

CursorInv ==
  /\ mailbox.enabled => mapping.there
  /\ mapping.there => mailbox.there /\ mailbox.position = mapping.position
  /\ look # {} <=> worker.pc = "look"
  /\ worker.pc = "look" => mapping.there
  /\ \A k \in look : k.generation >= mapping.shape
  /\ \A i \in DOMAIN link.in : link.in[i].kind = "C" => ~mapping.there /\ pointer.position # 0
  /\ \A i, j \in DOMAIN link.in : link.in[i].kind = "C" /\ link.in[j].kind = "C" => i = j
  /\ link.state = "up" /\ pointer.position = 0 => ~mapping.there

(* Forwards is CursorForwards as an action. *)
Forwards ==
  mapping.there /\ mapping'.there =>
    mapping'.shape >= mapping.shape /\ mailbox'.position >= mailbox.position

LEMMA CursorTyped ==
  ASSUME Typed
  PROVE  /\ MaxCursor \in Nat /\ mapping \in Mapping_ /\ mailbox \in Mailbox_ /\ pointer \in Pointer_
         /\ shapes \in [CursorSlots -> Shape_] /\ (look = {} \/ \E k \in Look_ : look = {k})
         /\ mapping.position \in Nat /\ mailbox.position \in Nat /\ pointer.position \in Nat
         /\ mapping.shape \in 0..MaxCursor /\ mailbox.revision + 1 \in Nat
<1>1. mailbox.revision \in Nat
  BY DEF Typed, CursorTypes
<1>2. QED
  BY <1>1, CursorAssumption DEF CursorAssumption, Typed, CursorTypes, Mapping_, Mailbox_, Pointer_, Shape_, Look_

(* Steps that leave the cursor alone may add any other message or take one away. *)
LEMMA CursorIdle ==
  ASSUME Typed, CursorInv, UNCHANGED cursor, look' # {} <=> worker'.pc = "look",
         link'.state = "up" => link.state = "up" \/ ~mapping.there,
         \/ link'.in = link.in
         \/ link.in # <<>> /\ link'.in = Tail(link.in)
         \/ link'.in = <<>>
         \/ \E m \in Message_ : m.kind # "C" /\ link'.in \in {Append(link.in, m), <<m>>}
  PROVE  CursorTypes' /\ CursorInv' /\ Forwards
<1>1. link.in \in Seq(Message_)
  BY DEF Typed, ServerTypes
<1>2. UNCHANGED <<mapping, mailbox, look, pointer, shapes>>
  BY DEF cursor
<1>3. CursorTypes' /\ Forwards
  BY <1>2, CursorTyped DEF Typed, CursorTypes, Forwards
<1>4. /\ \A i \in DOMAIN link'.in : link'.in[i].kind = "C" => ~mapping.there /\ pointer.position # 0
      /\ \A i, j \in DOMAIN link'.in : link'.in[i].kind = "C" /\ link'.in[j].kind = "C" => i = j
  <2>1. CASE link'.in = link.in
    BY <2>1 DEF CursorInv
  <2>2. CASE link.in # <<>> /\ link'.in = Tail(link.in)
    <3>1. /\ \A i \in DOMAIN link'.in : i + 1 \in DOMAIN link.in /\ link'.in[i] = link.in[i + 1]
          /\ DOMAIN link'.in \subseteq Nat
      BY <1>1, <2>2
    <3>2. ASSUME NEW i \in DOMAIN link'.in, link'.in[i].kind = "C"
          PROVE  ~mapping.there /\ pointer.position # 0
      BY <3>1, <3>2 DEF CursorInv
    <3>3. ASSUME NEW i \in DOMAIN link'.in, NEW j \in DOMAIN link'.in,
                 link'.in[i].kind = "C", link'.in[j].kind = "C"
          PROVE  i = j
      <4>1. i + 1 = j + 1 /\ i \in Nat /\ j \in Nat
        BY <3>1, <3>3 DEF CursorInv
      <4>2. QED
        BY ONLY <4>1
    <3>4. QED
      BY <3>2, <3>3
  <2>3. CASE link'.in = <<>>
    BY <2>3
  <2>4. ASSUME NEW m \in Message_, m.kind # "C", link'.in = Append(link.in, m)
        PROVE  \A i \in DOMAIN link'.in : link'.in[i].kind = "C" =>
                 i \in DOMAIN link.in /\ link'.in[i] = link.in[i]
    BY <1>1, <2>4
  <2>5. ASSUME NEW m \in Message_, m.kind # "C", link'.in = <<m>>
        PROVE  \A i \in DOMAIN link'.in : link'.in[i].kind # "C"
    BY <2>5
  <2>6. QED
    BY <2>1, <2>2, <2>3, <2>4, <2>5 DEF CursorInv
<1>5. QED
  BY <1>2, <1>3, <1>4 DEF CursorInv

LEMMA CursorStep ==
  ASSUME Typed, LinkInv, CursorInv, [Next]_vars
  PROVE  CursorTypes' /\ CursorInv' /\ Forwards
<1>1. /\ worker \in Worker_ /\ link \in Link_ /\ link.in \in Seq(Message_)
  BY DEF Typed, ServerTypes, Worker_, Link_
<1>2. CASE UNCHANGED <<cursor, link, worker>>
  BY <1>2, CursorIdle DEF CursorInv, cursor
<1>3. CASE Connect
  <2>1. /\ UNCHANGED <<mapping, mailbox, look, worker>> /\ link.in = <<>> /\ link'.in = <<>>
        /\ link'.state = "asking" /\ shapes' = FreeShapes /\ pointer' = [shape |-> 0, position |-> 0]
    BY <1>1, <1>3 DEF Connect, LinkInv, Link_
  <2>2. FreeShapes \in [CursorSlots -> Shape_]
    BY CursorTyped DEF FreeShapes, Shape_
  <2>3. CursorTypes'
    <3>1. shapes' \in [CursorSlots -> Shape_]
      BY <2>1, <2>2
    <3>2. pointer' \in [shape : 0..MaxCursor, position : Nat]
      BY <2>1, CursorTyped
    <3>3. QED
      BY <2>1, <3>1, <3>2 DEF Typed, CursorTypes, Shape_
  <2>4. Forwards
    BY <2>1, CursorTyped DEF Forwards
  <2>5. CursorInv'
    BY <2>1 DEF CursorInv
  <2>6. QED
    BY <2>3, <2>4, <2>5
<1>4. CASE Leave
  <2>1. UNCHANGED <<cursor, worker>> /\ link'.in = link.in /\ link'.state = link.state
    BY <1>1, <1>4 DEF Leave, Link_
  <2>2. QED
    BY <2>1, CursorIdle DEF CursorInv, cursor
<1>5. CASE Resize \/ Draw \/ Malformed
  <2>1. \A m \in Message_ : Tell(m).state = link.state /\ Tell(m).in \in {link.in, Append(link.in, m)}
    BY <1>1 DEF Tell, Link_
  <2>2. /\ Message("F", 0) \in Message_ /\ Message("X", 0) \in Message_
        /\ Message("F", 0).kind # "C" /\ Message("X", 0).kind # "C"
    BY DEF Message, Message_
  <2>3. Resize => Message("D", writer.map + 1) \in Message_ /\ Message("D", writer.map + 1).kind # "C"
    <3>1. Resize => writer.map + 1 \in Maps
      BY DisplayTyped, DisplayAssumption DEF Resize, NewMap, Maps, DisplayAssumption, Writer_
    <3>2. QED
      BY <3>1 DEF Message, Message_
  <2>4. UNCHANGED <<cursor, worker>>
    BY <1>5 DEF Resize, Draw, Malformed
  <2>5. link' = link \/ \E m \in Message_ : m.kind # "C" /\ link' = Tell(m)
    BY <1>5, <2>2, <2>3 DEF Resize, Draw, Malformed
  <2>6. link'.state = link.state
    BY <2>1, <2>5
  <2>7. link'.in = link.in \/ \E m \in Message_ : m.kind # "C" /\ link'.in = Append(link.in, m)
    BY <2>1, <2>5
  <2>8. QED
    BY <2>4, <2>6, <2>7, CursorIdle DEF CursorInv, cursor
<1>6. CASE Consume
  <2>1. UNCHANGED <<cursor, worker>> /\ link.state = "up" /\ link'.state = "up"
    BY <1>1, <1>6 DEF Consume, Up, Link_
  <2>2. link'.in = link.in \/ \E m \in Message_ : m.kind # "C" /\ link'.in = Append(link.in, m)
    <3>1. link.out \in Seq(Event_) /\ link.out # <<>>
      BY <1>1, <1>6 DEF Consume, Link_
    <3>2. Head(link.out).id \in Nat
      BY <3>1 DEF Event_, Plain_
    <3>3. Message("A", Head(link.out).id) \in Message_ /\ Message("A", Head(link.out).id).kind # "C"
      BY <3>2 DEF Message, Message_
    <3>4. link'.in \in {link.in, Append(link.in, Message("A", Head(link.out).id))}
      BY <1>1, <1>6 DEF Consume, Link_
    <3>5. QED
      BY <3>3, <3>4
  <2>3. QED
    BY <2>1, <2>2, CursorIdle DEF CursorInv, cursor
<1>7. CASE Point
  <2>1. /\ UNCHANGED worker /\ Up /\ link.state = "up" /\ traffic = "cursor"
        /\ \A m \in Message_ : Tell(m).state = "up" /\ Tell(m).in = Append(link.in, m)
    BY <1>1, <1>7 DEF Point, Up, Tell, Link_
  <2>2. ASSUME NEW m \in Message_, link' = Tell(m)
        PROVE  /\ link'.state = "up" /\ Len(link'.in) = Len(link.in) + 1
               /\ DOMAIN link'.in = 1..Len(link'.in) /\ DOMAIN link.in = 1..Len(link.in)
               /\ \A i \in DOMAIN link.in : link'.in[i] = link.in[i]
               /\ link'.in[Len(link.in) + 1] = m /\ Len(link.in) \in Nat
    <3>1. link'.state = "up" /\ link'.in = Append(link.in, m)
      BY <2>1, <2>2
    <3>2. link.in \in Seq(Message_) /\ Append(link.in, m) \in Seq(Message_)
      BY <1>1
    <3>3. Len(link'.in) = Len(link.in) + 1 /\ Len(link.in) \in Nat
      BY <3>1, <3>2
    <3>4. /\ \A i \in DOMAIN link.in : link'.in[i] = link.in[i]
          /\ link'.in[Len(link.in) + 1] = m
      BY <3>1, <3>2
    <3>5. DOMAIN link'.in = 1..Len(link'.in) /\ DOMAIN link.in = 1..Len(link.in)
      BY <3>1, <3>2
    <3>6. QED
      BY <3>1, <3>3, <3>4, <3>5
  <2>3. CASE /\ pointer.position = 0 /\ link' = Tell(Message("C", 0))
             /\ pointer' = [pointer EXCEPT !.position = 1]
             /\ UNCHANGED <<shapes, mapping, mailbox, look>>
    <3>1. Message("C", 0) \in Message_
      BY DEF Message, Message_
    <3>2. pointer' \in Pointer_ /\ pointer'.position = 1
      BY <2>3, CursorTyped DEF Pointer_
    <3>3. \A i \in DOMAIN link.in : link.in[i].kind # "C"
      BY <2>3 DEF CursorInv
    <3>4. /\ link'.state = "up"
          /\ \A i \in DOMAIN link'.in : link'.in[i].kind = "C" => i = Len(link.in) + 1
      BY <2>2, <2>3, <3>1, <3>3
    <3>5. ~mapping.there
      BY <2>1, <2>3 DEF CursorInv
    <3>6. CursorTypes' /\ Forwards
      BY <2>3, <3>2, <3>5 DEF Typed, CursorTypes, Pointer_, Forwards
    <3>7. CursorInv'
      BY <2>1, <2>3, <3>2, <3>4, <3>5 DEF CursorInv
    <3>8. QED
      BY <3>6, <3>7
  <2>4. CASE PublishShape /\ link' = Tell(Message("S", 0))
    <3>1. Message("S", 0) \in Message_ /\ Message("S", 0).kind # "C"
      BY DEF Message, Message_
    <3>2. PICK s \in CursorSlots :
            /\ pointer.shape < MaxCursor
            /\ pointer' = [pointer EXCEPT !.shape = @ + 1]
            /\ shapes' = [shapes EXCEPT ![s] = [state |-> "ready", generation |-> pointer.shape + 1,
                                                position |-> pointer.position]]
      BY <2>4 DEF PublishShape
    <3>3. pointer.shape + 1 \in 0..MaxCursor
      BY <3>2, CursorTyped DEF Pointer_
    <3>4. pointer' \in Pointer_ /\ pointer'.position = pointer.position
      BY <3>2, <3>3, CursorTyped DEF Pointer_
    <3>5. shapes' \in [CursorSlots -> Shape_]
      BY <3>2, <3>3, CursorTyped DEF Shape_
    <3>6. UNCHANGED <<mapping, mailbox, look>>
      BY <2>4 DEF PublishShape
    <3>7. CursorTypes' /\ Forwards
      BY <3>4, <3>5, <3>6, CursorTyped DEF Typed, CursorTypes, Pointer_, Shape_, Forwards
    <3>8. /\ link'.state = "up"
          /\ \A i \in DOMAIN link'.in : link'.in[i].kind = "C" =>
               i \in DOMAIN link.in /\ link'.in[i] = link.in[i]
      BY <2>2, <2>4, <3>1
    <3>9. CursorInv'
      BY <2>1, <3>4, <3>6, <3>8 DEF CursorInv
    <3>10. QED
      BY <3>7, <3>9
  <2>5. CASE /\ pointer' = [pointer EXCEPT !.position = @ + 1] /\ pointer.position \in 1..MaxCursor
             /\ link' = Tell(Message("P", pointer.position + 1))
             /\ UNCHANGED <<shapes, mapping, mailbox, look>>
    <3>1. pointer' \in Pointer_ /\ pointer'.position # 0
      BY <2>5, CursorTyped DEF Pointer_
    <3>2. /\ Message("P", pointer.position + 1) \in Message_
          /\ Message("P", pointer.position + 1).kind # "C"
      BY CursorTyped DEF Message, Message_
    <3>3. CursorTypes' /\ Forwards
      BY <2>5, <3>1, CursorTyped DEF Typed, CursorTypes, Pointer_, Forwards
    <3>4. \A i \in DOMAIN link'.in : link'.in[i].kind = "C" =>
            i \in DOMAIN link.in /\ link'.in[i] = link.in[i]
      BY <2>2, <2>5, <3>2
    <3>5. CursorInv'
      BY <2>1, <2>5, <3>1, <3>4 DEF CursorInv
    <3>6. QED
      BY <3>3, <3>5
  <2>6. QED
    BY <1>7, <2>3, <2>4, <2>5 DEF Point
<1>8. CASE Top \/ Poll \/ Accept \/ Refill \/ Fill \/ AnnounceGone \/ Clear \/ Call \/ Exit
  <2>1. UNCHANGED <<cursor, link>>
    BY <1>8 DEF Top, Poll, Accept, Refill, Fill, AnnounceGone, Clear, Call, Exit
  <2>2. worker.pc # "look" /\ worker'.pc # "look"
    BY <1>1, <1>8 DEF Top, Poll, Accept, Refill, Fill, AnnounceGone, Clear, Call, Exit, Goto, Change,
       Worker_
  <2>3. QED
    BY <2>1, <2>2, CursorIdle DEF CursorInv, cursor
<1>9. CASE Write
  <2>1. /\ UNCHANGED cursor /\ link'.in = link.in /\ link'.state = link.state
        /\ worker.pc # "look" /\ worker'.pc # "look"
    BY <1>1, <1>9 DEF Write, Goto, Worker_, Link_
  <2>2. QED
    BY <2>1, CursorIdle DEF CursorInv, cursor
<1>10. CASE AnnounceUp
  <2>1. /\ UNCHANGED cursor /\ worker.pc # "look" /\ worker'.pc # "look"
        /\ link'.in = IF writer.map = 0 THEN <<>> ELSE <<Message("D", writer.map)>>
    BY <1>1, <1>10 DEF AnnounceUp, Goto, Worker_, NoLink
  <2>2. ~mapping.there
    BY <1>10 DEF AnnounceUp, LinkInv, Leaving
  <2>3. writer.map # 0 => Message("D", writer.map) \in Message_ /\ Message("D", writer.map).kind # "C"
    BY DisplayTyped DEF Message, Message_
  <2>4. link'.in = <<>> \/ \E m \in Message_ : m.kind # "C" /\ link'.in = <<m>>
    BY <2>1, <2>3
  <2>5. QED
    BY <2>1, <2>2, <2>4, CursorIdle DEF CursorInv, cursor
<1>11. CASE ExitAnnounce
  <2>1. /\ UNCHANGED cursor /\ worker.pc # "look" /\ worker'.pc # "look"
        /\ link'.in = <<>> /\ link'.state = "none"
    BY <1>1, <1>11 DEF ExitAnnounce, Goto, Worker_, NoLink
  <2>2. QED
    BY <2>1, CursorIdle DEF CursorInv, cursor
<1>12. CASE DropClient
  <2>1. /\ UNCHANGED <<shapes, pointer>> /\ mapping' = NoMapping /\ mailbox' = Hidden(mailbox)
        /\ look' = {} /\ worker'.pc # "look" /\ link'.in = <<>> /\ link'.state = "none"
    BY <1>1, <1>12 DEF DropClient, CursorDisconnect, Worker_, NoLink
  <2>2. NoMapping \in Mapping_ /\ ~NoMapping.there
    BY CursorTyped DEF NoMapping, Mapping_
  <2>3. Hidden(mailbox) \in Mailbox_ /\ (Hidden(mailbox).enabled => ~mailbox.there /\ mailbox.enabled)
    <3>1. CASE mailbox.there
      BY <3>1, CursorTyped DEF Hidden, Mailbox_
    <3>2. CASE ~mailbox.there
      BY <3>2, CursorTyped DEF Hidden
    <3>3. QED
      BY <3>1, <3>2
  <2>4. ~Hidden(mailbox).enabled
    BY <2>3 DEF CursorInv
  <2>5. CursorTypes' /\ Forwards
    BY <2>1, <2>2, <2>3, CursorTyped DEF Typed, CursorTypes, Mapping_, Mailbox_, Shape_, Pointer_, Forwards
  <2>6. CursorInv'
    BY <2>1, <2>2, <2>4 DEF CursorInv
  <2>7. QED
    BY <2>5, <2>6
<1>13. CASE Read
  <2> DEFINE m == Head(link.in)
             lost == m.kind = "X" \/ (m.kind \in {"S", "P"} /\ ~mapping.there)
  <2>1. worker.pc = "read" /\ link.state = "up" /\ look = {}
    BY <1>13 DEF Read, LinkInv, CursorInv
  <2>2. CASE link.in = <<>>
    <3>1. UNCHANGED <<cursor, link>> /\ worker'.pc # "look"
      BY <1>1, <1>13, <2>2 DEF Read, Goto, Worker_
    <3>2. QED
      BY <2>1, <3>1, CursorIdle DEF CursorInv, cursor
  <2>3. CASE link.in # <<>>
    <3>1. /\ m \in Message_ /\ m.kind \in {"F", "C", "S", "P", "X", "A", "D"} /\ m.id \in Nat
          /\ link.in[1] = m /\ 1 \in DOMAIN link.in
      <4>1. m \in Message_ /\ link.in[1] = m /\ 1 \in DOMAIN link.in
        BY <1>1, <2>3
      <4>2. QED
        BY <4>1, DisplayAssumption DEF Message_, Maps, DisplayAssumption
    <3>2. link'.in = Tail(link.in) /\ link'.state = "up"
      BY <1>1, <1>13, <2>1, <2>3 DEF Read, Link_
    <3>3. CASE lost \/ m.kind \in {"A", "F", "D"}
      <4>1. UNCHANGED cursor /\ worker'.pc # "look"
        BY <1>1, <1>13, <2>1, <2>3, <3>1, <3>3 DEF Read, Goto, Change, Worker_
      <4>2. QED
        BY <2>1, <2>3, <3>2, <4>1, CursorIdle DEF CursorInv, cursor
    <3>4. /\ DOMAIN link'.in \subseteq Nat
          /\ \A i \in DOMAIN link'.in : i + 1 \in DOMAIN link.in /\ link'.in[i] = link.in[i + 1]
      BY <1>1, <2>3, <3>2
    <3>5. CASE ~lost /\ m.kind = "S"
      <4>1. /\ look' = {[next |-> 1, generation |-> mapping.shape, position |-> 0]} /\ mapping.there
            /\ UNCHANGED <<shapes, pointer, mapping, mailbox>> /\ worker'.pc = "look"
        BY <1>1, <1>13, <2>1, <2>3, <3>1, <3>5 DEF Read, Goto, Worker_, LookBegin
      <4>2. [next |-> 1, generation |-> mapping.shape, position |-> 0] \in Look_
        BY CursorTyped DEF Look_
      <4>3. CursorTypes' /\ Forwards
        <5>1. \E k \in Look_ : look' = {k}
          BY <4>1, <4>2
        <5>2. QED
          BY <4>1, <5>1, CursorTyped DEF Typed, CursorTypes, Look_, Forwards
      <4>4. \A k \in look' : k.generation >= mapping'.shape
        BY <4>1, CursorTyped
      <4>5. CursorInv'
        BY <2>1, <3>2, <3>4, <4>1, <4>4 DEF CursorInv
      <4>6. QED
        BY <4>3, <4>5
    <3>6. CASE ~lost /\ m.kind = "P"
      <4>1. /\ mapping.there /\ UNCHANGED <<shapes, pointer, look>> /\ worker'.pc # "look"
            /\ IF ~(m.id > mapping.position) THEN UNCHANGED <<mapping, mailbox>>
               ELSE /\ mapping' = [mapping EXCEPT !.position = m.id]
                    /\ mailbox' = [mailbox EXCEPT !.position = m.id, !.enabled = TRUE,
                                                  !.revision = @ + 1]
        BY <1>1, <1>13, <2>1, <2>3, <3>1, <3>6 DEF Read, Change, Worker_, ReceivePosition, Moves
      <4>2. CASE UNCHANGED <<mapping, mailbox>>
        BY <2>1, <2>3, <3>2, <4>1, <4>2, CursorIdle DEF CursorInv, cursor
      <4>3. CASE m.id > mapping.position
        <5>1. /\ mapping' = [mapping EXCEPT !.position = m.id]
              /\ mailbox' = [mailbox EXCEPT !.position = m.id, !.enabled = TRUE, !.revision = @ + 1]
          BY <4>1, <4>3
        <5>2. /\ mapping' \in Mapping_ /\ mapping'.there /\ mapping'.position = m.id
              /\ mapping'.shape = mapping.shape
          BY <3>1, <4>1, <5>1, CursorTyped DEF Mapping_
        <5>3. mailbox' \in Mailbox_ /\ mailbox'.position = m.id /\ mailbox'.there = mailbox.there
          BY <3>1, <5>1, CursorTyped DEF Mailbox_
        <5>4. CursorTypes'
          BY <4>1, <5>2, <5>3 DEF Typed, CursorTypes, Mapping_, Mailbox_
        <5>5. Forwards
          BY <3>1, <4>1, <4>3, <5>2, <5>3, CursorTyped DEF Forwards, CursorInv
        <5>6. CursorInv'
          BY <2>1, <3>2, <3>4, <4>1, <5>2, <5>3 DEF CursorInv
        <5>7. QED
          BY <5>4, <5>5, <5>6
      <4>4. QED
        BY <4>1, <4>2, <4>3
    <3>7. CASE m.kind = "C"
      <4>1. /\ mapping' = [NoMapping EXCEPT !.there = TRUE]
            /\ mailbox' = [there |-> TRUE, shape |-> 0, position |-> 0, enabled |-> FALSE,
                           revision |-> mailbox.revision + 1]
            /\ UNCHANGED <<shapes, pointer, look>> /\ worker'.pc # "look"
        BY <1>1, <1>13, <2>1, <2>3, <3>1, <3>7 DEF Read, Change, Worker_, ReceiveMapping
      <4>2. ~mapping.there /\ pointer.position # 0
        BY <3>1, <3>7 DEF CursorInv
      <4>3. \A i \in DOMAIN link'.in : link'.in[i].kind # "C"
        <5>1. \A i \in DOMAIN link.in : link.in[i].kind = "C" => i = 1
          BY <3>1, <3>7 DEF CursorInv
        <5>2. \A i \in DOMAIN link'.in : i + 1 # 1
          BY <1>1, <2>3, <3>2
        <5>3. QED
          BY <3>4, <5>1, <5>2
      <4>4. /\ mapping' \in Mapping_ /\ mapping'.there /\ mapping'.position = 0
        <5>1. mapping' = [there |-> TRUE, shape |-> 0, position |-> 0]
          BY <4>1 DEF NoMapping
        <5>2. 0 \in 0..MaxCursor
          BY CursorTyped
        <5>3. QED
          BY <5>1, <5>2 DEF Mapping_
      <4>5. mailbox' \in Mailbox_ /\ mailbox'.there /\ mailbox'.position = 0 /\ ~mailbox'.enabled
        BY <4>1, CursorTyped DEF Mailbox_
      <4>6. CursorTypes' /\ Forwards
        BY <4>1, <4>2, <4>4, <4>5, CursorTyped DEF Typed, CursorTypes, Mapping_, Mailbox_, Forwards
      <4>7. CursorInv'
        BY <2>1, <3>2, <4>1, <4>2, <4>3, <4>4, <4>5 DEF CursorInv
      <4>8. QED
        BY <4>6, <4>7
    <3>8. QED
      BY <3>1, <3>3, <3>5, <3>6, <3>7
  <2>4. QED
    BY <2>2, <2>3
<1>14. CASE Look
  <2>1. UNCHANGED link /\ worker.pc = "look" /\ mapping.there
    BY <1>14 DEF Look, CursorInv
  <2>2. PICK k \in Look_ : look = {k}
    BY <2>1, CursorTyped DEF CursorInv
  <2>3. k.generation >= mapping.shape /\ k.generation \in 0..MaxCursor /\ k.position \in Nat /\ k.next \in 1..4
    BY <2>2 DEF CursorInv, Look_
  <2>4. CASE LookSlot /\ UNCHANGED worker
    <3> DEFINE s == shapes[k.next]
               found == [next |-> k.next + 1, generation |-> s.generation, position |-> s.position]
               past == [k EXCEPT !.next = @ + 1]
    <3>1. k.next \in CursorSlots /\ UNCHANGED <<pointer, mapping, mailbox>>
      BY <2>2, <2>4 DEF LookSlot
    <3>2. s \in Shape_ /\ s.generation \in 0..MaxCursor /\ s.position \in Nat
      BY <3>1, CursorTyped DEF Shape_
    <3>3. found \in Look_ /\ past \in Look_ /\ past.generation = k.generation /\ found.generation = s.generation
      BY <3>1, <3>2 DEF Look_, CursorSlots
    <3>4. look' \in {{found}, {past}} /\ (look' = {found} => look' = {past} \/ s.generation > k.generation)
      <4>1. look' = IF s.state = "ready" /\ s.generation > k.generation THEN {found} ELSE {past}
        BY <2>2, <2>4 DEF LookSlot, Newer
      <4>2. QED
        BY <4>1
    <3>5. shapes' \in [CursorSlots -> Shape_]
      BY <2>2, <2>4, <3>1, CursorTyped DEF LookSlot, Shape_
    <3> HIDE DEF s, found, past
    <3>6. PICK l \in Look_ : look' = {l} /\ l.generation >= mapping.shape
      <4>1. CASE look' = {past}
        BY <2>3, <3>3, <4>1, CursorTyped
      <4>2. CASE look' = {found} /\ s.generation > k.generation
        BY <2>3, <3>2, <3>3, <4>2, CursorTyped
      <4>3. QED
        BY <3>4, <4>1, <4>2
    <3>7. CursorTypes' /\ Forwards
      BY <3>1, <3>5, <3>6, CursorTyped DEF Typed, CursorTypes, Look_, Shape_, Forwards
    <3>8. CursorInv'
      BY <2>1, <2>4, <3>1, <3>6 DEF CursorInv
    <3>9. QED
      BY <3>7, <3>8
  <2>5. CASE LookEnd /\ worker'.pc = "read"
    <3>1. /\ look' = {} /\ UNCHANGED <<shapes, pointer>>
          /\ IF k.generation = mapping.shape THEN UNCHANGED <<mapping, mailbox>>
             ELSE /\ mailbox' = [mailbox EXCEPT !.shape = k.generation, !.revision = @ + 1,
                         !.position = IF k.position > mapping.position THEN k.position ELSE @,
                         !.enabled = @ \/ k.position > mapping.position]
                  /\ mapping' = [mapping EXCEPT !.shape = k.generation,
                         !.position = IF k.position > mapping.position THEN k.position ELSE @]
      BY <2>2, <2>5 DEF LookEnd, Moves
    <3>2. /\ mapping' \in Mapping_ /\ mapping'.there /\ mapping'.shape >= mapping.shape
          /\ mapping'.position \in Nat /\ mapping'.position >= mapping.position
          /\ mailbox' \in Mailbox_ /\ mailbox'.there /\ mailbox'.position = mapping'.position
      <4>1. CASE k.generation = mapping.shape
        BY <2>1, <3>1, <4>1, CursorTyped DEF CursorInv
      <4>2. CASE k.generation # mapping.shape
        <5>1. mapping' \in Mapping_ /\ mapping'.there /\ mapping'.shape = k.generation
              /\ mapping'.position = (IF k.position > mapping.position THEN k.position ELSE mapping.position)
          BY <2>1, <2>3, <3>1, <4>2, CursorTyped DEF Mapping_
        <5>2. mailbox.there /\ mailbox.position = mapping.position
          BY <2>1 DEF CursorInv
        <5>3. mailbox' \in Mailbox_ /\ mailbox'.there
              /\ mailbox'.position = (IF k.position > mapping.position THEN k.position ELSE mailbox.position)
          BY <2>3, <3>1, <4>2, <5>2, CursorTyped DEF Mailbox_
        <5>4. QED
          BY <2>3, <5>1, <5>2, <5>3, CursorTyped
      <4>3. QED
        BY <4>1, <4>2
    <3>3. CursorTypes' /\ Forwards
      <4>1. mailbox'.position >= mailbox.position
        BY <2>1, <3>2, CursorTyped DEF CursorInv
      <4>2. QED
        BY <3>1, <3>2, <4>1, CursorTyped DEF Typed, CursorTypes, Mapping_, Mailbox_, Forwards
    <3>4. CursorInv'
      <4>1. \A i \in DOMAIN link'.in : link'.in[i].kind # "C"
        BY <2>1 DEF CursorInv
      <4>2. link.state = "up" => pointer.position # 0
        BY <2>1 DEF CursorInv
      <4>3. QED
        BY <2>1, <2>5, <3>1, <3>2, <4>1, <4>2 DEF CursorInv
    <3>5. QED
      BY <3>3, <3>4
  <2>6. QED
    BY <1>1, <1>14, <2>1, <2>4, <2>5 DEF Look, Change, Goto, Worker_
<1>15. CASE Stop \/ InputTraffic \/ UiPoll \/ UiChanged \/ UiLook \/ UiClaim \/ UiDrops \/ UNCHANGED vars
  <2>1. UNCHANGED <<cursor, link, worker>>
    BY <1>15 DEF Stop, InputTraffic, UiPoll, UiChanged, UiLook, UiClaim, UiDrops, vars
  <2>2. QED
    BY <1>2, <2>1
<1>16. QED
  BY <1>3, <1>4, <1>5, <1>6, <1>7, <1>8, <1>9, <1>10, <1>11, <1>12, <1>13, <1>14, <1>15
     DEF Next, Qemu, Worker, Program

-----------------------------------------------------------------------------
(* The wake byte.  An event that is pushed on an empty queue, and the stop, leave one for a sleeping worker. *)

WakeInv ==
  /\ worker.pc = "poll" /\ ~worker.pollout /\ queue.events # <<>> => wake
  /\ stop /\ worker.pc = "poll" => wake

LEMMA TrafficWakes ==
  ASSUME Typed, InputTraffic
  PROVE  /\ UNCHANGED <<worker, stop>> /\ (wake => wake')
         /\ queue'.events # <<>> => queue.events # <<>> \/ wake'
<1>1. UNCHANGED <<worker, stop>> /\ wake \in BOOLEAN
  BY DEF InputTraffic, Typed, InputTypes
<1> DEFINE Good == (wake => wake') /\ (queue'.events # <<>> => queue.events # <<>> \/ wake')
<1>2. ASSUME NEW e, Send(e)
      PROVE  Good
  BY <1>1, <1>2 DEF Send, Wakes
<1>3. ASSUME NEW q, NEW e, SetHost(q, e)
      PROVE  Good
  BY <1>3 DEF SetHost
<1>4. (\E kind \in {"rel", "abs"} : SendMotion(kind)) \/ SendButton \/ ResetAndWait => Good
  BY <1>2 DEF SendMotion, SendButton, ResetAndWait
<1>5. SetMouseCapture \/ SetHostRefresh => Good
  BY <1>3 DEF SetMouseCapture, SetHostRefresh
<1>6. WaitEnds => Good
  BY DEF WaitEnds
<1>7. QED
  BY <1>1, <1>4, <1>5, <1>6 DEF InputTraffic

LEMMA WakeStep ==
  ASSUME Typed, LinkInv, WakeInv, [Next]_vars
  PROVE  WakeInv'
<1>1. worker \in Worker_ /\ queue \in Queue_
  BY DEF Typed, ServerTypes, InputTypes, Worker_, Queue_
<1>2. CASE Qemu
  <2>1. UNCHANGED <<worker, input, stop>>
    BY <1>2 DEF Qemu, Connect, Leave, Resize, Draw, Point, Malformed, Consume
  <2>2. QED
    BY <2>1 DEF WakeInv, input
<1>3. CASE Top
  <2>1. UNCHANGED <<input, stop>>
    BY <1>3 DEF Top
  <2>2. CASE stop
    BY <1>1, <1>3, <2>1, <2>2 DEF Top, Worker_, WakeInv
  <2>3. CASE ~stop
    <3> DEFINE output == worker.partial # <<>> \/ queue.events # <<>>
    <3>1. worker' = [worker EXCEPT !.pc = "poll", !.changed = FALSE, !.pollout = output]
      BY <1>3, <2>3 DEF Top
    <3>2. queue.events # <<>> => output
      OBVIOUS
    <3> HIDE DEF output
    <3>3. worker'.pollout = output
      BY <1>1, <3>1 DEF Worker_
    <3>4. QED
      BY <2>1, <2>3, <3>2, <3>3 DEF WakeInv, input
  <2>4. QED
    BY <2>2, <2>3
<1>4. CASE Worker /\ ~Top
  <2>1. worker'.pc # "poll"
    <3>1. CASE Poll \/ Accept \/ Refill \/ AnnounceUp \/ Fill \/ Write \/ DropClient \/ AnnounceGone
      BY <1>1, <3>1 DEF Poll, Accept, Refill, AnnounceUp, Fill, Write, DropClient, AnnounceGone, Goto, Worker_
    <3>2. CASE Clear \/ Call \/ Exit \/ ExitAnnounce \/ Look
      BY <1>1, <3>2 DEF Clear, Call, Exit, ExitAnnounce, Look, Goto, Change, Worker_
    <3>3. CASE Read
      <4>1. worker'.pc \in {"read", "look", "write", "drop"}
        <5>1. CASE link.in = <<>>
          BY <1>1, <3>3, <5>1 DEF Read, Goto, Worker_
        <5>2. CASE link.in # <<>>
          <6>1. Head(link.in).kind \in {"F", "C", "S", "P", "X", "A", "D"}
            <7>1. Head(link.in) \in Message_
              BY <5>2 DEF Typed, ServerTypes
            <7>2. QED
              BY <7>1 DEF Message_
          <6>2. QED
            BY <1>1, <3>3, <5>2, <6>1 DEF Read, Goto, Change, Worker_
        <5>3. QED
          BY <5>1, <5>2
      <4>2. QED
        BY <4>1
    <3>4. QED
      BY <1>4, <3>1, <3>2, <3>3 DEF Worker
  <2>2. QED
    BY <2>1 DEF WakeInv
<1>5. CASE Stop
  BY <1>5 DEF Stop, Stops, WakeInv
<1>6. CASE InputTraffic
  BY <1>6, TrafficWakes DEF WakeInv
<1>7. CASE UiPoll \/ UiChanged \/ UiLook \/ UiClaim \/ UiDrops \/ UNCHANGED vars
  <2>1. UNCHANGED <<worker, input, stop>>
    BY <1>7 DEF UiPoll, UiChanged, UiLook, UiClaim, UiDrops, vars
  <2>2. QED
    BY <2>1 DEF WakeInv, input
<1>8. QED
  BY <1>2, <1>3, <1>4, <1>5, <1>6, <1>7 DEF Next, Program

-----------------------------------------------------------------------------
(* The invariant of the server without its input: types, the connection, the frames, the cursor and the wake. *)

ServerInv == Typed /\ LinkInv /\ OwnerInv /\ CursorInv /\ WakeInv

LEMMA ServerInit == Init => ServerInv
<1> SUFFICES ASSUME Init PROVE ServerInv
  OBVIOUS
<1>1. Typed
  BY TypedInit
<1>2. LinkInv
  <2>1. Len(<<>>) <= 1 /\ Len(<<>>) <= Capacity
    BY Capacities
  <2>2. QED
    BY <2>1 DEF Init, InputInit, CursorInit, NoLink, NoMapping, LinkInv, Leaving
<1>3. OwnerInv
  <2>1. Owned = {} /\ writer.slot = 0
    BY DEF Init, DisplayInit, NoView, Owned, OwnersOf
  <2>2. \A m \in Maps, s \in Slots : maps[m].slot[s].state = "free" /\ s # 0
    BY DEF Init, DisplayInit, Slots
  <2>3. QED
    BY <2>1, <2>2 DEF OwnerInv, ReadingInv, WritingInv
<1>4. CursorInv /\ WakeInv
  BY DEF Init, CursorInit, InputInit, NoLink, NoMapping, CursorInv, WakeInv
<1>5. QED
  BY <1>1, <1>2, <1>3, <1>4 DEF ServerInv

LEMMA ServerStep ==
  ASSUME ServerInv, [Next]_vars
  PROVE  ServerInv' /\ Forwards
<1>1. Typed /\ LinkInv /\ OwnerInv /\ CursorInv /\ WakeInv
  BY DEF ServerInv
<1>2. InputTypes' /\ ServerTypes'
  <2>1. CASE UNCHANGED vars
    BY <1>1, <2>1 DEF Typed, InputTypes, ServerTypes, vars, input
  <2>2. QED
    BY <1>1, <2>1, QemuTyped, WorkerTyped, ProgramTyped DEF Next
<1>3. DisplayTypes' /\ OwnerInv'
  BY <1>1, OwnerStep
<1>4. CursorTypes' /\ CursorInv' /\ Forwards
  BY <1>1, CursorStep
<1>5. QED
  BY <1>1, <1>2, <1>3, <1>4, LinkStep, WakeStep DEF ServerInv, Typed

(* The worker never sleeps over queued input or the stop, and no cursor is shown for a connection that is     *)
(* gone, whatever the bounds.                                                                                 *)
THEOREM WakesCorrect == Spec => []WorkerWakes
<1>1. ServerInv => WorkerWakes
  BY DEF ServerInv, WakeInv, CursorInv, WorkerWakes, NoStrandedInput, StopWakes, NoGhostCursor
<1>2. ServerInv /\ [Next]_vars => ServerInv'
  BY ServerStep
<1>3. QED
  BY <1>1, <1>2, ServerInit, PTL DEF Spec

(* While a connection's cursor channel lasts, neither the shape nor the position shown goes back.  *)
LEMMA CursorCorrect == Spec => CursorForwards
<1>1. ServerInv /\ [Next]_vars => ServerInv'
  BY ServerStep
<1>2. ServerInv /\ [Next]_vars =>
        [ mapping.there /\ mapping'.there =>
            mapping'.shape >= mapping.shape /\ mailbox'.position >= mailbox.position ]_vars
  BY ServerStep DEF Forwards
<1>3. QED
  BY <1>1, <1>2, ServerInit, PTL DEF Spec, CursorForwards

-----------------------------------------------------------------------------
(* What the steps of QEMU and of the consumer leave of the mappings. *)

SameFrames ==
  \A m \in Maps :
    /\ maps'[m].frame_counter = maps[m].frame_counter
    /\ \A s \in Slots : maps'[m].slot[s].generation = maps[m].slot[s].generation
SameReady ==
  \A m \in Maps, s \in Slots : maps[m].slot[s].state = "ready" => maps'[m].slot[s].state = "ready"

LEMMA DroppingKeeps ==
  ASSUME Typed, OwnerInv, maps' = Dropping(maps, view', scan', held')
  PROVE  SameFrames /\ SameReady
<1>1. maps \in [Maps -> Map_]
  BY DisplayTyped
<1>2. /\ \A m \in Maps : maps'[m].frame_counter = maps[m].frame_counter
      /\ \A m \in Maps, s \in Slots :
           /\ maps'[m].slot[s].generation = maps[m].slot[s].generation
           /\ <<m, s>> \notin OwnersOf(view, scan, held) =>
                maps'[m].slot[s].state = maps[m].slot[s].state
  BY <1>1, DroppingEffect
<1>3. \A m \in Maps, s \in Slots : maps[m].slot[s].state = "ready" => <<m, s>> \notin OwnersOf(view, scan, held)
  BY DEF OwnerInv, ReadingInv, Owned
<1>4. QED
  BY <1>2, <1>3 DEF SameFrames, SameReady

LEMMA WriteBegins ==
  ASSUME Typed, WriteBegin
  PROVE  /\ SameFrames /\ writer'.slot # 0 /\ writer'.map = writer.map /\ writer'.frames = writer.frames
<1>1. maps \in [Maps -> Map_] /\ writer \in Writer_
  BY DisplayTyped
<1>2. PICK s \in Slots :
        /\ writer.map # 0 /\ maps' = [maps EXCEPT ![writer.map].slot[s].state = "writing"]
        /\ writer' = [writer EXCEPT !.slot = s]
  BY DEF WriteBegin
<1>3. writer.map \in Maps /\ Sets(maps, maps', writer.map, s, "writing")
  BY <1>2, DisplayTyped DEF Sets
<1>4. SameFrames
  BY <1>1, <1>3, WordSet DEF SameFrames
<1>5. writer'.slot = s /\ s # 0 /\ writer'.map = writer.map /\ writer'.frames = writer.frames
  BY <1>1, <1>2 DEF Writer_, Slots
<1>6. QED
  BY <1>4, <1>5

(* A finished frame gets the next number, in its slot and as its mapping's frame counter. *)
LEMMA WriteEnds ==
  ASSUME Typed, WriteEnd
  PROVE  /\ writer.map \in Maps /\ writer.slot \in Slots
         /\ writer'.map = writer.map /\ writer'.slot = 0 /\ writer'.frames = writer.frames + 1
         /\ maps'[writer.map].frame_counter = writer.frames + 1
         /\ maps'[writer.map].slot[writer.slot].generation = writer.frames + 1
         /\ maps'[writer.map].slot[writer.slot].state = "ready"
         /\ \A m \in Maps : m # writer.map => maps'[m] = maps[m]
         /\ \A s \in Slots : s # writer.slot => maps'[writer.map].slot[s] = maps[writer.map].slot[s]
<1> DEFINE m == writer.map
           s == writer.slot
           n == writer.frames + 1
           word == [state |-> "ready", generation |-> n]
<1>1. /\ maps \in [Maps -> Map_] /\ writer \in Writer_ /\ m \in Maps /\ s \in Slots /\ n \in Nat
      /\ maps' = [maps EXCEPT ![m].slot[s] = word, ![m].frame_counter = n]
      /\ writer' = [writer EXCEPT !.slot = 0, !.frames = n]
  BY DisplayTyped DEF WriteEnd
<1>2. maps[m] \in Map_ /\ maps[m].slot \in [Slots -> Slot_]
  BY <1>1 DEF Map_
<1>3. word.state = "ready" /\ word.generation = n
  OBVIOUS
<1> HIDE DEF n, word
<1>4. writer'.map = m /\ writer'.slot = 0 /\ writer'.frames = n
  BY <1>1 DEF Writer_
<1> HIDE DEF m, s
<1> DEFINE words == [maps[m].slot EXCEPT ![s] = word]
<1>5. words[s] = word /\ \A t \in Slots : t # s => words[t] = maps[m].slot[t]
  BY <1>1, <1>2
<1> DEFINE map == [[maps[m] EXCEPT !.slot = words] EXCEPT !.frame_counter = n]
<1>6. maps' = [maps EXCEPT ![m] = map]
  BY <1>1, <1>2 DEF Map_
<1> HIDE DEF words
<1>7. map.slot = words /\ map.frame_counter = n
  BY <1>2 DEF Map_
<1> HIDE DEF map
<1>8. maps'[m].slot = words /\ maps'[m].frame_counter = n /\ \A k \in Maps : k # m => maps'[k] = maps[k]
  BY <1>1, <1>6, <1>7
<1>9. /\ maps'[m].slot[s].generation = n /\ maps'[m].slot[s].state = "ready"
      /\ \A t \in Slots : t # s => maps'[m].slot[t] = maps[m].slot[t]
  BY <1>3, <1>5, <1>8
<1>10. m \in Maps /\ s \in Slots
  BY <1>1
<1>11. QED
  BY <1>4, <1>8, <1>9, <1>10 DEF m, s, n

(* One step of a scan: the slot looked at is kept as the best so far, or given back if it was ready. *)
LEMMA ScanLooks ==
  ASSUME Typed, OwnerInv, ScanSlot
  PROVE  \E c \in Scan_, d \in Scan_ :
           /\ scan = {c} /\ scan' = {d} /\ c.next \in Slots /\ d.next = c.next + 1 /\ view.map \in Maps
           /\ SameFrames /\ UNCHANGED <<writer, received, view, held>>
           /\ \A m \in Maps, s \in Slots :
                <<m, s>> # <<view.map, c.next>> /\ maps[m].slot[s].state = "ready" =>
                  maps'[m].slot[s].state = "ready"
           /\ \/ d.best = c.best /\ ~(maps[view.map].slot[c.next].state = "ready" /\ Keeps(c, c.next))
              \/ d.best = c.next /\ maps[view.map].slot[c.next].state = "ready" /\ Keeps(c, c.next)
<1>1. maps \in [Maps -> Map_]
  BY DisplayTyped
<1>2. PICK c \in scan :
        /\ c.next \in Slots
        /\ IF maps[view.map].slot[c.next].state = "ready"
             THEN IF Keeps(c, c.next)
                    THEN /\ scan' = {[next |-> c.next + 1, best |-> c.next]}
                         /\ maps' = [Dropping(maps, view, scan', held)
                                       EXCEPT ![view.map].slot[c.next].state = "reading"]
                    ELSE /\ scan' = {[c EXCEPT !.next = @ + 1]}
                         /\ maps' = [maps EXCEPT ![view.map].slot[c.next].state = "free"]
             ELSE /\ scan' = {[c EXCEPT !.next = @ + 1]} /\ UNCHANGED maps
  BY DEF ScanSlot, GivenBack
<1>3. UNCHANGED <<writer, received, view, held>>
  BY DEF ScanSlot
<1> DEFINE m == view.map
           s == c.next
           kept == [next |-> s + 1, best |-> s]
           past == [c EXCEPT !.next = @ + 1]
           good == maps[m].slot[s].state = "ready" /\ Keeps(c, s)
<1>4. c \in Scan_ /\ scan = {c} /\ m \in Maps /\ s \in Slots
  BY <1>2, DisplayTyped
<1>5. kept \in Scan_ /\ kept.next = c.next + 1 /\ kept.best = s
  BY <1>4 DEF Scan_, Slots
<1>6. past \in Scan_ /\ past.next = c.next + 1 /\ past.best = c.best
  BY <1>4 DEF Scan_, Slots
<1>7. CASE good
  <2> DEFINE M == Dropping(maps, view, {kept}, held)
  <2>1. scan' = {kept} /\ maps' = [M EXCEPT ![m].slot[s].state = "reading"]
    BY <1>2, <1>7
  <2>2. /\ M \in [Maps -> Map_]
        /\ \A n \in Maps : M[n].frame_counter = maps[n].frame_counter
        /\ \A n \in Maps, t \in Slots :
             /\ M[n].slot[t].generation = maps[n].slot[t].generation
             /\ <<n, t>> \notin OwnersOf(view, scan, held) => M[n].slot[t].state = maps[n].slot[t].state
    BY <1>1, DroppingEffect
  <2>3. \A n \in Maps, t \in Slots : maps[n].slot[t].state = "ready" => <<n, t>> \notin OwnersOf(view, scan, held)
    BY DEF OwnerInv, ReadingInv, Owned
  <2> HIDE DEF M
  <2>4. Sets(M, maps', m, s, "reading")
    BY <2>1 DEF Sets
  <2>5. /\ \A n \in Maps : maps'[n].frame_counter = M[n].frame_counter
        /\ \A n \in Maps, t \in Slots :
              /\ maps'[n].slot[t].generation = M[n].slot[t].generation
              /\ <<n, t>> # <<m, s>> => maps'[n].slot[t].state = M[n].slot[t].state
    BY <1>4, <2>2, <2>4, WordSet
  <2>6. SameFrames
    BY <2>2, <2>5 DEF SameFrames
  <2>7. \A n \in Maps, t \in Slots : <<n, t>> # <<m, s>> /\ maps[n].slot[t].state = "ready" =>
          maps'[n].slot[t].state = "ready"
    BY <2>2, <2>3, <2>5
  <2> HIDE DEF kept, good
  <2>8. QED
    BY <1>3, <1>4, <1>5, <1>7, <2>1, <2>6, <2>7 DEF good
<1>8. CASE ~good
  <2>1. /\ scan' = {past}
        /\ maps' = maps \/ maps' = [maps EXCEPT ![m].slot[s].state = "free"]
    BY <1>2, <1>8
  <2>2. CASE maps' = maps
    BY <1>3, <1>4, <1>6, <1>8, <2>1, <2>2 DEF SameFrames
  <2>3. CASE maps' = [maps EXCEPT ![m].slot[s].state = "free"]
    <3>1. Sets(maps, maps', m, s, "free")
      BY <2>3 DEF Sets
    <3>2. /\ \A n \in Maps : maps'[n].frame_counter = maps[n].frame_counter
          /\ \A n \in Maps, t \in Slots :
                /\ maps'[n].slot[t].generation = maps[n].slot[t].generation
                /\ <<n, t>> # <<m, s>> => maps'[n].slot[t].state = maps[n].slot[t].state
      BY <1>1, <1>4, <3>1, WordSet
    <3>3. SameFrames
      BY <3>2 DEF SameFrames
    <3>4. QED
      BY <1>3, <1>4, <1>6, <1>8, <2>1, <3>2, <3>3
  <2>4. QED
    BY <2>1, <2>2, <2>3
<1>9. QED
  BY <1>7, <1>8

-----------------------------------------------------------------------------
(* The frame numbers.  They only grow, no two slots of a mapping carry the same one, and what the consumer    *)
(* shows and what its scan keeps for it are numbered by it.                                                   *)

TableInv ==
  /\ \A m \in Maps : /\ maps[m].frame_counter <= writer.frames
                     /\ m > writer.map => maps[m].frame_counter = 0
  /\ \A m \in Maps, s \in Slots : Generation(m, s) <= maps[m].frame_counter
  /\ \A m \in Maps, s, t \in Slots :
       Generation(m, s) = Generation(m, t) /\ Generation(m, s) # 0 => s = t
ShownInv ==
  /\ view.map # 0 => /\ view.last_frame <= maps[view.map].frame_counter
                     /\ view.notified <= maps[view.map].frame_counter
  /\ view.current # 0 => Generation(view.map, view.current) = view.last_frame
  /\ \A k \in scan : k.best # 0 => Generation(view.map, k.best) > view.last_frame

StartsScan ==
  /\ ScanBegin /\ view.map # 0 /\ UNCHANGED <<maps, writer, received, held>>
  /\ UNCHANGED view \/ view' = [view EXCEPT !.notified = maps[view.map].frame_counter]
TakesDisplay == UNCHANGED <<maps, writer, view, scan, held>>
FirstMap ==
  /\ writer.map = 0 /\ writer' = [writer EXCEPT !.map = 1]
  /\ UNCHANGED <<maps, received, view, scan, held>>

(* The steps of the display that a step of the system can be. *)
LEMMA DisplayMoves ==
  ASSUME Typed, [Next]_vars
  PROVE  \/ TakesDisplay \/ FirstMap \/ NewMap \/ WriteBegin \/ WriteEnd \/ PollDisplay \/ StartsScan
         \/ ScanSlot \/ ScanEnd \/ DiscardCurrent \/ DropFrame
<1>1. CASE Connect
  BY <1>1 DEF Connect, FirstMap, TakesDisplay
<1>2. CASE Leave \/ Resize \/ Draw \/ Point \/ Malformed \/ Consume
  BY <1>2 DEF Leave, Resize, Draw, Point, Malformed, Consume, display, TakesDisplay
<1>3. CASE Worker
  <2>1. CASE Top \/ Poll \/ Accept \/ Refill \/ AnnounceUp \/ Look \/ Fill \/ Write \/ DropClient
           \/ AnnounceGone \/ Clear \/ Call \/ Exit \/ ExitAnnounce
    BY <2>1 DEF Top, Poll, Accept, Refill, AnnounceUp, Look, Fill, Write, DropClient,
       AnnounceGone, Clear, Call, Exit, ExitAnnounce, display, TakesDisplay
  <2>2. CASE Read /\ link.in = <<>>
    BY <2>2 DEF Read, display, TakesDisplay
  <2>3. CASE Read /\ link.in # <<>>
    <3>1. Head(link.in) \in Message_
      BY <2>3 DEF Typed, ServerTypes
    <3>2. Head(link.in).kind \in {"D", "F", "C", "S", "P", "X", "A"}
      BY <3>1 DEF Message_
    <3>3. CASE Head(link.in).kind \in {"X", "S", "P"}
      BY <2>3, <3>3 DEF Read, display, TakesDisplay
    <3>4. CASE Head(link.in).kind \in {"D", "F", "C", "A"}
      BY <2>3, <3>4 DEF Read, display, TakesDisplay
    <3>5. QED
      BY <3>2, <3>3, <3>4
  <2>4. QED
    BY <1>3, <2>1, <2>2, <2>3 DEF Worker
<1>4. CASE Program
  <2>1. CASE Stop \/ InputTraffic
    BY <2>1 DEF Stop, InputTraffic, display, TakesDisplay
  <2>2. CASE UiPoll \/ UiDrops \/ UiClaim
    BY <2>2 DEF UiPoll, UiDrops, UiClaim, display, TakesDisplay
  <2>3. CASE UiChanged \/ UiLook
    BY <2>3 DEF UiChanged, UiLook, TakeFrameChanged, StartsScan, display, TakesDisplay
  <2>4. QED
    BY <1>4, <2>1, <2>2, <2>3 DEF Program
<1>5. CASE UNCHANGED vars
  BY <1>5 DEF vars, display, TakesDisplay
<1>6. QED
  BY <1>1, <1>2, <1>3, <1>4, <1>5 DEF Next, Qemu

LEMMA TableStep ==
  ASSUME Typed, OwnerInv, TableInv, [Next]_vars
  PROVE  TableInv'
<1>1. /\ maps \in [Maps -> Map_] /\ writer \in Writer_ /\ writer.map \in Nat /\ writer.frames \in Nat
      /\ \A m \in Maps : m \in Nat /\ maps[m].frame_counter \in Nat
      /\ \A m \in Maps, s \in Slots : Generation(m, s) \in Nat
  BY DisplayTyped DEF Writer_, Maps
<1>2. ASSUME SameFrames, writer'.frames = writer.frames, writer'.map \in Nat, writer'.map >= writer.map
      PROVE  TableInv'
  <2>1. \A m \in Maps : m > writer'.map => m > writer.map
    BY <1>1, <1>2
  <2>2. QED
    BY <1>2, <2>1 DEF SameFrames, TableInv, Generation
<1>3. CASE TakesDisplay \/ StartsScan
  BY <1>3 DEF TakesDisplay, StartsScan, TableInv, Generation
<1>4. CASE FirstMap
  <2>1. SameFrames /\ writer'.frames = writer.frames /\ writer'.map = 1 /\ writer.map = 0
    BY <1>1, <1>4 DEF FirstMap, SameFrames, Writer_
  <2>2. QED
    BY <1>2, <2>1
<1>5. CASE NewMap
  <2>1. SameFrames /\ writer'.frames = writer.frames /\ writer'.map = writer.map + 1
    BY <1>1, <1>5 DEF NewMap, SameFrames, Writer_
  <2>2. QED
    BY <1>1, <1>2, <2>1
<1>6. CASE WriteBegin
  BY <1>1, <1>2, <1>6, WriteBegins
<1>7. CASE PollDisplay \/ ScanEnd \/ DiscardCurrent \/ DropFrame
  <2>1. maps' = Dropping(maps, view', scan', held') /\ UNCHANGED writer
    BY <1>7 DEF PollDisplay, ScanEnd, DiscardCurrent, DropFrame
  <2>2. QED
    BY <1>1, <1>2, <2>1, DroppingKeeps
<1>8. CASE ScanSlot
  BY <1>1, <1>2, <1>8, ScanLooks
<1>9. CASE WriteEnd
  <2> DEFINE m == writer.map
             s == writer.slot
             n == writer.frames + 1
  <2>1. /\ m \in Maps /\ s \in Slots /\ writer'.map = m /\ writer'.frames = n
        /\ maps'[m].frame_counter = n /\ maps'[m].slot[s].generation = n
        /\ \A k \in Maps : k # m => maps'[k] = maps[k]
        /\ \A t \in Slots : t # s => maps'[m].slot[t] = maps[m].slot[t]
    BY <1>9, WriteEnds
  <2>2. n \in Nat /\ n > writer.frames
    BY <1>1
  <2> HIDE DEF m, s, n
  <2>3. ASSUME NEW k \in Maps
        PROVE  /\ maps'[k].frame_counter <= n /\ (k > m => maps'[k].frame_counter = 0)
               /\ \A t \in Slots : maps'[k].slot[t].generation <= maps'[k].frame_counter
    <3>1. CASE k = m
      <4>1. \A t \in Slots : maps'[m].slot[t].generation <= n
        <5>1. \A t \in Slots : t # s => maps'[m].slot[t].generation = Generation(m, t)
          BY <2>1 DEF Generation
        <5>2. \A t \in Slots : Generation(m, t) <= writer.frames
          BY <1>1, <2>1 DEF TableInv
        <5>3. \A t \in Slots : Generation(m, t) <= n
          BY <1>1, <2>1, <2>2, <5>2
        <5>4. QED
          BY <2>1, <2>2, <5>1, <5>3
      <4>2. QED
        BY <1>1, <2>1, <2>2, <3>1, <4>1
    <3>2. CASE k # m
      BY <1>1, <2>1, <2>2, <3>2 DEF TableInv, Generation, m
    <3>3. QED
      BY <3>1, <3>2
  <2>4. ASSUME NEW k \in Maps, NEW t \in Slots, NEW u \in Slots,
               maps'[k].slot[t].generation = maps'[k].slot[u].generation,
               maps'[k].slot[t].generation # 0
        PROVE  t = u
    <3>1. CASE k # m
      BY <2>1, <2>4, <3>1 DEF TableInv, Generation
    <3>2. CASE k = m /\ t # s /\ u # s
      BY <2>1, <2>4, <3>2 DEF TableInv, Generation
    <3>3. \A v \in Slots : v # s => maps'[m].slot[v].generation # n
      <4>1. \A v \in Slots : Generation(m, v) <= writer.frames
        BY <1>1, <2>1 DEF TableInv
      <4>2. \A v \in Slots : Generation(m, v) # n
        BY <1>1, <2>1, <2>2, <4>1
      <4>3. QED
        BY <2>1, <4>2 DEF Generation
    <3>4. QED
      BY <2>1, <2>4, <3>1, <3>2, <3>3
  <2>5. QED
    BY <2>1, <2>3, <2>4 DEF TableInv, Generation
<1>10. QED
  BY <1>3, <1>4, <1>5, <1>6, <1>7, <1>8, <1>9, DisplayMoves

LEMMA ShownStep ==
  ASSUME Typed, OwnerInv, TableInv, ShownInv, [Next]_vars
  PROVE  ShownInv'
<1>1. /\ view \in View_ /\ view.last_frame \in Nat /\ view.notified \in Nat
      /\ view.map # 0 => view.map \in Maps /\ maps[view.map].frame_counter \in Nat
      /\ scan = {} \/ \E c \in Scan_ : scan = {c}
      /\ view.current # 0 => view.current \in Slots /\ view.map \in Maps
      /\ scan # {} => view.map \in Maps
  BY DisplayTyped
<1>2. \A k \in scan : k \in Scan_ /\ (k.best # 0 => k.best \in Slots)
  BY <1>1 DEF Scan_, Slots
(* The frames the consumer owns keep their numbers, and no counter goes back. *)
<1>3. ASSUME \A o \in Owned : maps'[o[1]].slot[o[2]].generation = Generation(o[1], o[2]),
             \A m \in Maps : maps'[m].frame_counter \in Nat
                             /\ maps'[m].frame_counter >= maps[m].frame_counter,
             view'.map = view.map, view'.last_frame = view.last_frame,
             view'.current \in {view.current, 0},
             view.map # 0 => view'.notified \in {view.notified, maps[view.map].frame_counter},
             \A k \in scan' : k.best # 0 => \E c \in scan : c.best = k.best
      PROVE  ShownInv'
  <2>1. view.current # 0 => <<view.map, view.current>> \in Owned
    BY DEF Owned, OwnersOf
  <2>2. \A c \in scan : c.best # 0 => <<view.map, c.best>> \in Owned
    BY DEF Owned, OwnersOf
  <2>3. view.map # 0 => /\ view.last_frame <= maps'[view.map].frame_counter
                        /\ view'.notified <= maps'[view.map].frame_counter
    BY <1>1, <1>3 DEF ShownInv
  <2>4. view'.current # 0 => maps'[view.map].slot[view'.current].generation = view.last_frame
    <3>1. view'.current # 0 => maps'[view.map].slot[view.current].generation = Generation(view.map, view.current)
      BY <1>3, <2>1
    <3>2. QED
      BY <1>3, <3>1 DEF ShownInv
  <2>5. \A c \in scan : c.best # 0 => maps'[view.map].slot[c.best].generation > view.last_frame
    <3>1. \A c \in scan : c.best # 0 => maps'[view.map].slot[c.best].generation = Generation(view.map, c.best)
      BY <1>3, <2>2
    <3>2. QED
      BY <3>1 DEF ShownInv
  <2>6. \A k \in scan' : k.best # 0 => maps'[view.map].slot[k.best].generation > view.last_frame
    BY <1>3, <2>5
  <2>7. QED
    BY <1>3, <2>3, <2>4, <2>6 DEF ShownInv, Generation
<1>4. /\ \A o \in Owned : o[1] \in Maps /\ o[2] \in Slots
      /\ \A m \in Maps : maps[m].frame_counter \in Nat
  BY OwnersTyped, DisplayTyped DEF Owned
<1>5. ASSUME SameFrames
      PROVE  /\ \A o \in Owned : maps'[o[1]].slot[o[2]].generation = Generation(o[1], o[2])
             /\ \A m \in Maps : maps'[m].frame_counter \in Nat
                                /\ maps'[m].frame_counter >= maps[m].frame_counter
  BY <1>4, <1>5 DEF SameFrames, Generation
<1>6. CASE TakesDisplay \/ FirstMap \/ NewMap
  <2>1. UNCHANGED <<maps, view, scan>>
    BY <1>6 DEF TakesDisplay, FirstMap, NewMap
  <2>2. QED
    BY <2>1 DEF ShownInv, Generation
<1>7. CASE WriteBegin
  <2>1. SameFrames /\ UNCHANGED <<view, scan>>
    BY <1>7, WriteBegins DEF WriteBegin
  <2>2. QED
    BY <1>3, <1>5, <2>1
<1>8. CASE WriteEnd
  <2>1. UNCHANGED <<view, scan>>
    BY <1>8 DEF WriteEnd
  <2>2. /\ writer.map \in Maps /\ writer.slot \in Slots
        /\ maps'[writer.map].frame_counter = writer.frames + 1
        /\ \A m \in Maps : m # writer.map => maps'[m] = maps[m]
        /\ \A s \in Slots : s # writer.slot => maps'[writer.map].slot[s] = maps[writer.map].slot[s]
    BY <1>8, WriteEnds
  <2>3. <<writer.map, writer.slot>> \notin Owned
    BY <2>2 DEF OwnerInv, ReadingInv, WritingInv
  <2>4. \A o \in Owned : o = <<o[1], o[2]>>
    BY OwnersTyped DEF Owned
  <2>5. ASSUME NEW o \in Owned
        PROVE  maps'[o[1]].slot[o[2]].generation = Generation(o[1], o[2])
    <3>1. o[1] # writer.map \/ o[2] # writer.slot
      BY <2>3, <2>4
    <3>2. QED
      BY <1>4, <2>2, <3>1 DEF Generation
  <2>6. ASSUME NEW m \in Maps
        PROVE  maps'[m].frame_counter \in Nat /\ maps'[m].frame_counter >= maps[m].frame_counter
    <3>1. maps[m].frame_counter \in Nat /\ maps[m].frame_counter <= writer.frames /\ writer.frames \in Nat
      BY <1>4, DisplayTyped DEF TableInv
    <3>2. maps'[m].frame_counter \in {maps[m].frame_counter, writer.frames + 1}
      BY <2>2
    <3>3. QED
      BY <3>1, <3>2
  <2>7. QED
    BY <1>3, <2>1, <2>5, <2>6
<1>9. CASE StartsScan
  <2>1. SameFrames /\ scan' = {[next |-> 1, best |-> 0]}
    BY <1>9 DEF StartsScan, ScanBegin, SameFrames
  <2>2. /\ view'.map = view.map /\ view'.last_frame = view.last_frame /\ view'.current = view.current
        /\ view'.notified \in {view.notified, maps[view.map].frame_counter}
    BY <1>1, <1>9 DEF StartsScan, View_
  <2>3. QED
    BY <1>3, <1>5, <2>1, <2>2
<1>10. CASE PollDisplay
  <2>1. /\ maps' = Dropping(maps, view', scan', held') /\ scan' = {} /\ received \in Maps
        /\ view' = [NoView EXCEPT !.map = received]
    BY <1>10, DisplayTyped DEF PollDisplay
  <2>2. SameFrames /\ view'.map = received /\ view'.current = 0 /\ view'.last_frame = 0 /\ view'.notified = 0
    BY <2>1, DroppingKeeps DEF NoView
  <2>3. QED
    BY <1>4, <2>1, <2>2 DEF ShownInv, SameFrames
<1>11. CASE DiscardCurrent \/ DropFrame
  <2>1. maps' = Dropping(maps, view', scan', held') /\ scan' = scan
    BY <1>11 DEF DiscardCurrent, DropFrame
  <2>2. /\ view'.map = view.map /\ view'.last_frame = view.last_frame /\ view'.current \in {view.current, 0}
        /\ view'.notified = view.notified
    BY <1>1, <1>11 DEF DiscardCurrent, DropFrame, View_
  <2>3. QED
    BY <1>3, <1>5, <2>1, <2>2, DroppingKeeps
<1>12. CASE ScanSlot
  <2>1. PICK c \in Scan_, d \in Scan_ :
          /\ scan = {c} /\ scan' = {d} /\ c.next \in Slots /\ view.map \in Maps /\ SameFrames
          /\ UNCHANGED view
          /\ d.best = c.best \/ (d.best = c.next /\ Keeps(c, c.next))
    BY <1>12, ScanLooks
  <2>2. CASE d.best = c.best
    BY <1>3, <1>5, <2>1, <2>2
  <2>3. CASE d.best = c.next /\ Keeps(c, c.next)
    <3>1. Generation(view.map, d.best) > view.last_frame
      BY <2>1, <2>3 DEF Keeps
    <3>2. maps'[view.map].slot[d.best].generation > view.last_frame
      BY <2>1, <2>3, <3>1 DEF SameFrames, Generation
    <3>3. /\ view.last_frame <= maps'[view.map].frame_counter
          /\ view.notified <= maps'[view.map].frame_counter
          /\ view.current # 0 => maps'[view.map].slot[view.current].generation = view.last_frame
      <4>1. view.map # 0
        BY <2>1 DEF Maps
      <4>2. QED
        BY <1>1, <2>1, <4>1 DEF ShownInv, SameFrames, Generation
    <3>4. QED
      BY <2>1, <3>2, <3>3 DEF ShownInv, Generation
  <2>4. QED
    BY <2>1, <2>2, <2>3
<1>13. CASE ScanEnd
  <2>1. maps' = Dropping(maps, view', scan', held') /\ scan' = {}
    BY <1>13 DEF ScanEnd
  <2>2. PICK c \in scan :
          view' = IF c.best = 0 THEN view
                  ELSE [view EXCEPT !.current = c.best, !.last_frame = Generation(view.map, c.best)]
    BY <1>13 DEF ScanEnd
  <2>3. SameFrames
    BY <2>1, DroppingKeeps
  <2>4. CASE c.best = 0
    BY <1>3, <1>5, <2>1, <2>2, <2>3, <2>4
  <2>5. CASE c.best # 0
    <3> DEFINE g == Generation(view.map, c.best)
    <3>1. c.best \in Slots /\ view.map \in Maps /\ view.map # 0
      BY <1>1, <1>2, <2>2, <2>5 DEF Maps
    <3>2. view' = [view EXCEPT !.current = c.best, !.last_frame = g]
      BY <2>2, <2>5
    <3>3. g <= maps[view.map].frame_counter /\ g = maps'[view.map].slot[c.best].generation
      BY <2>3, <3>1 DEF TableInv, SameFrames, Generation
    <3> HIDE DEF g
    <3>4. /\ view'.map = view.map /\ view'.current = c.best /\ view'.last_frame = g
          /\ view'.notified = view.notified
      BY <1>1, <3>2 DEF View_
    <3>5. maps'[view.map].frame_counter = maps[view.map].frame_counter
      BY <2>3, <3>1 DEF SameFrames
    <3>6. view'.notified <= maps'[view'.map].frame_counter
      BY <3>1, <3>4, <3>5 DEF ShownInv
    <3>7. QED
      BY <2>1, <3>1, <3>3, <3>4, <3>5, <3>6 DEF ShownInv, Generation
  <2>6. QED
    BY <2>4, <2>5
<1>14. QED
  BY <1>6, <1>7, <1>8, <1>9, <1>10, <1>11, <1>12, <1>13, DisplayMoves

-----------------------------------------------------------------------------
(* The newest frame.  The newest mapping is shown, or was received, or is announced last on the connection;   *)
(* its newest frame waits in a slot until the consumer shows it, and until then a notice is on the way, or    *)
(* was given and not acted on yet, or a scan in progress will still come to the slot.                         *)

Pending == ui.notified \/ (worker.changed /\ worker.pc \notin {"top", "poll"})
Displays == {i \in DOMAIN link.in : link.in[i].kind = "D"}
Notices == {i \in DOMAIN link.in : link.in[i].kind \in {"D", "F"}}
Shows == writer.map # 0 /\ view.map = writer.map

MapsInv ==
  /\ view.map <= writer.map /\ received <= writer.map
  /\ \A i \in Displays : link.in[i].id <= writer.map
  /\ \A i, j \in Displays : link.in[i].id = writer.map => j <= i
  /\ received = writer.map /\ writer.map # 0 => Displays = {}
  /\ Shows => received = 0 /\ Displays = {}
  /\ link.state = "asking" => received = 0 /\ view.map = 0
  /\ traffic # "frames" => writer.map = 0
NewestKnown ==
  traffic = "frames" =>
    /\ ~stop
    /\ link.state # "none" => writer.map # 0
    /\ Up => \/ Shows \/ (received = writer.map /\ Pending)
             \/ \E i \in Displays : link.in[i].id = writer.map
ScanInv == scan # {} <=> ui.pc = "claim"
Waits(s) ==
  /\ Generation(writer.map, s) = Newest
  /\ maps[writer.map].slot[s].state = "ready" \/ (Shows /\ \E k \in scan : k.best = s)
PlaceInv ==
  writer.slot = 0 /\ Newest # 0 /\ ~(Shows /\ view.last_frame = Newest) => \E s \in Slots : Waits(s)
Finds ==
  \E k \in scan, s \in Slots :
    /\ Generation(writer.map, s) = Newest
    /\ k.best = s \/ (maps[writer.map].slot[s].state = "ready" /\ k.next <= s)
NoticeInv ==
  traffic = "frames" /\ Shows /\ writer.slot = 0 /\ view.last_frame # Newest =>
    /\ view.notified = Newest => Finds
    /\ Up => Notices # {} \/ Pending \/ ui.pc = "changed" \/ Finds

LEMMA InTail ==
  ASSUME NEW s \in Seq(Message_), s # <<>>
  PROVE  /\ \A i \in DOMAIN Tail(s) : i + 1 \in DOMAIN s /\ i + 1 # 1 /\ Tail(s)[i] = s[i + 1] /\ i \in Int
         /\ \A j \in DOMAIN s : j # 1 => j - 1 \in DOMAIN Tail(s) /\ Tail(s)[j - 1] = s[j]
         /\ Head(s) = s[1] /\ 1 \in DOMAIN s /\ Head(s) \in Message_
<1>1. Len(s) \in Nat /\ Len(s) # 0 /\ DOMAIN s = 1..Len(s)
  OBVIOUS
<1>2. DOMAIN Tail(s) = 1..(Len(s) - 1)
  BY <1>1
<1>3. \A i \in 1..(Len(s) - 1) : i + 1 \in 1..Len(s) /\ i + 1 # 1 /\ Tail(s)[i] = s[i + 1] /\ i \in Int
  BY <1>1
<1>4. \A j \in 1..Len(s) : j # 1 => j - 1 \in 1..(Len(s) - 1) /\ Tail(s)[j - 1] = s[j]
  BY <1>1
<1>5. Head(s) = s[1] /\ 1 \in 1..Len(s) /\ Head(s) \in Message_
  BY <1>1
<1>6. QED
  BY <1>1, <1>2, <1>3, <1>4, <1>5

LEMMA InAppend ==
  ASSUME NEW s \in Seq(Message_), NEW m \in Message_
  PROVE  /\ DOMAIN Append(s, m) = DOMAIN s \cup {Len(s) + 1}
         /\ \A i \in DOMAIN s : Append(s, m)[i] = s[i] /\ i <= Len(s) /\ i \in Int
         /\ Append(s, m)[Len(s) + 1] = m /\ Len(s) \in Nat
<1>1. Len(s) \in Nat /\ DOMAIN s = 1..Len(s)
  OBVIOUS
<1>2. DOMAIN Append(s, m) = 1..(Len(s) + 1)
  OBVIOUS
<1>3. \A i \in 1..Len(s) : Append(s, m)[i] = s[i] /\ i <= Len(s) /\ i \in Int
  BY <1>1
<1>4. Append(s, m)[Len(s) + 1] = m
  BY <1>1
<1>5. QED
  BY <1>1, <1>2, <1>3, <1>4

(* What comes and goes on the connection beside a display. *)
InKeeps ==
  \/ link'.in = link.in
  \/ link.in # <<>> /\ link'.in = Tail(link.in)
  \/ link'.in = <<>>
  \/ \E m \in Message_ : m.kind # "D" /\ link'.in = Append(link.in, m)

LEMMA MapsIdle ==
  ASSUME Typed, MapsInv, InKeeps, writer'.map = writer.map, received' = received,
         view'.map = view.map, link'.state # "asking" \/ link.state = "asking", traffic' = traffic
  PROVE  MapsInv'
<1>1. link.in \in Seq(Message_)
  BY DEF Typed, ServerTypes
<1>2. \/ \A i \in Displays' : i \in Displays /\ link'.in[i] = link.in[i]
      \/ \A i \in Displays' : i + 1 \in Displays /\ i \in Int /\ link'.in[i] = link.in[i + 1]
  <2>1. CASE link'.in = link.in \/ link'.in = <<>>
    BY <2>1 DEF Displays
  <2>2. CASE link.in # <<>> /\ link'.in = Tail(link.in)
    BY <1>1, <2>2, InTail DEF Displays
  <2>3. ASSUME NEW m \in Message_, m.kind # "D", link'.in = Append(link.in, m)
        PROVE  \A i \in Displays' : i \in Displays /\ link'.in[i] = link.in[i]
    BY <1>1, <2>3, InAppend DEF Displays
  <2>4. QED
    BY <2>1, <2>2, <2>3 DEF InKeeps
<1>3. Displays = {} => Displays' = {}
  BY <1>2
<1>4. \A i \in Displays' : link'.in[i].id <= writer.map
  BY <1>2 DEF MapsInv
<1>5. ASSUME NEW i \in Displays', NEW j \in Displays', link'.in[i].id = writer.map
      PROVE  j <= i
  <2>1. CASE \A k \in Displays' : k \in Displays /\ link'.in[k] = link.in[k]
    BY <1>5, <2>1 DEF MapsInv
  <2>2. CASE \A k \in Displays' : k + 1 \in Displays /\ k \in Int /\ link'.in[k] = link.in[k + 1]
    <3>1. j + 1 <= i + 1 /\ i \in Int /\ j \in Int
      BY <1>5, <2>2 DEF MapsInv
    <3>2. QED
      BY ONLY <3>1
  <2>3. QED
    BY <1>2, <2>1, <2>2
<1>6. QED
  BY <1>3, <1>4, <1>5 DEF MapsInv, Shows

LEMMA MapsStep ==
  ASSUME Typed, LinkInv, MapsInv, [Next]_vars
  PROVE  MapsInv'
<1>1. /\ link.in \in Seq(Message_) /\ link \in Link_ /\ writer \in Writer_ /\ view \in View_
      /\ writer.map \in Nat /\ view.map \in Nat /\ received \in Nat
  BY DisplayTyped DEF Typed, ServerTypes, Link_, Writer_, View_
<1>2. CASE Connect
  <2>1. /\ link.in = <<>> /\ link'.in = <<>> /\ UNCHANGED <<received, view, traffic>>
        /\ writer'.map = writer.map \/ (writer.map = 0 /\ writer'.map = 1)
        /\ traffic # "frames" => writer'.map = writer.map
        /\ traffic = "frames" => writer.map = 0
    BY <1>1, <1>2 DEF Connect, LinkInv, Link_, Writer_
  <2>2. Displays' = {}
    BY <2>1 DEF Displays
  <2>3. writer.map = 0
    BY <2>1 DEF MapsInv
  <2>4. received = 0 /\ view.map = 0
    BY <1>1, <2>3 DEF MapsInv
  <2>5. QED
    BY <2>1, <2>2, <2>3, <2>4 DEF MapsInv, Shows
<1>3. CASE Resize
  <2> DEFINE d == Message("D", writer.map + 1)
  <2>1. /\ link' = Tell(d) /\ writer'.map = writer.map + 1 /\ UNCHANGED <<received, view, traffic>>
        /\ link.state = "up" /\ writer.map + 1 \in Maps /\ traffic = "frames"
    BY <1>1, <1>3, DisplayAssumption DEF Resize, NewMap, Up, Writer_, Maps, DisplayAssumption
  <2>2. d \in Message_ /\ d.kind = "D" /\ d.id = writer.map + 1
    BY <2>1 DEF Message, Message_
  <2> HIDE DEF d
  <2>3. link'.in = Append(link.in, d) /\ link'.state = "up"
    BY <1>1, <1>3, <2>1 DEF Tell, Resize, Link_
  <2>4. /\ \A i \in Displays' : i = Len(link.in) + 1 \/ (i \in Displays /\ link'.in[i] = link.in[i]
                                                        /\ i <= Len(link.in) /\ i \in Int)
        /\ link'.in[Len(link.in) + 1] = d /\ Len(link.in) \in Nat
    BY <1>1, <2>2, <2>3, InAppend DEF Displays
  <2>5. \A i \in Displays' : /\ link'.in[i].id <= writer.map + 1
                             /\ link'.in[i].id = writer.map + 1 => i = Len(link.in) + 1
    <3>1. \A i \in Displays : link.in[i].id <= writer.map /\ link.in[i].id \in Nat
      <4>1. \A i \in Displays : link.in[i] \in Message_ /\ link.in[i].kind = "D"
        BY <1>1 DEF Displays
      <4>2. QED
        BY <4>1, DisplayAssumption DEF MapsInv, Message_, Maps, DisplayAssumption
    <3>2. SUFFICES ASSUME NEW i \in Displays'
                   PROVE  /\ link'.in[i].id <= writer.map + 1
                          /\ link'.in[i].id = writer.map + 1 => i = Len(link.in) + 1
      OBVIOUS
    <3>3. CASE i = Len(link.in) + 1
      <4>1. link'.in[i].id = writer.map + 1
        BY <2>2, <2>4, <3>3
      <4>2. QED
        BY <1>1, <3>3, <4>1
    <3>4. CASE i \in Displays /\ link'.in[i] = link.in[i]
      BY <1>1, <3>1, <3>4
    <3>5. QED
      BY <2>4, <3>3, <3>4
  <2>6. \A i \in Displays' : i <= Len(link.in) + 1
    BY <2>4
  <2>7. view.map # writer.map + 1 /\ received # writer.map + 1
        /\ view.map <= writer.map + 1 /\ received <= writer.map + 1
    BY <1>1 DEF MapsInv
  <2>8. QED
    BY <2>1, <2>3, <2>5, <2>6, <2>7 DEF MapsInv, Shows
<1>4. CASE Leave \/ Draw \/ Malformed \/ Point \/ Consume
  <2>1. \A m \in Message_ : Tell(m).state = link.state /\ Tell(m).in \in {link.in, Append(link.in, m)}
    BY <1>1 DEF Tell, Link_
  <2>2. UNCHANGED <<received, view, traffic>> /\ writer'.map = writer.map
    <3>1. CASE Draw
      BY <3>1, WriteBegins, WriteEnds DEF Draw, WriteBegin, WriteEnd
    <3>2. CASE ~Draw
      BY <1>4, <3>2 DEF Leave, Malformed, Point, Consume, display
    <3>3. QED
      BY <3>1, <3>2
  <2>3. InKeeps /\ link'.state = link.state
    <3>1. CASE Leave
      BY <1>1, <3>1 DEF Leave, InKeeps, Link_
    <3>2. CASE Consume
      <4>1. link.out \in Seq(Event_) /\ link.out # <<>>
        BY <1>1, <3>2 DEF Consume, Link_
      <4>2. Head(link.out).id \in Nat
        BY <4>1 DEF Event_, Plain_
      <4>3. Message("A", Head(link.out).id) \in Message_ /\ Message("A", Head(link.out).id).kind # "D"
        BY <4>2 DEF Message, Message_
      <4>4. /\ link'.in \in {link.in, Append(link.in, Message("A", Head(link.out).id))}
            /\ link'.state = link.state
        BY <1>1, <3>2 DEF Consume, Link_
      <4>5. QED
        BY <4>3, <4>4 DEF InKeeps
    <3>3. CASE Draw \/ Malformed \/ Point
      <4>1. pointer.position \in Nat /\ pointer.position + 1 \in Nat
        BY CursorTyped
      <4>2. \A kind \in {"F", "C", "S", "P", "X"}, id \in Nat :
              Message(kind, id) \in Message_ /\ Message(kind, id).kind # "D"
        BY DEF Message, Message_
      <4>3. link' = link \/ \E kind \in {"F", "C", "S", "P", "X"}, id \in Nat : link' = Tell(Message(kind, id))
        BY <3>3, <4>1 DEF Draw, Malformed, Point
      <4>4. link' = link \/ \E m \in Message_ : m.kind # "D" /\ link' = Tell(m)
        BY <4>2, <4>3
      <4>5. QED
        BY <2>1, <4>4 DEF InKeeps
    <3>4. QED
      BY <1>4, <3>1, <3>2, <3>3
  <2>4. QED
    BY <2>2, <2>3, MapsIdle
<1>5. CASE AnnounceUp
  <2>1. /\ link.state = "asking" /\ UNCHANGED <<writer, received, view, traffic>> /\ link'.state = "up"
        /\ link'.in = IF writer.map = 0 THEN <<>> ELSE <<Message("D", writer.map)>>
    BY <1>5 DEF AnnounceUp, LinkInv, NoLink, display
  <2>2. received = 0 /\ view.map = 0
    BY <2>1 DEF MapsInv
  <2>3. \A i \in Displays' : i = 1 /\ link'.in[i].id = writer.map
    BY <2>1 DEF Displays, Message
  <2>4. writer.map = 0 => Displays' = {}
    BY <2>1 DEF Displays
  <2>5. QED
    BY <1>1, <2>1, <2>2, <2>3, <2>4 DEF MapsInv, Shows
<1>6. CASE Read
  <2> DEFINE m == Head(link.in)
  <2>1. link.state = "up" /\ UNCHANGED <<writer, view, traffic>> /\ link'.state = "up"
        /\ (link.in # <<>> => link'.in = Tail(link.in))
        /\ (received' = received \/ (link.in # <<>> /\ m.kind = "D" /\ received' = m.id))
    <3>1. link.state = "up" /\ UNCHANGED traffic
      BY <1>6 DEF Read, LinkInv
    <3>2. CASE link.in = <<>>
      BY <1>6, <3>1, <3>2 DEF Read, display
    <3>3. CASE link.in # <<>>
      <4>1. link' = [link EXCEPT !.in = Tail(@)]
        BY <1>6, <3>3 DEF Read
      <4>2. link'.in = Tail(link.in) /\ link'.state = "up"
        BY <1>1, <3>1, <4>1 DEF Link_
      <4>3. m \in Message_
        BY <1>1, <3>3
      <4>4. m.kind \in {"D", "F", "C", "S", "P", "X", "A"}
        BY <4>3 DEF Message_
      <4>5. CASE m.kind \in {"X", "S", "P"}
        BY <1>6, <3>1, <3>3, <4>2, <4>5 DEF Read, display
      <4>6. CASE m.kind \in {"D", "F", "C", "A"}
        BY <1>6, <3>1, <3>3, <4>2, <4>6 DEF Read, display
      <4>7. QED
        BY <4>4, <4>5, <4>6
    <3>4. QED
      BY <3>2, <3>3
  <2>2. CASE received' = received
    <3>1. InKeeps
      <4>1. CASE link.in = <<>>
        BY <1>6, <4>1 DEF Read, InKeeps
      <4>2. QED
        BY <2>1, <4>1 DEF InKeeps
    <3>2. QED
      BY <2>1, <2>2, <3>1, MapsIdle
  <2>3. CASE link.in # <<>> /\ m.kind = "D" /\ received' = m.id
    <3>1. /\ \A i \in DOMAIN link'.in : i + 1 \in DOMAIN link.in /\ i + 1 # 1 /\ link'.in[i] = link.in[i + 1]
                                        /\ i \in Int
          /\ link.in[1] = m /\ 1 \in DOMAIN link.in
      BY <1>1, <2>1, <2>3, InTail
    <3>2. \A i \in Displays' : i + 1 \in Displays /\ link'.in[i] = link.in[i + 1] /\ i \in Int /\ i + 1 # 1
      BY <3>1 DEF Displays
    <3>3. 1 \in Displays /\ ~Shows /\ m.id <= writer.map
      BY <2>3, <3>1 DEF Displays, MapsInv
    <3>4. m.id = writer.map => Displays' = {}
      <4>1. m.id = writer.map => \A j \in Displays : j <= 1
        BY <3>1, <3>3 DEF MapsInv
      <4>2. \A i \in Displays' : i \in Int /\ i >= 1
        <5>1. link'.in \in Seq(Message_)
          <6>1. Tail(link.in) \in Seq(Message_)
            BY <1>1, <2>3
          <6>2. QED
            BY <2>1, <2>3, <6>1
        <5>2. QED
          BY <5>1 DEF Displays
      <4>3. QED
        BY <3>2, <4>1, <4>2
    <3>5. \A i \in Displays' : link'.in[i].id <= writer.map
      BY <3>2 DEF MapsInv
    <3>6. ASSUME NEW i \in Displays', NEW j \in Displays', link'.in[i].id = writer.map
          PROVE  j <= i
      <4>1. j + 1 <= i + 1 /\ i \in Int /\ j \in Int
        BY <3>2, <3>6 DEF MapsInv
      <4>2. QED
        BY ONLY <4>1
    <3>7. QED
      BY <2>1, <2>3, <3>3, <3>4, <3>5, <3>6 DEF MapsInv, Shows
  <2>4. QED
    BY <2>1, <2>2, <2>3
<1>7. CASE DropClient \/ ExitAnnounce
  <2>1. UNCHANGED <<writer, received, view, traffic>> /\ link'.in = <<>> /\ link'.state = "none"
    <3>1. NoLink.in = <<>> /\ NoLink.state = "none"
      BY DEF NoLink
    <3>2. link' = NoLink /\ UNCHANGED <<writer, received, view, traffic>>
      BY <1>7 DEF DropClient, ExitAnnounce, display
    <3>3. QED
      BY <3>1, <3>2
  <2>2. QED
    BY <2>1, MapsIdle DEF InKeeps
<1>8. CASE Write
  <2>1. UNCHANGED <<writer, received, view, traffic>> /\ link'.in = link.in /\ link'.state = link.state
    BY <1>1, <1>8 DEF Write, display, Link_
  <2>2. QED
    BY <2>1, MapsIdle DEF InKeeps
<1>9. CASE UiPoll
  <2>1. UNCHANGED <<writer, link, traffic>>
    BY <1>9 DEF UiPoll, PollDisplay, display
  <2>2. CASE received = 0
    <3>1. UNCHANGED <<received, view>>
      BY <1>9, <2>2 DEF UiPoll, display
    <3>2. QED
      BY <2>1, <3>1, MapsIdle DEF InKeeps
  <2>3. CASE received # 0
    <3>1. view'.map = received /\ received' = 0
      BY <1>9, <2>3 DEF UiPoll, PollDisplay, NoView
    <3>2. QED
      BY <1>1, <2>1, <2>3, <3>1 DEF MapsInv, Shows, Displays
  <2>4. QED
    BY <2>2, <2>3
<1>10. CASE UiChanged \/ UiLook \/ UiClaim \/ UiDrops
  <2>1. UNCHANGED <<writer, link, traffic, received>>
    BY <1>10 DEF UiChanged, UiLook, UiClaim, UiDrops, TakeFrameChanged, ScanSlot, ScanEnd, DiscardCurrent,
       DropFrame, display
  <2>2. view'.map = view.map
    <3>1. CASE UiClaim
      BY <1>1, <3>1 DEF UiClaim, ScanSlot, ScanEnd, View_
    <3>2. CASE UiChanged \/ UiLook \/ UiDrops
      BY <1>1, <3>2 DEF UiChanged, UiLook, UiDrops, TakeFrameChanged, DiscardCurrent, DropFrame, display, View_
    <3>3. QED
      BY <1>10, <3>1, <3>2
  <2>3. QED
    BY <2>1, <2>2, MapsIdle DEF InKeeps
<1>11. CASE Top \/ Poll \/ Accept \/ Refill \/ Look \/ Fill \/ AnnounceGone \/ Clear \/ Call \/ Exit
            \/ Stop \/ InputTraffic \/ UNCHANGED vars
  <2>1. UNCHANGED <<writer, received, view, traffic, link>>
    BY <1>11 DEF Top, Poll, Accept, Refill, Look, Fill, AnnounceGone, Clear, Call, Exit, Stop, InputTraffic,
       vars, display
  <2>2. QED
    BY <2>1, MapsIdle DEF InKeeps
<1>12. QED
  BY <1>2, <1>3, <1>4, <1>5, <1>6, <1>7, <1>8, <1>9, <1>10, <1>11 DEF Next, Qemu, Worker, Program

(* A notice that came is kept until the program polls, and a message on the way stays there until it is read  *)
(* and then is a notice. *)
LEMMA PendingKept ==
  ASSUME Typed, traffic = "frames", Pending, [Next]_vars, ~UiPoll
  PROVE  Pending'
<1>1. worker \in Worker_ /\ ui \in Ui_
  BY DEF Typed, ServerTypes, Worker_, Ui_
<1>2. CASE Qemu \/ Stop \/ InputTraffic \/ UNCHANGED vars
  <2>1. UNCHANGED <<worker, ui>>
    BY <1>2 DEF Qemu, Connect, Leave, Resize, Draw, Point, Malformed, Consume, Stop, InputTraffic, vars
  <2>2. QED
    BY <2>1 DEF Pending
<1>3. CASE UiChanged \/ UiLook \/ UiClaim \/ UiDrops
  <2>1. worker' = worker /\ (ui' = ui \/ \E pc : ui' = [ui EXCEPT !.pc = pc])
    BY <1>3 DEF UiChanged, UiLook, UiClaim, UiDrops, UiGoto
  <2>2. ui'.notified = ui.notified
    BY <1>1, <2>1 DEF Ui_
  <2>3. QED
    BY <2>1, <2>2 DEF Pending
<1>4. ASSUME ui' = ui, NEW pc \in Stations \ {"top", "poll"},
             \/ worker'.pc = pc /\ worker'.changed = worker.changed
             \/ worker'.pc = pc /\ worker'.changed = TRUE
             \/ worker' = worker
      PROVE  Pending'
  BY <1>4 DEF Pending
<1>5. CASE Top \/ Poll
  <2>1. ui.notified /\ ui' = ui
    BY <1>5 DEF Top, Poll, Pending
  <2>2. QED
    BY <2>1 DEF Pending
<1>6. CASE Call
  <2>1. ui'.notified
    BY <1>1, <1>6 DEF Call, Pending, Ui_
  <2>2. QED
    BY <2>1 DEF Pending
<1>7. CASE Accept \/ Refill \/ AnnounceUp \/ AnnounceGone \/ Exit \/ ExitAnnounce
  <2>1. ui' = ui /\ \E pc \in {"refill", "announce", "write", "clear", "exit_announce", "gone"} : Goto(pc)
    BY <1>7 DEF Accept, Refill, AnnounceUp, AnnounceGone, Exit, ExitAnnounce
  <2>2. QED
    BY <1>1, <1>4, <2>1 DEF Goto, Worker_, Stations
<1>8. CASE Fill \/ Write \/ DropClient
  <2>1. /\ ui' = ui /\ worker'.changed = worker.changed
        /\ worker'.pc \in {"write", "call", "drop", "announce_gone"}
    BY <1>1, <1>8 DEF Fill, Write, DropClient, Goto, Worker_
  <2>2. QED
    BY <1>4, <2>1 DEF Stations
<1>9. CASE Clear \/ Look \/ Read
  <2>1. ui' = ui /\ (worker' = worker \/ \E pc \in {"call", "read", "drop", "write", "look"} : Goto(pc) \/ Change(pc))
    <3>1. CASE Clear \/ Look
      BY <3>1 DEF Clear, Look
    <3>2. CASE Read /\ link.in = <<>>
      BY <3>2 DEF Read
    <3>3. CASE Read /\ link.in # <<>>
      <4>1. Head(link.in) \in Message_
        BY <3>3 DEF Typed, ServerTypes
      <4>2. Head(link.in).kind \in {"D", "F", "C", "S", "P", "X", "A"}
        BY <4>1 DEF Message_
      <4>3. CASE Head(link.in).kind \in {"X", "S", "P"}
        BY <3>3, <4>3 DEF Read
      <4>4. CASE Head(link.in).kind \in {"D", "F", "C", "A"}
        BY <3>3, <4>4 DEF Read
      <4>5. QED
        BY <4>2, <4>3, <4>4
    <3>4. QED
      BY <1>9, <3>1, <3>2, <3>3
  <2>2. CASE worker' = worker
    BY <2>1, <2>2 DEF Pending
  <2>3. CASE worker' # worker
    BY <1>1, <1>4, <2>1, <2>3 DEF Goto, Change, Worker_, Stations
  <2>4. QED
    BY <2>2, <2>3
<1>10. QED
  BY <1>2, <1>3, <1>5, <1>6, <1>7, <1>8, <1>9 DEF Next, Worker, Program

LEMMA MessagesKept ==
  ASSUME Typed, LinkInv, [Next]_vars, Up, Up'
  PROVE  \/ \A i \in DOMAIN link.in : i \in DOMAIN link'.in /\ link'.in[i] = link.in[i]
         \/ /\ Read /\ link.in # <<>> /\ link'.in = Tail(link.in) /\ Head(link.in) = link.in[1]
            /\ \A i \in DOMAIN link.in : i # 1 => i - 1 \in DOMAIN link'.in /\ link'.in[i - 1] = link.in[i]
            /\ Head(link.in).kind \in {"D", "F"} => Pending'
            /\ Head(link.in).kind = "D" => received' = Head(link.in).id
<1>1. link.in \in Seq(Message_) /\ link \in Link_ /\ worker \in Worker_
  BY DEF Typed, ServerTypes, Link_, Worker_
<1>2. CASE UNCHANGED link
  BY <1>2
<1>3. CASE Connect \/ Leave \/ AnnounceUp \/ DropClient \/ ExitAnnounce
  <2>1. CASE Connect
    BY <2>1 DEF Connect, Up
  <2>2. CASE Leave
    BY <1>1, <2>2 DEF Leave, Up, Link_
  <2>3. CASE AnnounceUp
    BY <2>3 DEF AnnounceUp, LinkInv, Up
  <2>4. CASE DropClient \/ ExitAnnounce
    <3>1. link' = NoLink /\ NoLink.state = "none"
      BY <2>4 DEF DropClient, ExitAnnounce, NoLink
    <3>2. QED
      BY <3>1 DEF Up
  <2>5. QED
    BY <1>3, <2>1, <2>2, <2>3, <2>4
<1>4. ASSUME NEW m \in Message_, link'.in = Append(link.in, m)
      PROVE  \A i \in DOMAIN link.in : i \in DOMAIN link'.in /\ link'.in[i] = link.in[i]
  BY <1>1, <1>4, InAppend
<1>5. CASE Resize \/ Draw \/ Malformed \/ Point
  <2>1. \A m \in Message_ : Tell(m).in \in {link.in, Append(link.in, m)}
    BY <1>1 DEF Tell, Link_
  <2>2. \A kind \in {"F", "C", "S", "P", "X"}, id \in Nat : Message(kind, id) \in Message_
    BY DEF Message, Message_
  <2>3. Resize => Message("D", writer.map + 1) \in Message_
    <3>1. Resize => writer.map + 1 \in Maps
      BY DisplayTyped, DisplayAssumption DEF Resize, NewMap, Maps, DisplayAssumption, Writer_
    <3>2. QED
      BY <3>1 DEF Message, Message_
  <2>4. pointer.position \in Nat /\ pointer.position + 1 \in Nat
    BY CursorTyped
  <2>5. link' = link \/ \E m \in Message_ : link' = Tell(m)
    <3>1. CASE Resize
      BY <2>3, <3>1 DEF Resize
    <3>2. CASE Draw \/ Malformed \/ Point
      <4>1. link' = link \/ \E kind \in {"F", "C", "S", "P", "X"}, id \in Nat : link' = Tell(Message(kind, id))
        BY <3>2, <2>4 DEF Draw, Malformed, Point
      <4>2. QED
        BY <2>2, <4>1
    <3>3. QED
      BY <1>5, <3>1, <3>2
  <2>6. link'.in = link.in \/ \E m \in Message_ : link'.in = Append(link.in, m)
    BY <2>1, <2>5
  <2>7. QED
    BY <1>4, <2>6
<1>6. CASE Consume
  <2>1. link.out \in Seq(Event_) /\ link.out # <<>>
    BY <1>1, <1>6 DEF Consume, Link_
  <2>2. Head(link.out).id \in Nat
    BY <2>1 DEF Event_, Plain_
  <2>3. Message("A", Head(link.out).id) \in Message_
    BY <2>2 DEF Message, Message_
  <2>4. link'.in \in {link.in, Append(link.in, Message("A", Head(link.out).id))}
    BY <1>1, <1>6 DEF Consume, Link_
  <2>5. QED
    BY <1>4, <2>3, <2>4
<1>7. CASE Write
  <2>1. link'.in = link.in
    BY <1>1, <1>7 DEF Write, Link_
  <2>2. QED
    BY <2>1
<1>8. CASE Read
  <2> DEFINE m == Head(link.in)
  <2>1. CASE link.in = <<>>
    BY <1>8, <2>1 DEF Read
  <2>2. CASE link.in # <<>>
    <3>1. link' = [link EXCEPT !.in = Tail(@)] /\ m \in Message_
      BY <1>1, <1>8, <2>2 DEF Read
    <3>2. link'.in = Tail(link.in)
      BY <1>1, <3>1 DEF Link_
    <3>3. m.kind = "D" => received' = m.id
      BY <1>8, <2>2 DEF Read
    <3>4. m.kind \in {"D", "F"} => Change("read")
      BY <1>8, <2>2 DEF Read
    <3>5. Change("read") => Pending'
      BY <1>1 DEF Change, Pending, Worker_
    <3>6. QED
      BY <1>1, <1>8, <2>2, <3>2, <3>3, <3>4, <3>5, InTail
  <2>3. QED
    BY <2>1, <2>2
<1>9. CASE Top \/ Poll \/ Accept \/ Refill \/ Look \/ Fill \/ AnnounceGone \/ Clear \/ Call \/ Exit \/ Program
  BY <1>2, <1>9 DEF Top, Poll, Accept, Refill, Look, Fill, AnnounceGone, Clear, Call, Exit, Program, Stop,
     InputTraffic, UiPoll, UiChanged, UiLook, UiClaim, UiDrops
<1>10. QED
  BY <1>2, <1>3, <1>5, <1>6, <1>7, <1>8, <1>9 DEF Next, Qemu, Worker, vars

LEMMA Arrives ==
  ASSUME Typed, LinkInv, [Next]_vars, ~Up, Up'
  PROVE  AnnounceUp
<1>1. link \in Link_
  BY DEF Typed, ServerTypes, Link_
<1>2. CASE UNCHANGED link
  BY <1>2 DEF Up
<1>3. CASE Connect
  BY <1>1, <1>3 DEF Connect, Up, Link_
<1>4. CASE Leave \/ Resize \/ Point \/ Malformed \/ Consume
  BY <1>4 DEF Leave, Resize, Point, Malformed, Consume
<1>5. CASE Draw
  <2>1. link' = link
    BY <1>5 DEF Draw, Tell
  <2>2. QED
    BY <1>2, <2>1
<1>6. CASE DropClient \/ ExitAnnounce
  <2>1. link' = NoLink /\ NoLink.state = "none"
    BY <1>6 DEF DropClient, ExitAnnounce, NoLink
  <2>2. QED
    BY <2>1 DEF Up
<1>7. CASE Write
  <2>1. link'.state = link.state /\ link'.gone = link.gone
    BY <1>1, <1>7 DEF Write, Link_
  <2>2. QED
    BY <2>1 DEF Up
<1>8. CASE Read
  <2>1. link' = link \/ link' = [link EXCEPT !.in = Tail(@)]
    BY <1>8 DEF Read
  <2>2. link'.state = link.state /\ link'.gone = link.gone
    BY <1>1, <2>1 DEF Link_
  <2>3. QED
    BY <2>2 DEF Up
<1>9. CASE Top \/ Poll \/ Accept \/ Refill \/ Look \/ Fill \/ AnnounceGone \/ Clear \/ Call \/ Exit \/ Program
  BY <1>2, <1>9 DEF Top, Poll, Accept, Refill, Look, Fill, AnnounceGone, Clear, Call, Exit, Program, Stop,
     InputTraffic, UiPoll, UiChanged, UiLook, UiClaim, UiDrops
<1>10. QED
  BY <1>2, <1>3, <1>4, <1>5, <1>6, <1>7, <1>8, <1>9 DEF Next, Qemu, Worker, vars

LEMMA TrafficFixed ==
  ASSUME [Next]_vars
  PROVE  traffic' = traffic /\ (stop' = stop \/ traffic = "cursor")
<1>1. CASE Qemu
  BY <1>1 DEF Qemu, Connect, Leave, Resize, Draw, Point, Malformed, Consume
<1>2. CASE Worker
  BY <1>2 DEF Worker, Top, Poll, Accept, Refill, AnnounceUp, Read, Look, Fill, Write, DropClient,
     AnnounceGone, Clear, Call, Exit, ExitAnnounce
<1>3. CASE Program
  BY <1>3 DEF Program, Stop, InputTraffic, UiPoll, UiChanged, UiLook, UiClaim, UiDrops
<1>4. QED
  BY <1>1, <1>2, <1>3 DEF Next, vars

LEMMA MapFixed ==
  ASSUME Typed, [Next]_vars, ~Connect, ~Resize, ~UiPoll
  PROVE  /\ writer'.map = writer.map /\ view'.map = view.map
         /\ received' = received \/ (Read /\ link.in # <<>> /\ Head(link.in).kind = "D")
<1>1. writer \in Writer_ /\ view \in View_
  BY DisplayTyped
<1>2. CASE UNCHANGED <<writer, view, received>>
  BY <1>2
<1>3. CASE Leave \/ Point \/ Malformed \/ Consume
  BY <1>2, <1>3 DEF Leave, Point, Malformed, Consume, display
<1>4. CASE Draw
  BY <1>4, WriteBegins, WriteEnds DEF Draw, WriteBegin, WriteEnd
<1>5. CASE Read
  <2>1. CASE link.in = <<>>
    BY <1>2, <1>5, <2>1 DEF Read, display
  <2>2. CASE link.in # <<>>
    <3>1. Head(link.in) \in Message_
      BY <2>2 DEF Typed, ServerTypes
    <3>2. Head(link.in).kind \in {"D", "F", "C", "S", "P", "X", "A"}
      BY <3>1 DEF Message_
    <3>3. CASE Head(link.in).kind \in {"X", "S", "P"}
      BY <1>2, <1>5, <2>2, <3>3 DEF Read, display
    <3>4. CASE Head(link.in).kind \in {"D", "F", "C", "A"}
      BY <1>2, <1>5, <2>2, <3>4 DEF Read, display
    <3>5. QED
      BY <3>2, <3>3, <3>4
  <2>3. QED
    BY <2>1, <2>2
<1>6. CASE Top \/ Poll \/ Accept \/ Refill \/ AnnounceUp \/ Look \/ Fill \/ Write \/ DropClient
           \/ AnnounceGone \/ Clear \/ Call \/ Exit \/ ExitAnnounce
  BY <1>2, <1>6 DEF Top, Poll, Accept, Refill, AnnounceUp, Look, Fill, Write, DropClient,
     AnnounceGone, Clear, Call, Exit, ExitAnnounce, display
<1>7. CASE Stop \/ InputTraffic \/ UNCHANGED vars
  BY <1>2, <1>7 DEF Stop, InputTraffic, vars, display
<1>8. CASE UiChanged \/ UiLook \/ UiDrops
  BY <1>1, <1>8 DEF UiChanged, UiLook, UiDrops, TakeFrameChanged, DiscardCurrent, DropFrame, display, View_
<1>9. CASE UiClaim
  BY <1>1, <1>9 DEF UiClaim, ScanSlot, ScanEnd, View_
<1>10. QED
  BY <1>3, <1>4, <1>5, <1>6, <1>7, <1>8, <1>9 DEF Next, Qemu, Worker, Program

LEMMA ScanStep ==
  ASSUME Typed, ScanInv, [Next]_vars
  PROVE  ScanInv'
<1>1. ui \in Ui_
  BY DEF Typed, ServerTypes, Ui_
<1>2. CASE UNCHANGED <<scan, ui>>
  BY <1>2 DEF ScanInv
<1>3. CASE Qemu
  BY <1>2, <1>3 DEF Qemu, Connect, Leave, Resize, Draw, Point, Malformed, Consume, NewMap, WriteBegin, WriteEnd,
     display
<1>4. CASE Worker
  <2>1. CASE Call
    <3>1. scan' = scan /\ ui'.pc = ui.pc
      BY <1>1, <2>1 DEF Call, display, Ui_
    <3>2. QED
      BY <3>1 DEF ScanInv
  <2>2. CASE Read
    <3>1. CASE link.in = <<>>
      BY <1>2, <2>2, <3>1 DEF Read, display
    <3>2. CASE link.in # <<>>
      <4>1. Head(link.in) \in Message_
        BY <3>2 DEF Typed, ServerTypes
      <4>2. Head(link.in).kind \in {"D", "F", "C", "S", "P", "X", "A"}
        BY <4>1 DEF Message_
      <4>3. CASE Head(link.in).kind \in {"X", "S", "P"}
        BY <1>2, <2>2, <3>2, <4>3 DEF Read, display
      <4>4. CASE Head(link.in).kind \in {"D", "F", "C", "A"}
        BY <1>2, <2>2, <3>2, <4>4 DEF Read, display
      <4>5. QED
        BY <4>2, <4>3, <4>4
    <3>3. QED
      BY <3>1, <3>2
  <2>3. CASE Top \/ Poll \/ Accept \/ Refill \/ AnnounceUp \/ Look \/ Fill \/ Write \/ DropClient
           \/ AnnounceGone \/ Clear \/ Exit \/ ExitAnnounce
    BY <1>2, <2>3 DEF Top, Poll, Accept, Refill, AnnounceUp, Look, Fill, Write, DropClient,
       AnnounceGone, Clear, Exit, ExitAnnounce, display
  <2>4. QED
    BY <1>4, <2>1, <2>2, <2>3 DEF Worker
<1>5. CASE Stop \/ InputTraffic \/ UNCHANGED vars
  BY <1>2, <1>5 DEF Stop, InputTraffic, vars, display
<1>6. CASE UiPoll
  <2>1. scan' = scan /\ ui'.pc = "changed" /\ ui.pc = "idle"
    BY <1>6 DEF UiPoll, PollDisplay, display
  <2>2. QED
    BY <2>1 DEF ScanInv
<1>7. CASE UiChanged \/ UiLook
  <2>1. /\ ui.pc # "claim"
        /\ (scan' # {} /\ ui'.pc = "claim") \/ (scan' = scan /\ ui'.pc = "idle")
    BY <1>1, <1>7 DEF UiChanged, UiLook, UiGoto, TakeFrameChanged, ScanBegin, display, Ui_
  <2>2. QED
    BY <2>1 DEF ScanInv
<1>8. CASE UiClaim
  <2>1. CASE ScanSlot /\ UNCHANGED ui
    <3>1. scan' # {} /\ ui.pc = "claim"
      BY <1>8, <2>1, ScanLooks DEF UiClaim, ScanSlot
    <3>2. QED
      BY <2>1, <3>1 DEF ScanInv
  <2>2. CASE ScanEnd /\ UiGoto("idle")
    <3>1. scan' = {} /\ ui'.pc = "idle"
      BY <1>1, <2>2 DEF ScanEnd, UiGoto, Ui_
    <3>2. QED
      BY <3>1 DEF ScanInv
  <2>3. QED
    BY <1>8, <2>1, <2>2 DEF UiClaim
<1>9. CASE UiDrops
  BY <1>2, <1>9 DEF UiDrops, DiscardCurrent, DropFrame
<1>10. QED
  BY <1>3, <1>4, <1>5, <1>6, <1>7, <1>8, <1>9 DEF Next, Program

LEMMA NewestStep ==
  ASSUME Typed, LinkInv, MapsInv, NewestKnown, [Next]_vars
  PROVE  NewestKnown'
<1> SUFFICES ASSUME traffic' = "frames" PROVE NewestKnown'
  BY DEF NewestKnown
<1>1. traffic = "frames" /\ ~stop /\ ~stop'
  BY TrafficFixed DEF NewestKnown
<1>2. link \in Link_ /\ link.in \in Seq(Message_) /\ writer \in Writer_ /\ writer.map \in Nat
  BY DisplayTyped DEF Typed, ServerTypes, Link_, Writer_
<1>3. link'.state # "none" => writer'.map # 0
  <2>1. CASE Connect
    BY <1>1, <1>2, <2>1 DEF Connect, Writer_
  <2>2. CASE ~Connect
    <3>1. writer'.map = writer.map \/ writer'.map = writer.map + 1
      <4>1. CASE Resize
        BY <1>2, <4>1 DEF Resize, NewMap, Writer_
      <4>2. CASE UiPoll
        BY <4>2 DEF UiPoll, PollDisplay, display
      <4>3. QED
        BY <2>2, <4>1, <4>2, MapFixed
    <3>2. link.state # "none" \/ link'.state = "none"
      <4>1. CASE link' = link
        BY <4>1
      <4>2. CASE Leave \/ Resize \/ Point \/ Malformed \/ Consume \/ Write \/ Read \/ AnnounceUp
        BY <4>2 DEF Leave, Resize, Point, Malformed, Consume, Up, Write, Read, AnnounceUp, LinkInv
      <4>3. CASE Draw
        <5>1. Tell(Message("F", 0)).state = link.state
          BY <1>2 DEF Tell, Link_
        <5>2. QED
          BY <4>1, <4>3, <5>1 DEF Draw
      <4>4. CASE DropClient \/ ExitAnnounce
        <5>1. link' = NoLink /\ NoLink.state = "none"
          BY <4>4 DEF DropClient, ExitAnnounce, NoLink
        <5>2. QED
          BY <5>1
      <4>5. CASE Top \/ Poll \/ Accept \/ Refill \/ Look \/ Fill \/ AnnounceGone \/ Clear \/ Call \/ Exit
                 \/ Program \/ UNCHANGED vars
        BY <4>1, <4>5 DEF Top, Poll, Accept, Refill, Look, Fill, AnnounceGone, Clear, Call, Exit, Program,
           Stop, InputTraffic, UiPoll, UiChanged, UiLook, UiClaim, UiDrops, vars
      <4>6. QED
        BY <2>2, <4>2, <4>3, <4>4, <4>5 DEF Next, Qemu, Worker
    <3>3. QED
      BY <1>1, <1>2, <3>1, <3>2 DEF NewestKnown
  <2>3. QED
    BY <2>1, <2>2
<1> DEFINE Known == \/ Shows \/ (received = writer.map /\ Pending)
                    \/ \E i \in Displays : link.in[i].id = writer.map
<1>4. ASSUME Up' PROVE Known'
  <2>1. CASE ~Up
    <3>1. AnnounceUp
      BY <1>4, <2>1, Arrives
    <3>2. writer.map # 0 /\ writer' = writer
      BY <1>1, <3>1 DEF AnnounceUp, LinkInv, NewestKnown, display
    <3>3. link'.in = <<Message("D", writer.map)>>
      BY <3>1, <3>2 DEF AnnounceUp
    <3>4. 1 \in Displays' /\ link'.in[1].id = writer.map
      BY <3>3 DEF Displays, Message
    <3>5. QED
      BY <3>2, <3>4
  <2>2. CASE Up /\ Resize
    <3> DEFINE d == Message("D", writer.map + 1)
    <3>1. link'.in = Append(link.in, d) /\ writer'.map = writer.map + 1 /\ d \in Message_
      <4>1. writer.map + 1 \in Maps
        BY <1>2, <2>2, DisplayAssumption DEF Resize, NewMap, Writer_, Maps, DisplayAssumption
      <4>2. d \in Message_
        BY <4>1 DEF Message, Message_
      <4>3. writer'.map = writer.map + 1
        BY <1>2, <2>2 DEF Resize, NewMap, Writer_
      <4> HIDE DEF d
      <4>4. link' = [link EXCEPT !.in = Append(@, d)]
        BY <2>2 DEF Resize, Tell, d
      <4>5. QED
        BY <1>2, <4>2, <4>3, <4>4 DEF Link_
    <3>2. d.kind = "D" /\ d.id = writer.map + 1
      BY DEF Message
    <3>3. Len(link.in) + 1 \in Displays' /\ link'.in[Len(link.in) + 1] = d
      BY <1>2, <3>1, <3>2, InAppend DEF Displays
    <3>4. QED
      BY <3>1, <3>2, <3>3
  <2>3. CASE Up /\ UiPoll
    <3>1. UNCHANGED <<link, writer>>
      BY <2>3 DEF UiPoll, PollDisplay, display
    <3>2. CASE received = 0
      <4>1. UNCHANGED view
        BY <2>3, <3>2 DEF UiPoll, display
      <4>2. writer.map # 0
        BY <1>1, <2>3 DEF NewestKnown, Up
      <4>3. QED
        BY <1>1, <2>3, <3>1, <3>2, <4>1, <4>2 DEF NewestKnown, Shows, Displays
    <3>3. CASE received # 0
      <4>1. view'.map = received
        BY <2>3, <3>3 DEF UiPoll, PollDisplay, NoView
      <4>2. ~Shows
        BY <3>3 DEF MapsInv
      <4>3. QED
        BY <1>1, <2>3, <3>1, <3>3, <4>1, <4>2 DEF NewestKnown, Shows, Displays
    <3>4. QED
      BY <3>2, <3>3
  <2>4. CASE Up /\ ~Resize /\ ~UiPoll
    <3>1. ~Connect
      BY <2>4 DEF Connect, Up
    <3>2. writer'.map = writer.map /\ view'.map = view.map
      BY <2>4, <3>1, MapFixed
    <3>3. CASE Shows
      BY <3>2, <3>3 DEF Shows
    <3>4. CASE received = writer.map /\ Pending
      <4>1. Displays = {}
        BY <1>1, <2>4, <3>4 DEF MapsInv, NewestKnown, Up
      <4>2. ~(link.in # <<>> /\ Head(link.in).kind = "D")
        BY <1>2, <4>1, InTail DEF Displays
      <4>3. received' = received
        BY <2>4, <3>1, <4>2, MapFixed
      <4>4. Pending'
        BY <1>1, <2>4, <3>4, PendingKept
      <4>5. QED
        BY <3>2, <3>4, <4>3, <4>4
    <3>5. ASSUME NEW i \in Displays, link.in[i].id = writer.map
          PROVE  Known'
      <4>1. CASE \A j \in DOMAIN link.in : j \in DOMAIN link'.in /\ link'.in[j] = link.in[j]
        <5>1. i \in Displays' /\ link'.in[i].id = writer.map
          BY <3>5, <4>1 DEF Displays
        <5>2. QED
          BY <3>2, <5>1
      <4>2. CASE /\ Read /\ link.in # <<>> /\ Head(link.in) = link.in[1]
                 /\ \A j \in DOMAIN link.in : j # 1 => j - 1 \in DOMAIN link'.in /\ link'.in[j - 1] = link.in[j]
                 /\ Head(link.in).kind \in {"D", "F"} => Pending'
                 /\ Head(link.in).kind = "D" => received' = Head(link.in).id
        <5>1. CASE i = 1
          BY <3>2, <3>5, <4>2, <5>1 DEF Displays
        <5>2. CASE i # 1
          <6>1. i - 1 \in Displays' /\ link'.in[i - 1].id = writer.map
            BY <3>5, <4>2, <5>2 DEF Displays
          <6>2. QED
            BY <3>2, <6>1
        <5>3. QED
          BY <5>1, <5>2
      <4>3. QED
        BY <1>4, <2>4, <4>1, <4>2, MessagesKept
    <3>6. QED
      BY <1>1, <2>4, <3>3, <3>4, <3>5 DEF NewestKnown
  <2>5. QED
    BY <2>1, <2>2, <2>3, <2>4
<1>5. QED
  BY <1>1, <1>3, <1>4 DEF NewestKnown

(* The newest frame of the newest mapping: its number is the largest and belongs to one slot. *)
LEMMA NewestFacts ==
  ASSUME Typed, TableInv, ShownInv
  PROVE  /\ Newest \in Nat /\ writer.map \in Nat /\ view.last_frame \in Nat
         /\ writer.map = 0 => Newest = 0
         /\ writer.map # 0 => writer.map \in Maps /\ Newest = maps[writer.map].frame_counter
         /\ Newest <= writer.frames /\ writer.frames \in Nat
         /\ writer.map # 0 => \A s \in Slots : Generation(writer.map, s) \in Nat /\ Generation(writer.map, s) <= Newest
         /\ Shows => view.last_frame <= Newest /\ view.notified <= Newest /\ view.notified \in Nat
<1>1. writer.map \in Nat /\ (writer.map # 0 => writer.map \in Maps)
  BY DisplayTyped DEF Writer_
<1>2. CASE writer.map = 0
  BY <1>1, <1>2, DisplayTyped DEF Newest, Shows
<1>3. CASE writer.map # 0
  BY <1>1, <1>3, DisplayTyped DEF Newest, Shows, TableInv, ShownInv
<1>4. QED
  BY <1>2, <1>3

(* A scan that comes to a ready slot with the newest frame keeps it, and one that has it keeps nothing else. *)
LEMMA ScanFinds ==
  ASSUME Typed, OwnerInv, TableInv, ShownInv, Shows, view.last_frame # Newest, ScanSlot,
         NEW s \in Slots, Generation(writer.map, s) = Newest, NEW c \in Scan_, scan = {c}
  PROVE  \E d \in Scan_ :
           /\ scan' = {d} /\ d.next = c.next + 1 /\ SameFrames /\ UNCHANGED <<writer, view>>
           /\ c.best = s => d.best = s
           /\ maps[writer.map].slot[s].state = "ready" =>
                \/ d.best = s
                \/ c.next # s /\ maps'[writer.map].slot[s].state = "ready"
<1>1. PICK d \in Scan_ :
        /\ scan' = {d} /\ c.next \in Slots /\ d.next = c.next + 1 /\ view.map \in Maps
        /\ SameFrames /\ UNCHANGED <<writer, view>>
        /\ \A m \in Maps, t \in Slots :
             <<m, t>> # <<view.map, c.next>> /\ maps[m].slot[t].state = "ready" =>
               maps'[m].slot[t].state = "ready"
        /\ \/ d.best = c.best /\ ~(maps[view.map].slot[c.next].state = "ready" /\ Keeps(c, c.next))
           \/ d.best = c.next /\ maps[view.map].slot[c.next].state = "ready" /\ Keeps(c, c.next)
  BY ScanLooks
<1>2. view.map = writer.map /\ writer.map \in Maps /\ writer.map # 0
  BY <1>1 DEF Shows
<1>3. /\ Newest \in Nat /\ view.last_frame \in Nat /\ view.last_frame < Newest
      /\ \A t \in Slots : Generation(writer.map, t) \in Nat /\ Generation(writer.map, t) <= Newest
  BY <1>2, NewestFacts
<1>4. c.best = s => d.best = s
  <2>1. ASSUME c.best = s, d.best = c.next, Keeps(c, c.next)
        PROVE  FALSE
    <3>1. Generation(writer.map, c.next) > Newest
      BY <1>2, <2>1 DEF Keeps, Slots
    <3>2. QED
      BY <1>1, <1>3, <3>1
  <2>2. QED
    BY <1>1, <2>1
<1>5. ASSUME maps[writer.map].slot[s].state = "ready", c.next = s
      PROVE  d.best = s
  <2>1. Generation(view.map, s) > view.last_frame
    BY <1>2, <1>3
  <2>2. c.best # 0 => c.best \in Slots /\ <<view.map, c.best>> \in Owned
    BY DEF Scan_, Slots, Owned, OwnersOf
  <2>3. c.best # 0 => c.best # s
    BY <1>2, <1>5, <2>2 DEF OwnerInv, ReadingInv
  <2>4. c.best # 0 => Generation(writer.map, c.best) # Newest
    <3>1. ASSUME c.best # 0, Generation(writer.map, c.best) = Newest PROVE FALSE
      <4>1. Generation(writer.map, c.best) = Generation(writer.map, s) /\ Generation(writer.map, c.best) # 0
        BY <1>3, <3>1
      <4>2. QED
        BY <1>2, <2>2, <2>3, <3>1, <4>1 DEF TableInv
    <3>2. QED
      BY <3>1
  <2>5. c.best # 0 => Generation(view.map, s) > Generation(view.map, c.best)
    BY <1>2, <1>3, <2>2, <2>4
  <2>6. Keeps(c, s)
    BY <2>1, <2>5 DEF Keeps
  <2>7. QED
    BY <1>1, <1>2, <1>5, <2>6
<1>6. ASSUME maps[writer.map].slot[s].state = "ready", c.next # s
      PROVE  maps'[writer.map].slot[s].state = "ready"
  BY <1>1, <1>2, <1>6
<1>7. QED
  BY <1>1, <1>4, <1>5, <1>6

LEMMA PlaceStep ==
  ASSUME Typed, OwnerInv, TableInv, ShownInv, MapsInv, PlaceInv, [Next]_vars
  PROVE  PlaceInv'
<1>1. /\ writer \in Writer_ /\ view \in View_ /\ writer.map \in Nat
      /\ \A m \in Maps : m \in Nat
      /\ scan = {} \/ \E c \in Scan_ : scan = {c}
  BY DisplayTyped DEF Writer_, Maps
(* The frame stays where it was. *)
<1>2. ASSUME SameFrames, UNCHANGED writer, view'.map = view.map, writer.slot = 0, Newest # 0,
             ~(Shows /\ view.last_frame = Newest),
             \A s \in Slots : Waits(s) =>
               \/ maps'[writer.map].slot[s].state = "ready"
               \/ Shows /\ \E k \in scan' : k.best = s
      PROVE  PlaceInv'
  <2>1. PICK s \in Slots : Waits(s)
    BY <1>2 DEF PlaceInv
  <2>2. writer.map \in Maps
    BY <1>2, NewestFacts
  <2>3. /\ maps'[writer.map].frame_counter = maps[writer.map].frame_counter
        /\ maps'[writer.map].slot[s].generation = Generation(writer.map, s)
    BY <1>2, <2>2 DEF SameFrames, Generation
  <2>4. Newest' = Newest
    BY <1>2, <2>3 DEF Newest
  <2>5. Waits(s)'
    <3>1. Generation(writer.map, s)' = maps'[writer.map].slot[s].generation
      BY <1>2 DEF Generation
    <3>2. Shows' = Shows
      BY <1>2 DEF Shows
    <3>3. Generation(writer.map, s) = Newest
      BY <2>1 DEF Waits
    <3>4. \/ maps'[writer.map].slot[s].state = "ready"
          \/ Shows /\ \E k \in scan' : k.best = s
      BY <1>2, <2>1
    <3>5. QED
      BY <1>2, <2>3, <2>4, <3>1, <3>2, <3>3, <3>4 DEF Waits
  <2>6. QED
    BY <2>5 DEF PlaceInv
<1>3. SUFFICES ASSUME writer'.slot = 0, Newest' # 0, ~(Shows' /\ view'.last_frame = Newest')
               PROVE  PlaceInv'
  BY DEF PlaceInv
<1>4. CASE TakesDisplay
  BY <1>4 DEF TakesDisplay, PlaceInv, Waits, Shows, Newest, Generation
<1>5. CASE FirstMap \/ NewMap
  <2>1. maps' = maps /\ writer'.map > writer.map /\ writer'.map \in Nat
    BY <1>1, <1>5 DEF FirstMap, NewMap, Writer_
  <2>2. writer'.map \in Maps
    <3>1. MaxMaps \in Nat \ {0} /\ writer.map \in 0..MaxMaps
      BY <1>1, DisplayAssumption DEF DisplayAssumption, Writer_
    <3>2. writer'.map = 1 \/ (writer.map < MaxMaps /\ writer'.map = writer.map + 1)
      BY <1>1, <1>5 DEF FirstMap, NewMap, Writer_
    <3>3. QED
      BY <3>1, <3>2 DEF Maps
  <2>3. Newest' = 0
    BY <2>1, <2>2 DEF Newest, TableInv
  <2>4. QED
    BY <1>3, <2>3
<1>6. CASE WriteBegin
  BY <1>3, <1>6, WriteBegins
<1>7. CASE WriteEnd
  <2>1. /\ writer.map \in Maps /\ writer.slot \in Slots /\ writer'.map = writer.map
        /\ maps'[writer.map].frame_counter = writer.frames + 1
        /\ maps'[writer.map].slot[writer.slot].generation = writer.frames + 1
        /\ maps'[writer.map].slot[writer.slot].state = "ready"
    BY <1>7, WriteEnds
  <2>2. Newest' = writer.frames + 1
    BY <2>1 DEF Newest, Maps
  <2>3. PICK s \in Slots : /\ Generation(writer.map, s)' = Newest'
                            /\ maps'[writer'.map].slot[s].state = "ready"
    BY <2>1, <2>2 DEF Generation
  <2>4. Waits(s)'
    BY <2>3 DEF Waits, Generation
  <2>5. QED
    BY <2>4 DEF PlaceInv
<1>8. CASE StartsScan
  <2>1. /\ maps' = maps /\ writer' = writer /\ scan = {} /\ view'.map = view.map
        /\ view'.last_frame = view.last_frame
    BY <1>1, <1>8 DEF StartsScan, ScanBegin, View_
  <2>2. SameFrames /\ Newest' = Newest /\ Shows' = Shows
    BY <2>1 DEF SameFrames, Newest, Shows
  <2>3. \A s \in Slots : Waits(s) => maps'[writer.map].slot[s].state = "ready"
    BY <2>1 DEF Waits
  <2>4. QED
    BY <1>2, <1>3, <2>1, <2>2, <2>3
<1>9. ASSUME SameFrames, UNCHANGED writer
      PROVE  Newest' = Newest
  BY <1>9, NewestFacts DEF Newest, SameFrames
<1>10. CASE PollDisplay
  <2>1. /\ maps' = Dropping(maps, view', scan', held') /\ scan = {} /\ scan' = {} /\ received # 0
        /\ UNCHANGED writer
    BY <1>10 DEF PollDisplay
  <2>2. SameFrames /\ SameReady
    BY <2>1, DroppingKeeps
  <2>3. ~Shows
    BY <2>1 DEF MapsInv
  <2>4. Newest' = Newest
    BY <1>9, <2>1, <2>2
  <2>5. PICK s \in Slots : Waits(s)
    BY <1>3, <2>1, <2>3, <2>4 DEF PlaceInv
  <2>6. writer.map \in Maps
    BY <1>3, <2>4, NewestFacts
  <2>7. maps'[writer.map].slot[s].generation = Newest /\ maps'[writer.map].slot[s].state = "ready"
    BY <2>1, <2>2, <2>5, <2>6 DEF Waits, SameFrames, SameReady, Generation
  <2>8. Waits(s)'
    BY <2>1, <2>4, <2>7 DEF Waits, Generation
  <2>9. QED
    BY <2>8 DEF PlaceInv
<1>11. CASE DiscardCurrent \/ DropFrame
  <2>1. /\ maps' = Dropping(maps, view', scan', held') /\ UNCHANGED writer /\ scan' = scan
        /\ view'.map = view.map /\ view'.last_frame = view.last_frame
    BY <1>1, <1>11 DEF DiscardCurrent, DropFrame, View_
  <2>2. SameFrames /\ SameReady
    BY <2>1, DroppingKeeps
  <2>3. Newest' = Newest /\ Shows' = Shows
    BY <1>9, <2>1, <2>2 DEF Shows
  <2>4. writer.map \in Maps
    BY <1>3, <2>3, NewestFacts
  <2>5. \A s \in Slots : Waits(s) => \/ maps'[writer.map].slot[s].state = "ready"
                                     \/ Shows /\ \E k \in scan' : k.best = s
    BY <2>1, <2>2, <2>4 DEF Waits, SameReady
  <2>6. QED
    BY <1>2, <1>3, <2>1, <2>2, <2>3, <2>5
<1>12. CASE ScanSlot
  <2>1. PICK c \in Scan_, d \in Scan_ :
          /\ scan = {c} /\ scan' = {d} /\ SameFrames /\ UNCHANGED <<writer, view>>
          /\ \A m \in Maps, s \in Slots :
               <<m, s>> # <<view.map, c.next>> /\ maps[m].slot[s].state = "ready" =>
                 maps'[m].slot[s].state = "ready"
    BY <1>12, ScanLooks
  <2>2. Newest' = Newest /\ Shows' = Shows
    BY <1>9, <2>1 DEF Shows
  <2>3. writer.map \in Maps
    BY <1>3, <2>2, NewestFacts
  <2>4. ASSUME NEW s \in Slots, Waits(s)
        PROVE  \/ maps'[writer.map].slot[s].state = "ready"
               \/ Shows /\ \E k \in scan' : k.best = s
    <3>1. CASE Shows
      <4>1. view.last_frame # Newest
        BY <1>3, <2>1, <2>2, <3>1
      <4>2. Generation(writer.map, s) = Newest
        BY <2>4 DEF Waits
      <4>3. maps[writer.map].slot[s].state = "ready" \/ c.best = s
        BY <2>1, <2>4 DEF Waits
      <4>4. PICK e \in Scan_ :
              /\ scan' = {e}
              /\ c.best = s => e.best = s
              /\ maps[writer.map].slot[s].state = "ready" =>
                   e.best = s \/ maps'[writer.map].slot[s].state = "ready"
        BY <1>12, <2>1, <3>1, <4>1, <4>2, ScanFinds
      <4>5. e.best = s => \E k \in scan' : k.best = s
        BY <4>4
      <4>6. e.best = s \/ maps'[writer.map].slot[s].state = "ready"
        BY <4>3, <4>4
      <4>7. QED
        BY <3>1, <4>5, <4>6
    <3>2. CASE ~Shows
      <4>1. maps[writer.map].slot[s].state = "ready"
        BY <2>4, <3>2 DEF Waits
      <4>2. writer.map # view.map
        BY <2>3, <3>2, DisplayTyped DEF Shows, Maps
      <4>3. QED
        BY <2>1, <2>3, <4>1, <4>2
    <3>3. QED
      BY <3>1, <3>2
  <2>5. QED
    BY <1>2, <1>3, <2>1, <2>2, <2>4
<1>13. CASE ScanEnd
  <2>1. maps' = Dropping(maps, view', scan', held') /\ scan' = {} /\ UNCHANGED writer
    BY <1>13 DEF ScanEnd
  <2>2. SameFrames /\ SameReady
    BY <2>1, DroppingKeeps
  <2>3. PICK c \in scan :
          view' = IF c.best = 0 THEN view
                  ELSE [view EXCEPT !.current = c.best, !.last_frame = Generation(view.map, c.best)]
    BY <1>13 DEF ScanEnd
  <2>4. scan = {c} /\ view'.map = view.map
        /\ (c.best = 0 => view'.last_frame = view.last_frame)
        /\ (c.best # 0 => view'.last_frame = Generation(view.map, c.best))
    BY <1>1, <2>3 DEF View_
  <2>5. Newest' = Newest /\ Shows' = Shows
    BY <1>9, <2>1, <2>2, <2>4 DEF Shows
  <2>6. writer.map \in Maps /\ writer.map # 0
    BY <1>3, <2>5, NewestFacts
  <2>7. ~(Shows /\ view.last_frame = Newest)
    <3>1. ASSUME Shows, view.last_frame = Newest, c.best # 0
          PROVE  FALSE
      <4>1. Generation(writer.map, c.best) > Newest
        BY <2>3, <3>1 DEF ShownInv, Shows
      <4>2. c.best \in Slots
        BY <1>1, <2>4, <3>1 DEF Scan_, Slots
      <4>3. QED
        BY <2>6, <4>1, <4>2, NewestFacts
    <3>2. QED
      BY <1>3, <2>4, <2>5, <3>1
  <2>8. \A s \in Slots : Waits(s) => maps[writer.map].slot[s].state = "ready"
    <3>1. ASSUME NEW s \in Slots, Waits(s), Shows, c.best = s
          PROVE  FALSE
      <4>1. Generation(view.map, c.best) = Newest /\ s # 0
        BY <3>1 DEF Waits, Shows, Slots
      <4>2. QED
        BY <1>3, <2>4, <2>5, <3>1, <4>1
    <3>2. QED
      BY <2>4, <3>1 DEF Waits
  <2>9. \A s \in Slots : Waits(s) => maps'[writer.map].slot[s].state = "ready"
    BY <2>2, <2>6, <2>8 DEF SameReady
  <2>10. QED
    BY <1>2, <1>3, <2>1, <2>2, <2>4, <2>5, <2>7, <2>9
<1>14. QED
  BY <1>4, <1>5, <1>6, <1>7, <1>8, <1>10, <1>11, <1>12, <1>13, DisplayMoves

LEMMA FindsStep ==
  ASSUME Typed, OwnerInv, TableInv, ShownInv, MapsInv, Shows, writer.slot = 0, view.last_frame # Newest,
         Finds, [Next]_vars, Shows', writer'.slot = 0, view'.last_frame # Newest'
  PROVE  Finds' /\ view'.notified = view.notified
<1>1. PICK k \in scan, s \in Slots :
        /\ Generation(writer.map, s) = Newest
        /\ k.best = s \/ (maps[writer.map].slot[s].state = "ready" /\ k.next <= s)
  BY DEF Finds
<1>2. k \in Scan_ /\ scan = {k} /\ writer.map \in Maps /\ view \in View_ /\ writer \in Writer_
  BY <1>1, DisplayTyped DEF Shows
<1>3. ASSUME SameFrames, UNCHANGED writer, view'.notified = view.notified, NEW d, scan' = {d},
             d.best = s \/ (maps'[writer.map].slot[s].state = "ready" /\ d.next <= s)
      PROVE  Finds' /\ view'.notified = view.notified
  <2>1. Generation(writer.map, s)' = Generation(writer.map, s) /\ Newest' = Newest
    BY <1>2, <1>3 DEF SameFrames, Generation, Newest
  <2>2. \E c \in scan', t \in Slots :
          /\ Generation(writer.map, t)' = Newest'
          /\ c.best = t \/ (maps'[writer'.map].slot[t].state = "ready" /\ c.next <= t)
    BY <1>1, <1>3, <2>1
  <2>3. QED
    BY <1>3, <2>2 DEF Finds, Generation
<1>4. CASE TakesDisplay
  <2>1. SameFrames /\ UNCHANGED <<writer, view, maps, scan>>
    BY <1>4 DEF TakesDisplay, SameFrames
  <2>2. QED
    BY <1>1, <1>2, <1>3, <2>1
<1>5. CASE FirstMap \/ NewMap
  <2>1. writer'.map > writer.map /\ view' = view
    BY <1>2, <1>5 DEF FirstMap, NewMap, Writer_
  <2>2. QED
    BY <1>2, <2>1 DEF Shows, Writer_
<1>6. CASE WriteBegin \/ WriteEnd
  BY <1>6, WriteBegins DEF WriteEnd
<1>7. CASE PollDisplay \/ StartsScan \/ DiscardCurrent
  BY <1>2, <1>7 DEF PollDisplay, StartsScan, ScanBegin, DiscardCurrent
<1>8. CASE DropFrame
  <2>1. maps' = Dropping(maps, view', scan', held') /\ UNCHANGED <<writer, view>> /\ scan' = {k}
    BY <1>2, <1>8 DEF DropFrame
  <2>2. SameFrames /\ SameReady
    BY <2>1, DroppingKeeps
  <2>3. QED
    BY <1>1, <1>2, <1>3, <2>1, <2>2 DEF SameReady
<1>9. CASE ScanSlot
  <2>1. PICK d \in Scan_ :
          /\ scan' = {d} /\ d.next = k.next + 1 /\ SameFrames /\ UNCHANGED <<writer, view>>
          /\ k.best = s => d.best = s
          /\ maps[writer.map].slot[s].state = "ready" =>
               \/ d.best = s
               \/ k.next # s /\ maps'[writer.map].slot[s].state = "ready"
    BY <1>1, <1>2, <1>9, ScanFinds
  <2>2. k.next <= s /\ k.next # s => d.next <= s
    BY <1>2, <2>1 DEF Scan_, Slots
  <2>3. d.best = s \/ (maps'[writer.map].slot[s].state = "ready" /\ d.next <= s)
    BY <1>1, <2>1, <2>2
  <2>4. QED
    BY <1>3, <2>1, <2>3
<1>10. CASE ScanEnd
  <2>1. PICK c \in scan :
          /\ c.next \notin Slots
          /\ view' = IF c.best = 0 THEN view
                     ELSE [view EXCEPT !.current = c.best, !.last_frame = Generation(view.map, c.best)]
    BY <1>10 DEF ScanEnd
  <2>2. maps' = Dropping(maps, view', scan', held') /\ UNCHANGED writer
    BY <1>10 DEF ScanEnd
  <2>3. SameFrames
    BY <2>2, DroppingKeeps
  <2>4. c = k /\ ~(k.next <= s)
    BY <1>1, <1>2, <2>1 DEF Scan_, Slots
  <2>5. k.best = s /\ s # 0
    BY <1>1, <2>4 DEF Slots
  <2>6. view'.last_frame = Newest
    BY <1>1, <1>2, <2>1, <2>4, <2>5 DEF View_, Shows
  <2>7. Newest' = Newest
    BY <1>2, <2>2, <2>3 DEF Newest, SameFrames
  <2>8. QED
    BY <2>6, <2>7
<1>11. QED
  BY <1>4, <1>5, <1>6, <1>7, <1>8, <1>9, <1>10, DisplayMoves

(* A scan that starts finds the newest frame. *)
LEMMA ScanWillFind ==
  ASSUME Typed, OwnerInv, TableInv, ShownInv, PlaceInv, Shows, writer.slot = 0, view.last_frame # Newest,
         StartsScan
  PROVE  Finds'
<1>1. /\ scan = {} /\ scan' = {[next |-> 1, best |-> 0]} /\ UNCHANGED <<maps, writer>>
  BY DEF StartsScan, ScanBegin
<1>2. Newest # 0
  BY NewestFacts
<1>3. PICK s \in Slots : Waits(s)
  BY <1>2 DEF PlaceInv
<1>4. Generation(writer.map, s) = Newest /\ maps[writer.map].slot[s].state = "ready" /\ 1 <= s
  BY <1>1, <1>3 DEF Waits, Slots
<1>5. Generation(writer.map, s)' = Newest' /\ maps'[writer'.map].slot[s].state = "ready"
  BY <1>1, <1>4 DEF Generation, Newest
<1>6. \E k \in scan' : k.next <= s
  BY <1>1, <1>4
<1>7. QED
  BY <1>5, <1>6 DEF Finds, Generation

LEMMA ChangedKept ==
  ASSUME Typed, ui.pc = "changed", ~UiChanged, [Next]_vars
  PROVE  ui'.pc = "changed"
<1>1. ui \in Ui_
  BY DEF Typed, ServerTypes, Ui_
<1>2. CASE Qemu
  BY <1>2 DEF Qemu, Connect, Leave, Resize, Draw, Point, Malformed, Consume
<1>3. CASE Worker
  <2>1. CASE Call
    BY <1>1, <2>1 DEF Call, Ui_
  <2>2. CASE Worker /\ ~Call
    BY <2>2 DEF Worker, Top, Poll, Accept, Refill, AnnounceUp, Read, Look, Fill, Write, DropClient,
       AnnounceGone, Clear, Exit, ExitAnnounce
  <2>3. QED
    BY <1>3, <2>1, <2>2
<1>4. CASE Program
  BY <1>4 DEF Program, Stop, InputTraffic, UiPoll, UiLook, UiClaim, UiDrops
<1>5. QED
  BY <1>2, <1>3, <1>4 DEF Next, vars

LEMMA NoticeStep ==
  ASSUME Typed, LinkInv, OwnerInv, TableInv, ShownInv, MapsInv, NewestKnown, ScanInv, PlaceInv, NoticeInv,
         [Next]_vars
  PROVE  NoticeInv'
<1> SUFFICES ASSUME traffic' = "frames", Shows', writer'.slot = 0, view'.last_frame # Newest'
             PROVE  /\ view'.notified = Newest' => Finds'
                    /\ Up' => Notices' # {} \/ Pending' \/ ui'.pc = "changed" \/ Finds'
  BY DEF NoticeInv
<1>1. /\ traffic = "frames" /\ writer \in Writer_ /\ view \in View_ /\ ui \in Ui_ /\ link \in Link_
      /\ link.in \in Seq(Message_) /\ writer.map \in Nat
  BY TrafficFixed, DisplayTyped DEF Typed, ServerTypes, Ui_, Link_, Writer_
<1>2. CASE ~Shows
  <2>1. ~TakesDisplay /\ ~StartsScan /\ ~ScanSlot /\ ~ScanEnd /\ ~DiscardCurrent /\ ~DropFrame /\ ~WriteBegin /\ ~WriteEnd
    <3>1. CASE WriteBegin \/ WriteEnd
      BY <1>1, <1>2, <3>1 DEF WriteBegin, WriteEnd, Shows, Writer_
    <3>2. CASE TakesDisplay \/ StartsScan \/ ScanSlot \/ ScanEnd \/ DiscardCurrent \/ DropFrame
      <4>1. writer' = writer /\ view'.map = view.map
        BY <1>1, <3>2 DEF TakesDisplay, StartsScan, ScanSlot, ScanEnd, DiscardCurrent, DropFrame, View_
      <4>2. QED
        BY <1>2, <4>1 DEF Shows
    <3>3. QED
      BY <3>1, <3>2
  <2>2. ~FirstMap /\ ~NewMap
    <3>1. FirstMap \/ NewMap => writer'.map > writer.map /\ view' = view
      BY <1>1 DEF FirstMap, NewMap, Writer_
    <3>2. view.map <= writer.map /\ view.map \in Nat
      BY <1>1 DEF MapsInv, View_
    <3>3. QED
      BY <1>1, <3>1, <3>2 DEF Shows
  <2>3. PollDisplay
    BY <2>1, <2>2, DisplayMoves
  <2>4. view'.notified = 0 /\ view'.last_frame = 0
    BY <2>3 DEF PollDisplay, NoView
  <2>5. UiPoll
    <3>1. writer' = writer
      BY <2>3 DEF PollDisplay
    <3>2. view'.map # view.map
      BY <1>2, <3>1 DEF Shows
    <3>3. ~Connect /\ ~Resize
      BY <3>2 DEF Connect, Resize, NewMap
    <3>4. QED
      BY <3>2, <3>3, MapFixed
  <2>6. ui'.pc = "changed"
    BY <2>5 DEF UiPoll
  <2>7. QED
    BY <2>4, <2>6
<1>3. CASE Shows /\ writer.slot # 0
  <2>1. WriteEnd
    <3>1. CASE TakesDisplay \/ StartsScan \/ ScanSlot \/ ScanEnd \/ DiscardCurrent \/ DropFrame \/ PollDisplay
      BY <1>3, <3>1 DEF TakesDisplay, StartsScan, ScanSlot, ScanEnd, DiscardCurrent, DropFrame, PollDisplay
    <3>2. CASE FirstMap \/ NewMap \/ WriteBegin
      BY <1>3, <3>2 DEF FirstMap, NewMap, WriteBegin, Shows
    <3>3. QED
      BY <3>1, <3>2, DisplayMoves
  <2>2. Newest' = writer.frames + 1 /\ view' = view
    BY <2>1, WriteEnds DEF Newest, WriteEnd, Maps
  <2>3. view.notified <= writer.frames /\ view.notified \in Nat /\ writer.frames \in Nat
    BY <1>3, NewestFacts
  <2>4. Draw
    <3>1. writer' # writer /\ writer'.map = writer.map
      BY <1>3, <2>1, WriteEnds
    <3>2. CASE Connect \/ Resize
      BY <1>3, <3>1, <3>2 DEF Connect, Resize, NewMap, Shows
    <3>3. CASE Qemu /\ ~Connect /\ ~Resize /\ ~Draw
      BY <3>1, <3>3 DEF Qemu, Leave, Point, Malformed, Consume, display
    <3>4. CASE Worker \/ Program \/ UNCHANGED vars
      <4>1. writer' = writer
        <5>1. CASE Read
          <6>1. CASE link.in = <<>>
            BY <5>1, <6>1 DEF Read, display
          <6>2. CASE link.in # <<>>
            <7>1. Head(link.in) \in Message_
              BY <1>1, <6>2
            <7>2. Head(link.in).kind \in {"D", "F", "C", "S", "P", "X", "A"}
              BY <7>1 DEF Message_
            <7>3. CASE Head(link.in).kind \in {"X", "S", "P"}
              BY <5>1, <6>2, <7>3 DEF Read, display
            <7>4. CASE Head(link.in).kind \in {"D", "F", "C", "A"}
              BY <5>1, <6>2, <7>4 DEF Read, display
            <7>5. QED
              BY <7>2, <7>3, <7>4
          <6>3. QED
            BY <6>1, <6>2
        <5>2. CASE Worker /\ ~Read
          BY <5>2 DEF Worker, Top, Poll, Accept, Refill, AnnounceUp, Look, Fill, Write, DropClient,
             AnnounceGone, Clear, Call, Exit, ExitAnnounce, display
        <5>3. CASE Program \/ UNCHANGED vars
          BY <5>3 DEF Program, Stop, InputTraffic, UiPoll, UiChanged, UiLook, UiClaim, UiDrops, PollDisplay,
             TakeFrameChanged, ScanSlot, ScanEnd, DiscardCurrent, DropFrame, display, vars
        <5>4. QED
          BY <3>4, <5>1, <5>2, <5>3
      <4>2. QED
        BY <3>1, <4>1
    <3>5. QED
      BY <3>2, <3>3, <3>4 DEF Next
  <2>5. ASSUME Up' PROVE Notices' # {}
    <3>1. link' = Tell(Message("F", 0))
      BY <1>3, <2>4 DEF Draw, WriteBegin
    <3>2. Up
      BY <2>5, <3>1 DEF Tell, Up
    <3>3. link'.in = Append(link.in, Message("F", 0))
      BY <1>1, <3>1, <3>2 DEF Tell, Link_
    <3>4. Message("F", 0) \in Message_ /\ Message("F", 0).kind = "F"
      BY DEF Message, Message_
    <3>5. Len(link.in) + 1 \in Notices'
      BY <1>1, <3>3, <3>4, InAppend DEF Notices
    <3>6. QED
      BY <3>5
  <2>6. QED
    BY <2>2, <2>3, <2>5
<1>4. CASE Shows /\ writer.slot = 0
  <2>1. view.last_frame # Newest
    <3>1. SUFFICES ASSUME view.last_frame = Newest PROVE FALSE
      OBVIOUS
    <3>2. received = 0 /\ writer.map \in Maps
      BY <1>4, NewestFacts DEF MapsInv, Shows
    <3>3. ASSUME SameFrames, UNCHANGED writer, view'.last_frame = view.last_frame
          PROVE  FALSE
      <4>1. Newest' = Newest
        BY <3>2, <3>3 DEF Newest, SameFrames
      <4>2. QED
        BY <3>1, <3>3, <4>1
    <3>4. CASE TakesDisplay \/ StartsScan
      <4>1. SameFrames /\ UNCHANGED writer /\ view'.last_frame = view.last_frame
        BY <1>1, <3>4 DEF TakesDisplay, StartsScan, View_, SameFrames
      <4>2. QED
        BY <3>3, <4>1
    <3>5. CASE FirstMap \/ NewMap
      <4>1. writer'.map > writer.map /\ view' = view
        BY <1>1, <3>5 DEF FirstMap, NewMap, Writer_
      <4>2. QED
        BY <1>1, <1>4, <4>1 DEF Shows
    <3>6. CASE WriteBegin \/ WriteEnd \/ PollDisplay
      BY <1>4, <3>2, <3>6, WriteBegins DEF WriteEnd, PollDisplay
    <3>7. CASE DiscardCurrent \/ DropFrame
      <4>1. maps' = Dropping(maps, view', scan', held') /\ UNCHANGED writer /\ view'.last_frame = view.last_frame
        BY <1>1, <3>7 DEF DiscardCurrent, DropFrame, View_
      <4>2. QED
        BY <3>3, <4>1, DroppingKeeps
    <3>8. CASE ScanSlot
      <4>1. SameFrames /\ UNCHANGED <<writer, view>>
        BY <3>8, ScanLooks
      <4>2. QED
        BY <3>3, <4>1
    <3>9. CASE ScanEnd
      <4>1. PICK c \in scan :
              view' = IF c.best = 0 THEN view
                      ELSE [view EXCEPT !.current = c.best, !.last_frame = Generation(view.map, c.best)]
        BY <3>9 DEF ScanEnd
      <4>2. SameFrames /\ UNCHANGED writer
        BY <3>9, DroppingKeeps DEF ScanEnd
      <4>3. c.best # 0 => c.best \in Slots
        BY <4>1, DisplayTyped DEF Scan_, Slots
      <4>4. c.best # 0 => Generation(view.map, c.best) > Newest /\ Generation(view.map, c.best) <= Newest
                          /\ Generation(view.map, c.best) \in Nat
        BY <1>4, <3>1, <4>1, <4>3, NewestFacts DEF ShownInv, Shows
      <4>5. c.best = 0
        BY <4>4, NewestFacts
      <4>6. QED
        BY <3>3, <4>1, <4>2, <4>5
    <3>10. QED
      BY <3>4, <3>5, <3>6, <3>7, <3>8, <3>9, DisplayMoves
  <2>2. (view.notified = Newest => Finds) /\ (Up => Notices # {} \/ Pending \/ ui.pc = "changed" \/ Finds)
    BY <1>1, <1>4, <2>1 DEF NoticeInv
  <2>3. Finds => Finds' /\ view'.notified = view.notified
    BY <1>4, <2>1, FindsStep
  <2>4. StartsScan => Finds'
    BY <1>4, <2>1, ScanWillFind
  <2>5. ~(FirstMap \/ NewMap \/ WriteBegin \/ WriteEnd \/ PollDisplay)
    <3>1. CASE FirstMap \/ NewMap
      <4>1. writer'.map > writer.map /\ view' = view
        BY <1>1, <3>1 DEF FirstMap, NewMap, Writer_
      <4>2. QED
        BY <1>1, <1>4, <4>1 DEF Shows
    <3>2. CASE WriteBegin \/ WriteEnd
      BY <1>4, <3>2, WriteBegins DEF WriteEnd
    <3>3. CASE PollDisplay
      BY <1>4, <3>3 DEF PollDisplay, MapsInv
    <3>4. QED
      BY <3>1, <3>2, <3>3
  <2>6. StartsScan \/ (SameFrames /\ UNCHANGED writer /\ view'.notified = view.notified)
    <3>1. CASE TakesDisplay
      BY <3>1 DEF TakesDisplay, SameFrames
    <3>2. CASE DiscardCurrent \/ DropFrame \/ ScanEnd
      <4>1. maps' = Dropping(maps, view', scan', held') /\ UNCHANGED writer /\ view'.notified = view.notified
        BY <1>1, <3>2 DEF DiscardCurrent, DropFrame, ScanEnd, View_
      <4>2. QED
        BY <4>1, DroppingKeeps
    <3>3. CASE ScanSlot
      BY <3>3, ScanLooks
    <3>4. QED
      BY <2>5, <3>1, <3>2, <3>3, DisplayMoves
  <2>7. ASSUME view'.notified = Newest' PROVE Finds'
    <3>1. CASE StartsScan
      BY <2>4, <3>1
    <3>2. CASE SameFrames /\ UNCHANGED writer /\ view'.notified = view.notified
      <4>1. Newest' = Newest
        BY <1>4, <3>2, NewestFacts DEF Newest, SameFrames
      <4>2. QED
        BY <2>2, <2>3, <2>7, <3>2, <4>1
    <3>3. QED
      BY <2>6, <3>1, <3>2
  <2>8. ASSUME Up', Up PROVE Notices' # {} \/ Pending' \/ ui'.pc = "changed" \/ Finds'
    <3>1. CASE Notices # {}
      <4>1. PICK i \in DOMAIN link.in : link.in[i].kind \in {"D", "F"}
        BY <3>1 DEF Notices
      <4>2. CASE i \in DOMAIN link'.in /\ link'.in[i] = link.in[i]
        BY <4>1, <4>2 DEF Notices
      <4>3. CASE i - 1 \in DOMAIN link'.in /\ link'.in[i - 1] = link.in[i]
        BY <4>1, <4>3 DEF Notices
      <4>4. CASE i = 1 /\ Head(link.in) = link.in[1] /\ (Head(link.in).kind \in {"D", "F"} => Pending')
        BY <4>1, <4>4
      <4>5. QED
        BY <2>8, <4>1, <4>2, <4>3, <4>4, MessagesKept
    <3>2. CASE Pending
      <4>1. UiPoll => ui'.pc = "changed"
        BY DEF UiPoll
      <4>2. QED
        BY <1>1, <3>2, <4>1, PendingKept
    <3>3. CASE ui.pc = "changed"
      <4>1. CASE UiChanged
        <5>1. CASE view.map # 0 /\ maps[view.map].frame_counter # view.notified
          BY <2>4, <4>1, <5>1 DEF UiChanged, TakeFrameChanged, StartsScan
        <5>2. CASE ~(view.map # 0 /\ maps[view.map].frame_counter # view.notified)
          <6>1. view.notified = Newest
            BY <1>4, <5>2 DEF Shows, Newest
          <6>2. QED
            BY <2>2, <2>3, <6>1
        <5>3. QED
          BY <5>1, <5>2
      <4>2. CASE ~UiChanged
        BY <1>1, <3>3, <4>2, ChangedKept
      <4>3. QED
        BY <4>1, <4>2
    <3>4. QED
      BY <2>2, <2>3, <2>8, <3>1, <3>2, <3>3
  <2>9. ASSUME Up', ~Up PROVE Notices' # {}
    <3>1. AnnounceUp
      BY <2>9, Arrives
    <3>2. link'.in = <<Message("D", writer.map)>>
      BY <1>1, <1>4, <3>1 DEF AnnounceUp, NoLink, Shows
    <3>3. 1 \in DOMAIN link'.in /\ link'.in[1].kind = "D"
      BY <3>2 DEF Message
    <3>4. QED
      BY <3>3 DEF Notices
  <2>10. QED
    BY <2>7, <2>8, <2>9
<1>5. QED
  BY <1>2, <1>3, <1>4

-----------------------------------------------------------------------------
(* All of it together. *)

FrameInv == ServerInv /\ TableInv /\ ShownInv /\ MapsInv /\ NewestKnown /\ ScanInv /\ PlaceInv /\ NoticeInv

LEMMA FrameInit == Init => FrameInv
<1> SUFFICES ASSUME Init PROVE FrameInv
  OBVIOUS
<1>1. ServerInv
  BY ServerInit
<1>2. /\ writer = [map |-> 0, slot |-> 0, frames |-> 0] /\ view = NoView /\ scan = {} /\ received = 0
      /\ link = NoLink /\ ui.pc = "idle" /\ ~stop
      /\ \A m \in Maps : maps[m].frame_counter = 0
      /\ \A m \in Maps, s \in Slots : Generation(m, s) = 0
  BY DEF Init, DisplayInit, Generation
<1>3. link.in = <<>> /\ link.state = "none" /\ ~Up
  BY <1>2 DEF NoLink, Up
<1>4. writer.map = 0 /\ writer.slot = 0 /\ writer.frames = 0 /\ Newest = 0
  BY <1>2 DEF Newest
<1>5. view.map = 0 /\ view.current = 0 /\ view.last_frame = 0 /\ view.notified = 0
  BY <1>2 DEF NoView
<1>6. TableInv
  BY <1>2, <1>4 DEF TableInv
<1>7. ShownInv
  BY <1>2, <1>5 DEF ShownInv
<1>8. MapsInv
  <2>1. Displays = {}
    BY <1>3 DEF Displays
  <2>2. QED
    BY <1>2, <1>3, <1>4, <1>5, <2>1 DEF MapsInv, Shows
<1>9. NewestKnown
  BY <1>2, <1>3 DEF NewestKnown
<1>10. ScanInv /\ PlaceInv /\ NoticeInv
  BY <1>2, <1>4 DEF ScanInv, PlaceInv, NoticeInv, Shows
<1>11. QED
  BY <1>1, <1>6, <1>7, <1>8, <1>9, <1>10 DEF FrameInv

LEMMA FrameStep ==
  ASSUME FrameInv, [Next]_vars
  PROVE  FrameInv'
<1>1. Typed /\ LinkInv /\ OwnerInv /\ TableInv /\ ShownInv /\ MapsInv /\ NewestKnown /\ ScanInv /\ PlaceInv /\ NoticeInv
  BY DEF FrameInv, ServerInv
<1>2. ServerInv'
  BY ServerStep DEF FrameInv
<1>3. TableInv' /\ ShownInv' /\ MapsInv' /\ NewestKnown' /\ ScanInv'
  BY <1>1, TableStep, ShownStep, MapsStep, NewestStep, ScanStep
<1>4. PlaceInv' /\ NoticeInv'
  BY <1>1, PlaceStep, NoticeStep
<1>5. QED
  BY <1>2, <1>3, <1>4 DEF FrameInv

LEMMA ScanIsOne ==
  ASSUME Typed
  PROVE  Cardinality(scan) <= 1
<1>1. scan = {} \/ \E k : scan = {k}
  BY DisplayTyped
<1>2. Cardinality({}) = 0
  BY FS_EmptySet
<1>3. \A k : Cardinality({k}) = 1
  BY FS_Singleton
<1>4. CASE scan = {}
  BY <1>2, <1>4
<1>5. ASSUME NEW k, scan = {k} PROVE Cardinality(scan) <= 1
  <2>1. Cardinality(scan) = 1
    BY <1>3, <1>5
  <2>2. QED
    BY ONLY <2>1
<1>6. QED
  BY <1>1, <1>4, <1>5

LEMMA FramesFollow ==
  ASSUME FrameInv
  PROVE  FramesOwned
<1>1. Typed /\ LinkInv /\ OwnerInv /\ ServerInv
  BY DEF FrameInv, ServerInv
<1>2. TypeOK
  <2>1. Len(queue.events) <= Capacity /\ Len(worker.partial) <= 1
    BY <1>1 DEF LinkInv
  <2>2. queue.connected \in BOOLEAN /\ queue.capture \in {"unset", "abs", "rel"}
    BY <1>1 DEF Typed, InputTypes, Routing
  <2>3. \A m \in Maps, s \in Slots : maps[m].slot[s].state \in {"free", "writing", "ready", "reading"}
    BY <1>1, DisplayTyped DEF Map_, Slot_
  <2>4. view.map \in 0..MaxMaps /\ received \in 0..MaxMaps
    BY <1>1, DisplayTyped DEF View_
  <2>5. mapping.shape \in 0..MaxCursor /\ stop \in BOOLEAN
    BY <1>1 DEF Typed, ServerTypes, ServerInv, CursorTypes
  <2>6. QED
    BY <1>1, <2>1, <2>2, <2>3, <2>4, <2>5, ScanIsOne DEF TypeOK
<1>3. ReadersUndisturbed
  <2>1. ASSUME NEW o \in Owned
        PROVE  maps[o[1]].slot[o[2]].state = "reading"
    <3>1. o[1] \in Maps /\ o[2] \in Slots /\ o = <<o[1], o[2]>>
      BY <1>1, OwnersTyped DEF Owned
    <3>2. QED
      BY <1>1, <3>1 DEF OwnerInv, ReadingInv
  <2>2. QED
    BY <2>1 DEF ReadersUndisturbed
<1>4. NoSlotLeaks
  BY <1>1 DEF NoSlotLeaks, OwnerInv, ReadingInv
<1>5. NewestShown
  <2> SUFFICES ASSUME AtRest, traffic = "frames" PROVE view.last_frame = Newest
    BY DEF NewestShown
  <2>1. /\ Up /\ link.in = <<>> /\ ~Pending /\ ui.pc = "idle" /\ writer.slot = 0
    BY DEF AtRest, Pending
  <2>2. Displays = {} /\ Notices = {}
    BY <2>1 DEF Displays, Notices
  <2>3. scan = {} /\ ~Finds
    BY <2>1 DEF FrameInv, ScanInv, Finds
  <2>4. Shows
    BY <2>1, <2>2 DEF FrameInv, NewestKnown
  <2>5. QED
    BY <2>1, <2>2, <2>3, <2>4 DEF FrameInv, NoticeInv
<1>6. QED
  BY <1>2, <1>3, <1>4, <1>5 DEF FramesOwned

(* QEMU never writes a frame that is read, every claim is given back, and at rest the newest frame is shown. *)
THEOREM FramesCorrect == Spec => []FramesOwned
<1>1. Init => FrameInv
  BY FrameInit
<1>2. FrameInv /\ [Next]_vars => FrameInv'
  BY FrameStep
<1>3. FrameInv => FramesOwned
  BY FramesFollow
<1>4. QED
  BY <1>1, <1>2, <1>3, PTL DEF Spec

(* What is shown of one mapping is never older than what was shown before. *)
LEMMA ShowsForwards ==
  ASSUME FrameInv, FrameInv', [Next]_vars
  PROVE  view'.map = view.map /\ view'.current # 0 => Generation(view.map, view.current)' >= view.last_frame
<1> SUFFICES ASSUME view'.map = view.map, view'.current # 0
             PROVE  Generation(view.map, view.current)' >= view.last_frame
  OBVIOUS
<1>1. Typed /\ ShownInv /\ view \in View_ /\ view.last_frame \in Nat
  BY DisplayTyped DEF FrameInv, ServerInv
<1>2. Generation(view.map, view.current)' = view'.last_frame
  BY DEF FrameInv, ShownInv
<1>3. view'.last_frame >= view.last_frame
  <2>1. CASE TakesDisplay \/ FirstMap \/ NewMap \/ WriteBegin \/ WriteEnd \/ ScanSlot \/ DropFrame
    <3>1. view' = view
      BY <2>1 DEF TakesDisplay, FirstMap, NewMap, WriteBegin, WriteEnd, ScanSlot, DropFrame
    <3>2. QED
      BY <1>1, <3>1
  <2>2. CASE StartsScan
    BY <1>1, <2>2 DEF StartsScan, View_
  <2>3. CASE PollDisplay \/ DiscardCurrent
    <3>1. view'.current = 0
      BY <1>1, <2>3 DEF PollDisplay, DiscardCurrent, NoView, View_
    <3>2. QED
      BY <3>1
  <2>4. CASE ScanEnd
    <3>1. PICK c \in scan :
            view' = IF c.best = 0 THEN view
                    ELSE [view EXCEPT !.current = c.best, !.last_frame = Generation(view.map, c.best)]
      BY <2>4 DEF ScanEnd
    <3>2. c.best # 0 => Generation(view.map, c.best) > view.last_frame
      BY <1>1, <3>1 DEF ShownInv
    <3>3. c.best # 0 => view.map \in Maps /\ c.best \in Slots
      BY <1>1, <3>1, DisplayTyped DEF Scan_, Slots
    <3>4. c.best # 0 => Generation(view.map, c.best) \in Nat
      BY <1>1, <3>3, DisplayTyped
    <3>5. CASE c.best = 0
      BY <1>1, <3>1, <3>5
    <3>6. CASE c.best # 0
      <4>1. view'.last_frame = Generation(view.map, c.best)
        BY <1>1, <3>1, <3>6 DEF View_
      <4>2. QED
        BY <1>1, <3>2, <3>4, <3>6, <4>1
    <3>7. QED
      BY <3>5, <3>6
  <2>5. QED
    BY <1>1, <2>1, <2>2, <2>3, <2>4, DisplayMoves
<1>4. QED
  BY <1>2, <1>3

(* What is shown never goes back, neither to an older frame nor to an older cursor or position. *)
THEOREM ForwardsCorrect == Spec => OnlyForwards
<1>1. Init => FrameInv
  BY FrameInit
<1>2. FrameInv /\ [Next]_vars => FrameInv'
  BY FrameStep
<1>3. FrameInv /\ FrameInv' /\ [Next]_vars =>
        [view'.map = view.map /\ view'.current # 0 => Generation(view.map, view.current)' >= view.last_frame]_vars
  BY ShowsForwards
<1>4. Spec => NeverBackwards
  BY <1>1, <1>2, <1>3, PTL DEF Spec, NeverBackwards
<1>5. QED
  BY <1>4, CursorCorrect DEF OnlyForwards


-----------------------------------------------------------------------------
(* What is on the way to QEMU: where the events of some kinds stand in it as it loses its first event, gains  *)
(* a last one, or is cut short.                                                                               *)

LEMMA AmongFacts ==
  ASSUME NEW S \in Seq(Event_), NEW K
  PROVE  /\ \A i \in Among(S, K) : i \in DOMAIN S /\ i \in Nat /\ 1 <= i /\ i <= Len(S) /\ S[i].kind \in K /\ S[i] \in Event_
         /\ \A i \in DOMAIN S : S[i].kind \in K => i \in Among(S, K)
         /\ Len(S) \in Nat
<1>1. Len(S) \in Nat /\ DOMAIN S = 1..Len(S) /\ \A i \in 1..Len(S) : S[i] \in Event_ /\ i \in Nat /\ 1 <= i /\ i <= Len(S)
  OBVIOUS
<1>2. QED
  BY <1>1 DEF Among

LEMMA AmongTail ==
  ASSUME NEW S \in Seq(Event_), S # <<>>, NEW K
  PROVE  /\ Tail(S) \in Seq(Event_) /\ Head(S) = S[1] /\ S[1] \in Event_ /\ Len(S) >= 1
         /\ \A i \in Among(Tail(S), K) : i + 1 \in Among(S, K) /\ Tail(S)[i] = S[i + 1] /\ i \in Nat /\ 1 <= i
         /\ \A i \in Among(S, K) : i # 1 => i - 1 \in Among(Tail(S), K)
         /\ \A i \in Among(S, K) : i \in Nat /\ 1 <= i
         /\ 1 \in Among(S, K) <=> S[1].kind \in K
<1>1. Len(S) \in Nat /\ Len(S) >= 1 /\ DOMAIN S = 1..Len(S) /\ Head(S) = S[1] /\ S[1] \in Event_
  OBVIOUS
<1>2. Tail(S) \in Seq(Event_) /\ DOMAIN Tail(S) = 1..(Len(S) - 1)
  BY <1>1
<1>3. \A i \in 1..(Len(S) - 1) : i + 1 \in 1..Len(S) /\ Tail(S)[i] = S[i + 1] /\ i \in Nat /\ 1 <= i
  BY <1>1
<1>4. \A i \in 1..Len(S) : i # 1 => i - 1 \in 1..(Len(S) - 1) /\ Tail(S)[i - 1] = S[i]
  BY <1>1
<1>5. \A i \in 1..Len(S) : i \in Nat /\ 1 <= i
  BY <1>1
<1>6. 1 \in 1..Len(S)
  BY <1>1
<1>7. QED
  BY <1>1, <1>2, <1>3, <1>4, <1>5, <1>6 DEF Among

LEMMA AmongAppend ==
  ASSUME NEW S \in Seq(Event_), NEW e \in Event_, NEW K
  PROVE  /\ Append(S, e) \in Seq(Event_) /\ Len(S) \in Nat
         /\ \A i \in Among(Append(S, e), K) :
              \/ i \in Among(S, K) /\ Append(S, e)[i] = S[i]
              \/ i = Len(S) + 1 /\ e.kind \in K /\ Append(S, e)[i] = e
         /\ \A i \in Among(S, K) : i \in Among(Append(S, e), K) /\ i \in Nat /\ 1 <= i /\ i < Len(S) + 1
         /\ Append(S, e)[Len(S) + 1] = e
         /\ e.kind \in K => Len(S) + 1 \in Among(Append(S, e), K)
<1>1. Len(S) \in Nat /\ DOMAIN S = 1..Len(S) /\ Append(S, e) \in Seq(Event_)
      /\ DOMAIN Append(S, e) = 1..(Len(S) + 1) /\ Append(S, e)[Len(S) + 1] = e
  OBVIOUS
<1>2. \A i \in 1..Len(S) : Append(S, e)[i] = S[i] /\ i \in Nat /\ 1 <= i /\ i < Len(S) + 1 /\ i \in 1..(Len(S) + 1)
  BY <1>1
<1>3. \A i \in 1..(Len(S) + 1) : i \in 1..Len(S) \/ i = Len(S) + 1
  BY <1>1
<1>4. Len(S) + 1 \in 1..(Len(S) + 1)
  BY <1>1
<1>5. QED
  BY <1>1, <1>2, <1>3, <1>4 DEF Among

(* B is what S began with. *)
Begins(B, S) == Len(B) <= Len(S) /\ \A i \in DOMAIN B : i \in DOMAIN S /\ B[i] = S[i]

LEMMA AmongBegins ==
  ASSUME NEW S \in Seq(Event_), NEW B \in Seq(Event_), Begins(B, S), NEW K
  PROVE  /\ \A i \in Among(B, K) : i \in Among(S, K) /\ B[i] = S[i] /\ i \in Nat /\ 1 <= i /\ i <= Len(B)
         /\ \A i \in Among(S, K) : i \in Nat /\ (i <= Len(B) => i \in Among(B, K))
         /\ Len(B) \in Nat
<1>1. /\ Len(S) \in Nat /\ DOMAIN S = 1..Len(S) /\ Len(B) \in Nat /\ DOMAIN B = 1..Len(B)
  OBVIOUS
<1>2. \A i \in 1..Len(B) : i \in Nat /\ 1 <= i /\ i <= Len(B)
  BY <1>1
<1>3. \A i \in 1..Len(S) : i \in Nat /\ (i <= Len(B) => i \in 1..Len(B))
  BY <1>1
<1>4. QED
  BY <1>1, <1>2, <1>3 DEF Among, Begins

LEMMA AmongReplace ==
  ASSUME NEW S \in Seq(Event_), S # <<>>, NEW e \in Event_, S[Len(S)].kind = e.kind, NEW K
  PROVE  /\ Len(S) \in Nat /\ Len(S) \in DOMAIN S /\ [S EXCEPT ![Len(S)] = e] \in Seq(Event_)
         /\ Among([S EXCEPT ![Len(S)] = e], K) = Among(S, K)
         /\ [S EXCEPT ![Len(S)] = e][Len(S)] = e
         /\ \A i \in Among(S, K) : /\ i \in Nat /\ 1 <= i /\ i <= Len(S)
                                   /\ i # Len(S) => [S EXCEPT ![Len(S)] = e][i] = S[i]
         /\ e.kind \in K => Len(S) \in Among(S, K)
<1>1. /\ Len(S) \in Nat /\ DOMAIN S = 1..Len(S) /\ Len(S) >= 1
  OBVIOUS
<1>2. \A i \in 1..Len(S) : i \in Nat /\ 1 <= i /\ i <= Len(S)
  BY <1>1
<1>3. Len(S) \in 1..Len(S)
  BY <1>1
<1> DEFINE T == [S EXCEPT ![Len(S)] = e]
<1>4. DOMAIN T = 1..Len(S) /\ T \in Seq(Event_) /\ T[Len(S)] = e
  BY <1>1, <1>3
<1>5. \A i \in 1..Len(S) : i # Len(S) => T[i] = S[i]
  BY <1>1
<1> HIDE DEF T
<1>6. \A i \in 1..Len(S) : T[i].kind = S[i].kind
  BY <1>4, <1>5
<1>7. Among(T, K) = Among(S, K)
  BY <1>1, <1>4, <1>6 DEF Among
<1>8. \A i \in Among(S, K) : i \in 1..Len(S)
  BY <1>1 DEF Among
<1>9. e.kind \in K => Len(S) \in Among(S, K)
  BY <1>1, <1>3 DEF Among
<1>10. QED
  BY <1>1, <1>2, <1>3, <1>4, <1>5, <1>7, <1>8, <1>9 DEF T

-----------------------------------------------------------------------------
(* What the events on the way do: the button QEMU will hold, the motion it will have seen, and the routing.   *)

ButtonKinds == {"btn", "reset"}
CaptureKinds == {"capture"}
MotionKinds == {"rel", "abs", "btn", "refresh", "reset"}

ButtonFlow(S, down, pressed) ==
  /\ Among(S, ButtonKinds) = {} /\ down => pressed
  /\ \A i \in Among(S, ButtonKinds) :
       /\ \A k \in Among(S, ButtonKinds) : k <= i
       /\ S[i].kind = "btn" /\ S[i].value = 1
       => pressed

Grows(e) == IF e.kind = "rel" THEN e.value ELSE 0
After(e) == IF e.kind = "rel" THEN e.moved + 1 ELSE e.moved
MotionFlow(S, seen, sent) ==
  /\ Among(S, MotionKinds) = {} => seen = sent
  /\ \A i \in Among(S, MotionKinds) :
       (\A k \in Among(S, MotionKinds) : k <= i) => After(S[i]) = sent
  /\ \A j \in Among(S, MotionKinds) :
       (\A k \in Among(S, MotionKinds) : j <= k) /\ S[j].kind # "reset" => seen + Grows(S[j]) = After(S[j])
  /\ \A i, j \in Among(S, MotionKinds) :
       i < j /\ (\A k \in Among(S, MotionKinds) : k <= i \/ j <= k) /\ S[j].kind # "reset" =>
         After(S[i]) + Grows(S[j]) = After(S[j])

RouteFlow(S, asked, routed) ==
  /\ Among(S, CaptureKinds) = {} => routed = asked
  /\ \A i \in Among(S, CaptureKinds) : (\A k \in Among(S, CaptureKinds) : k <= i) => S[i].value = asked

(* QEMU takes the first event. *)
DownNow(e, down) == CASE e.kind = "btn" -> e.value = 1 [] e.kind = "reset" -> FALSE [] OTHER -> down
MovedNow(e, seen) == CASE e.kind = "rel" -> seen + e.value [] e.kind = "reset" -> e.moved [] OTHER -> seen
RoutedNow(e, routed) == IF e.kind = "capture" THEN e.value ELSE routed

LEMMA ButtonTail ==
  ASSUME NEW S \in Seq(Event_), S # <<>>, NEW down, NEW pressed, ButtonFlow(S, down, pressed)
  PROVE  ButtonFlow(Tail(S), DownNow(S[1], down), pressed)
<1> DEFINE A == Among(S, ButtonKinds)
           B == Among(Tail(S), ButtonKinds)
<1>1. /\ \A i \in B : i + 1 \in A /\ Tail(S)[i] = S[i + 1] /\ i \in Nat /\ 1 <= i
      /\ \A i \in A : i # 1 => i - 1 \in B
      /\ \A i \in A : i \in Nat /\ 1 <= i
      /\ 1 \in A <=> S[1].kind \in ButtonKinds
  BY AmongTail
<1>2. /\ A = {} /\ down => pressed
      /\ \A i \in A : (\A k \in A : k <= i) /\ S[i].kind = "btn" /\ S[i].value = 1 => pressed
  BY DEF ButtonFlow
<1> HIDE DEF A, B
<1>3. ASSUME B = {}, DownNow(S[1], down) PROVE pressed
  <2>1. \A i \in A : i = 1
    BY <1>1, <1>3
  <2>2. CASE S[1].kind = "btn"
    <3>1. 1 \in A /\ S[1].value = 1
      BY <1>1, <1>3, <2>2 DEF ButtonKinds, DownNow
    <3>2. QED
      BY <1>2, <2>1, <2>2, <3>1
  <2>3. CASE S[1].kind = "reset"
    BY <1>3, <2>3 DEF DownNow
  <2>4. CASE S[1].kind \notin {"btn", "reset"}
    BY <1>1, <1>2, <1>3, <2>1, <2>4 DEF ButtonKinds, DownNow
  <2>5. QED
    BY <2>2, <2>3, <2>4
<1>4. ASSUME NEW i \in B, \A k \in B : k <= i, Tail(S)[i].kind = "btn", Tail(S)[i].value = 1
      PROVE  pressed
  <2>1. ASSUME NEW k \in A PROVE k <= i + 1
    <3>1. k = 1 \/ k - 1 <= i
      BY <1>1, <1>4, <2>1
    <3>2. k \in Nat /\ i \in Nat /\ 1 <= i
      BY <1>1, <1>4, <2>1
    <3>3. QED
      BY ONLY <3>1, <3>2
  <2>2. QED
    BY <1>1, <1>2, <1>4, <2>1
<1>5. QED
  BY <1>3, <1>4 DEF ButtonFlow, B

LEMMA ButtonAppend ==
  ASSUME NEW S \in Seq(Event_), NEW e \in Event_, NEW down, NEW pressed, NEW after, ButtonFlow(S, down, pressed),
         e.kind = "btn" => after = (e.value = 1), e.kind # "btn" => after = pressed
  PROVE  ButtonFlow(Append(S, e), down, after)
<1> DEFINE A == Among(S, ButtonKinds)
           T == Append(S, e)
           B == Among(T, ButtonKinds)
           n == Len(S) + 1
<1>1. /\ \A i \in B : (i \in A /\ T[i] = S[i]) \/ (i = n /\ e.kind \in ButtonKinds /\ T[i] = e)
      /\ \A i \in A : i \in B /\ i \in Nat /\ 1 <= i /\ i < n
      /\ e.kind \in ButtonKinds => n \in B
      /\ n \in Nat
  BY AmongAppend
<1>2. /\ A = {} /\ down => pressed
      /\ \A i \in A : (\A k \in A : k <= i) /\ S[i].kind = "btn" /\ S[i].value = 1 => pressed
  BY DEF ButtonFlow
<1>3. B = Among(T, ButtonKinds)
  OBVIOUS
<1> HIDE DEF A, B, T, n
<1>4. ASSUME B = {}, down PROVE after
  BY <1>1, <1>2, <1>4 DEF ButtonKinds
<1>5. ASSUME NEW i \in B, \A k \in B : k <= i, T[i].kind = "btn", T[i].value = 1
      PROVE  after
  <2>1. CASE i = n /\ e.kind \in ButtonKinds /\ T[i] = e
    BY <1>5, <2>1
  <2>2. CASE i \in A /\ T[i] = S[i]
    <3>1. e.kind \notin ButtonKinds
      BY <1>1, <1>5, <2>2
    <3>2. pressed
      BY <1>1, <1>2, <1>5, <2>2
    <3>3. QED
      BY <3>1, <3>2 DEF ButtonKinds
  <2>3. QED
    BY <1>1, <1>5, <2>1, <2>2
<1>6. QED
  BY <1>3, <1>4, <1>5 DEF ButtonFlow, T

LEMMA ButtonReplace ==
  ASSUME NEW S \in Seq(Event_), S # <<>>, NEW e \in Event_, S[Len(S)].kind = e.kind, e.kind \in {"rel", "abs"},
         NEW down, NEW pressed, ButtonFlow(S, down, pressed)
  PROVE  ButtonFlow([S EXCEPT ![Len(S)] = e], down, pressed)
<1> DEFINE A == Among(S, ButtonKinds)
           T == [S EXCEPT ![Len(S)] = e]
<1>1. /\ Among(T, ButtonKinds) = A /\ T[Len(S)] = e
      /\ \A i \in A : i # Len(S) => T[i] = S[i]
  BY AmongReplace
<1>2. \A i \in A : T[i].kind = "btn" => T[i] = S[i]
  BY <1>1
<1> HIDE DEF T
<1>3. QED
  BY <1>1, <1>2 DEF ButtonFlow, T

(* Whatever is cut off, a reset leaves no button held. *)
LEMMA ButtonReset ==
  ASSUME NEW B \in Seq(Event_), NEW e \in Event_, e.kind = "reset", NEW down, NEW pressed
  PROVE  ButtonFlow(Append(B, e), down, pressed)
<1> DEFINE T == Append(B, e)
           n == Len(B) + 1
<1>1. /\ n \in Among(T, ButtonKinds) /\ T[n] = e /\ n \in Nat
      /\ \A i \in Among(T, ButtonKinds) : i = n \/ i < n
  BY AmongAppend DEF ButtonKinds
<1> HIDE DEF T, n
<1>2. \A i \in Among(T, ButtonKinds) : (\A k \in Among(T, ButtonKinds) : k <= i) => i = n
  <2>1. ASSUME NEW i \in Among(T, ButtonKinds), n <= i PROVE i = n
    <3>1. i = n \/ (i < n /\ n <= i)
      BY <1>1, <2>1
    <3>2. i \in Nat
      BY AmongFacts, AmongAppend DEF T
    <3>3. QED
      BY <1>1, <3>1, <3>2
  <2>2. QED
    BY <1>1, <2>1
<1>3. QED
  BY <1>1, <1>2 DEF ButtonFlow, T

LEMMA EventNumbers ==
  ASSUME NEW e \in Event_
  PROVE  /\ e.kind \in MotionKinds \cup {"capture"} /\ e.moved \in Nat /\ After(e) \in Nat
         /\ e.kind # "capture" => e.value \in Nat
         /\ e.kind = "capture" => e.value \in {"abs", "rel"}
         /\ Grows(e) \in Nat
         /\ e.kind # "rel" => Grows(e) = 0 /\ After(e) = e.moved
<1>1. CASE e \in Plain_
  BY <1>1 DEF Plain_, MotionKinds, After, Grows
<1>2. CASE e \notin Plain_
  BY <1>2 DEF Event_, MotionKinds, After, Grows
<1>3. QED
  BY <1>1, <1>2

LEMMA MotionTail ==
  ASSUME NEW S \in Seq(Event_), S # <<>>, NEW seen \in Nat, NEW sent \in Nat, MotionFlow(S, seen, sent)
  PROVE  /\ MotionFlow(Tail(S), MovedNow(S[1], seen), sent)
         /\ S[1].kind = "btn" => seen = S[1].moved
<1> DEFINE A == Among(S, MotionKinds)
           B == Among(Tail(S), MotionKinds)
           now == MovedNow(S[1], seen)
<1>1. /\ \A i \in B : i + 1 \in A /\ Tail(S)[i] = S[i + 1] /\ i \in Nat /\ 1 <= i
      /\ \A i \in A : i # 1 => i - 1 \in B
      /\ \A i \in A : i \in Nat /\ 1 <= i
      /\ 1 \in A <=> S[1].kind \in MotionKinds
      /\ S[1] \in Event_
  BY AmongTail
<1>2. /\ A = {} => seen = sent
      /\ \A i \in A : (\A k \in A : k <= i) => After(S[i]) = sent
      /\ \A j \in A : (\A k \in A : j <= k) /\ S[j].kind # "reset" => seen + Grows(S[j]) = After(S[j])
      /\ \A i, j \in A : i < j /\ (\A k \in A : k <= i \/ j <= k) /\ S[j].kind # "reset" =>
                           After(S[i]) + Grows(S[j]) = After(S[j])
  BY DEF MotionFlow
<1>3. /\ After(S[1]) \in Nat /\ S[1].kind \in MotionKinds \cup {"capture"}
      /\ S[1].kind # "capture" => S[1].value \in Nat
      /\ S[1].kind # "rel" => Grows(S[1]) = 0 /\ After(S[1]) = S[1].moved
  BY <1>1, EventNumbers
<1> HIDE DEF A, B
<1>4. 1 \in A => now = After(S[1]) /\ (S[1].kind = "btn" => seen = S[1].moved)
  <2> SUFFICES ASSUME 1 \in A PROVE now = After(S[1]) /\ (S[1].kind = "btn" => seen = S[1].moved)
    OBVIOUS
  <2>1. S[1].kind # "reset" => seen + Grows(S[1]) = After(S[1])
    BY <1>1, <1>2
  <2>2. CASE S[1].kind = "reset"
    BY <1>3, <2>2 DEF MovedNow
  <2>3. CASE S[1].kind = "rel"
    BY <2>1, <2>3 DEF MovedNow, Grows
  <2>4. CASE S[1].kind \notin {"reset", "rel"}
    BY <1>3, <2>1, <2>4 DEF MovedNow
  <2>5. QED
    BY <2>2, <2>3, <2>4
<1>5. 1 \notin A => now = seen /\ S[1].kind = "capture"
  BY <1>1, <1>3 DEF MovedNow, MotionKinds
<1> HIDE DEF now
<1>6. ASSUME B = {} PROVE now = sent
  <2>1. \A i \in A : i = 1
    BY <1>1, <1>6
  <2>2. CASE 1 \in A
    BY <1>2, <1>4, <2>1, <2>2
  <2>3. CASE 1 \notin A
    BY <1>2, <1>5, <2>1, <2>3
  <2>4. QED
    BY <2>2, <2>3
<1>7. ASSUME NEW i \in B, \A k \in B : k <= i PROVE After(Tail(S)[i]) = sent
  <2>1. ASSUME NEW k \in A PROVE k <= i + 1
    <3>1. k = 1 \/ k - 1 <= i
      BY <1>1, <1>7, <2>1
    <3>2. k \in Nat /\ i \in Nat /\ 1 <= i
      BY <1>1, <1>7, <2>1
    <3>3. QED
      BY ONLY <3>1, <3>2
  <2>2. QED
    BY <1>1, <1>2, <1>7, <2>1
<1>8. ASSUME NEW j \in B, \A k \in B : j <= k, Tail(S)[j].kind # "reset"
      PROVE  now + Grows(Tail(S)[j]) = After(Tail(S)[j])
  <2>1. ASSUME NEW k \in A, k # 1 PROVE j + 1 <= k
    <3>1. j <= k - 1
      BY <1>1, <1>8, <2>1
    <3>2. k \in Nat /\ j \in Nat
      BY <1>1, <1>8, <2>1
    <3>3. QED
      BY ONLY <3>1, <3>2
  <2>2. j + 1 \in A /\ 1 < j + 1 /\ Tail(S)[j] = S[j + 1]
    <3>1. j \in Nat /\ 1 <= j
      BY <1>1, <1>8
    <3>2. 1 < j + 1
      BY ONLY <3>1
    <3>3. QED
      BY <1>1, <1>8, <3>2
  <2>3. CASE 1 \in A
    <3>1. \A k \in A : k <= 1 \/ j + 1 <= k
      BY <2>1
    <3>2. After(S[1]) + Grows(S[j + 1]) = After(S[j + 1])
      BY <1>2, <1>8, <2>2, <2>3, <3>1
    <3>3. QED
      BY <1>4, <2>2, <2>3, <3>2
  <2>4. CASE 1 \notin A
    <3>1. seen + Grows(S[j + 1]) = After(S[j + 1])
      BY <1>2, <1>8, <2>1, <2>2, <2>4
    <3>2. QED
      BY <1>5, <2>2, <2>4, <3>1
  <2>5. QED
    BY <2>3, <2>4
<1>9. ASSUME NEW i \in B, NEW j \in B, i < j, \A k \in B : k <= i \/ j <= k, Tail(S)[j].kind # "reset"
      PROVE  After(Tail(S)[i]) + Grows(Tail(S)[j]) = After(Tail(S)[j])
  <2>1. ASSUME NEW k \in A PROVE k <= i + 1 \/ j + 1 <= k
    <3>1. k = 1 \/ k - 1 <= i \/ j <= k - 1
      BY <1>1, <1>9, <2>1
    <3>2. k \in Nat /\ i \in Nat /\ j \in Nat /\ 1 <= i
      BY <1>1, <1>9, <2>1
    <3>3. QED
      BY ONLY <3>1, <3>2
  <2>2. i + 1 < j + 1
    <3>1. i \in Nat /\ j \in Nat
      BY <1>1, <1>9
    <3>2. QED
      BY ONLY <1>9, <3>1
  <2>3. i + 1 \in A /\ j + 1 \in A /\ Tail(S)[i] = S[i + 1] /\ Tail(S)[j] = S[j + 1]
    BY <1>1, <1>9
  <2>4. \A a, b \in A : a < b /\ (\A k \in A : k <= a \/ b <= k) /\ S[b].kind # "reset" =>
                         After(S[a]) + Grows(S[b]) = After(S[b])
    BY <1>2
  <2>5. S[j + 1].kind # "reset" /\ \A k \in A : k <= i + 1 \/ j + 1 <= k
    BY <1>9, <2>1, <2>3
  <2> HIDE DEF A
  <2>6. After(S[i + 1]) + Grows(S[j + 1]) = After(S[j + 1])
    BY ONLY <2>2, <2>3, <2>4, <2>5
  <2>7. QED
    BY <2>3, <2>6
<1>10. MotionFlow(Tail(S), now, sent)
  BY <1>6, <1>7, <1>8, <1>9 DEF MotionFlow, B
<1>11. S[1].kind = "btn" => 1 \in A
  BY <1>1 DEF MotionKinds
<1>12. QED
  BY <1>4, <1>10, <1>11 DEF now

LEMMA MotionAppend ==
  ASSUME NEW S \in Seq(Event_), NEW e \in Event_, NEW seen \in Nat, NEW sent \in Nat, NEW after \in Nat,
         MotionFlow(S, seen, sent),
         e.kind = "capture" => after = sent,
         e.kind # "capture" => After(e) = after /\ sent + Grows(e) = after
  PROVE  MotionFlow(Append(S, e), seen, after)
<1> DEFINE A == Among(S, MotionKinds)
           T == Append(S, e)
           B == Among(T, MotionKinds)
           n == Len(S) + 1
<1>1. /\ \A i \in B : (i \in A /\ T[i] = S[i]) \/ (i = n /\ e.kind \in MotionKinds /\ T[i] = e)
      /\ \A i \in A : i \in B /\ i \in Nat /\ 1 <= i /\ i < n
      /\ e.kind \in MotionKinds => n \in B
      /\ n \in Nat
  BY AmongAppend
<1>2. /\ A = {} => seen = sent
      /\ \A i \in A : (\A k \in A : k <= i) => After(S[i]) = sent
      /\ \A j \in A : (\A k \in A : j <= k) /\ S[j].kind # "reset" => seen + Grows(S[j]) = After(S[j])
      /\ \A i, j \in A : i < j /\ (\A k \in A : k <= i \/ j <= k) /\ S[j].kind # "reset" =>
                           After(S[i]) + Grows(S[j]) = After(S[j])
  BY DEF MotionFlow
<1>3. /\ B = Among(T, MotionKinds)
      /\ e.kind \notin MotionKinds => after = sent
      /\ e.kind \in MotionKinds => After(e) = after /\ sent + Grows(e) = after
  BY EventNumbers DEF MotionKinds
<1> HIDE DEF A, B, T, n
<1>4. ASSUME B = {} PROVE seen = after
  BY <1>1, <1>2, <1>3, <1>4
<1>5. ASSUME NEW i \in B, \A k \in B : k <= i PROVE After(T[i]) = after
  <2>1. CASE i = n /\ e.kind \in MotionKinds /\ T[i] = e
    BY <1>3, <2>1
  <2>2. CASE i \in A /\ T[i] = S[i]
    <3>1. e.kind \notin MotionKinds
      BY <1>1, <1>5, <2>2
    <3>2. After(S[i]) = sent
      BY <1>1, <1>2, <1>5, <2>2
    <3>3. QED
      BY <1>3, <2>2, <3>1, <3>2
  <2>3. QED
    BY <1>1, <1>5, <2>1, <2>2
<1>6. ASSUME NEW j \in B, \A k \in B : j <= k, T[j].kind # "reset"
      PROVE  seen + Grows(T[j]) = After(T[j])
  <2>1. CASE j = n /\ e.kind \in MotionKinds /\ T[j] = e
    <3>1. A = {}
      BY <1>1, <1>6, <2>1
    <3>2. QED
      BY <1>2, <1>3, <2>1, <3>1
  <2>2. CASE j \in A /\ T[j] = S[j]
    BY <1>1, <1>2, <1>6, <2>2
  <2>3. QED
    BY <1>1, <1>6, <2>1, <2>2
<1>7. ASSUME NEW i \in B, NEW j \in B, i < j, \A k \in B : k <= i \/ j <= k, T[j].kind # "reset"
      PROVE  After(T[i]) + Grows(T[j]) = After(T[j])
  <2>1. i \in A /\ T[i] = S[i]
    <3>1. i # n
      BY <1>1, <1>7
    <3>2. QED
      BY <1>1, <1>7, <3>1
  <2>2. CASE j = n /\ e.kind \in MotionKinds /\ T[j] = e
    <3>1. \A k \in A : k <= i
      BY <1>1, <1>7, <2>2
    <3>2. After(S[i]) = sent
      BY <1>2, <2>1, <3>1
    <3>3. QED
      BY <1>3, <2>1, <2>2, <3>2
  <2>3. CASE j \in A /\ T[j] = S[j]
    BY <1>1, <1>2, <1>7, <2>1, <2>3
  <2>4. QED
    BY <1>1, <1>7, <2>2, <2>3
<1>8. QED
  BY <1>3, <1>4, <1>5, <1>6, <1>7 DEF MotionFlow, T

(* Motion merged into the last event: it grows by what the new one brings. *)
LEMMA MotionReplace ==
  ASSUME NEW S \in Seq(Event_), S # <<>>, NEW e \in Event_, S[Len(S)].kind = e.kind, e.kind \in {"rel", "abs"},
         NEW seen \in Nat, NEW sent \in Nat, NEW more \in Nat, MotionFlow(S, seen, sent),
         After(e) = sent + more, Grows(e) = Grows(S[Len(S)]) + more
  PROVE  MotionFlow([S EXCEPT ![Len(S)] = e], seen, sent + more)
<1> DEFINE A == Among(S, MotionKinds)
           T == [S EXCEPT ![Len(S)] = e]
           n == Len(S)
<1>1. /\ Among(T, MotionKinds) = A /\ T[n] = e /\ n \in A /\ n \in Nat
      /\ \A i \in A : i \in Nat /\ i <= n /\ (i # n => T[i] = S[i])
  BY AmongReplace DEF MotionKinds
<1>2. /\ \A i \in A : (\A k \in A : k <= i) => After(S[i]) = sent
      /\ \A j \in A : (\A k \in A : j <= k) /\ S[j].kind # "reset" => seen + Grows(S[j]) = After(S[j])
      /\ \A i, j \in A : i < j /\ (\A k \in A : k <= i \/ j <= k) /\ S[j].kind # "reset" =>
                           After(S[i]) + Grows(S[j]) = After(S[j])
  BY DEF MotionFlow
<1>3. \A i \in A : After(S[i]) \in Nat /\ Grows(S[i]) \in Nat
  BY AmongFacts, EventNumbers
<1>4. S[n].kind = e.kind /\ After(e) = sent + more /\ Grows(e) = Grows(S[n]) + more
  OBVIOUS
<1> HIDE DEF A, T, n
<1>5. After(S[n]) = sent
  BY <1>1, <1>2
<1>6. ASSUME NEW i \in A, \A k \in A : k <= i PROVE After(T[i]) = sent + more
  <2>1. i = n
    <3>1. i <= n /\ n <= i /\ i \in Nat
      BY <1>1, <1>6
    <3>2. QED
      BY ONLY <1>1, <3>1
  <2>2. QED
    BY <1>1, <1>4, <2>1
<1>7. ASSUME NEW j \in A, \A k \in A : j <= k, T[j].kind # "reset"
      PROVE  seen + Grows(T[j]) = After(T[j])
  <2>1. CASE j = n
    <3>1. seen + Grows(S[n]) = sent
      BY <1>1, <1>2, <1>4, <1>5, <1>7, <2>1
    <3>2. Grows(S[n]) \in Nat
      BY <1>1, <1>3
    <3>3. QED
      BY <1>1, <1>4, <2>1, <3>1, <3>2
  <2>2. CASE j # n
    BY <1>1, <1>2, <1>7, <2>2
  <2>3. QED
    BY <2>1, <2>2
<1>8. ASSUME NEW i \in A, NEW j \in A, i < j, \A k \in A : k <= i \/ j <= k, T[j].kind # "reset"
      PROVE  After(T[i]) + Grows(T[j]) = After(T[j])
  <2>1. T[i] = S[i]
    BY <1>1, <1>8
  <2>2. CASE j = n
    <3>1. After(S[i]) + Grows(S[n]) = sent
      BY <1>1, <1>2, <1>4, <1>5, <1>8, <2>2
    <3>2. Grows(S[n]) \in Nat /\ After(S[i]) \in Nat
      BY <1>1, <1>3, <1>8
    <3>3. QED
      BY <1>1, <1>4, <2>1, <2>2, <3>1, <3>2
  <2>3. CASE j # n
    BY <1>1, <1>2, <1>8, <2>1, <2>3
  <2>4. QED
    BY <2>2, <2>3
<1>9. A # {}
  BY <1>1
<1>10. QED
  BY <1>1, <1>6, <1>7, <1>8, <1>9 DEF MotionFlow, T

LEMMA MotionReset ==
  ASSUME NEW S \in Seq(Event_), NEW B \in Seq(Event_), Begins(B, S), NEW e \in Event_, e.kind = "reset",
         NEW seen \in Nat, NEW sent \in Nat, MotionFlow(S, seen, sent), e.moved = sent
  PROVE  MotionFlow(Append(B, e), seen, sent)
<1> DEFINE A == Among(S, MotionKinds)
           C == Among(B, MotionKinds)
           T == Append(B, e)
           D == Among(T, MotionKinds)
           n == Len(B) + 1
<1>1. /\ \A i \in D : (i \in C /\ T[i] = B[i]) \/ (i = n /\ T[i] = e)
      /\ \A i \in C : i \in D /\ i \in Nat /\ 1 <= i /\ i < n
      /\ n \in D /\ n \in Nat /\ Len(B) \in Nat
  BY AmongAppend DEF MotionKinds
<1>2. /\ \A i \in C : i \in A /\ B[i] = S[i] /\ i <= Len(B)
      /\ \A i \in A : i \in Nat /\ (i <= Len(B) => i \in C)
  BY AmongBegins
<1>3. /\ \A j \in A : (\A k \in A : j <= k) /\ S[j].kind # "reset" => seen + Grows(S[j]) = After(S[j])
      /\ \A i, j \in A : i < j /\ (\A k \in A : k <= i \/ j <= k) /\ S[j].kind # "reset" =>
                           After(S[i]) + Grows(S[j]) = After(S[j])
  BY DEF MotionFlow
<1>4. After(e) = sent
  BY DEF After
<1>5. D = Among(T, MotionKinds)
  OBVIOUS
<1> HIDE DEF A, C, D, T
<1>6. \A i \in D : (\A k \in D : k <= i) => After(T[i]) = sent
  BY <1>1, <1>4
<1>7. ASSUME NEW j \in D, T[j].kind # "reset" PROVE j \in C /\ j \in A /\ T[j] = S[j] /\ j \in Nat /\ j <= Len(B)
  BY <1>1, <1>2, <1>7
<1>8. ASSUME NEW j \in D, \A k \in D : j <= k, T[j].kind # "reset"
      PROVE  seen + Grows(T[j]) = After(T[j])
  <2>1. ASSUME NEW k \in A PROVE j <= k
    <3>1. CASE k <= Len(B)
      BY <1>1, <1>2, <1>8, <2>1, <3>1
    <3>2. CASE ~(k <= Len(B))
      BY <1>1, <1>2, <1>7, <1>8, <2>1, <3>2
    <3>3. QED
      BY <3>1, <3>2
  <2>2. QED
    BY <1>3, <1>7, <1>8, <2>1
<1>9. ASSUME NEW i \in D, NEW j \in D, i < j, \A k \in D : k <= i \/ j <= k, T[j].kind # "reset"
      PROVE  After(T[i]) + Grows(T[j]) = After(T[j])
  <2>1. j \in C /\ j \in A /\ T[j] = S[j] /\ j \in Nat /\ j <= Len(B)
    BY <1>7, <1>9
  <2>2. i \in C /\ i \in A /\ T[i] = S[i]
    <3>1. i # n
      BY <1>1, <1>9, <2>1
    <3>2. QED
      BY <1>1, <1>2, <1>9, <3>1
  <2>3. ASSUME NEW k \in A PROVE k <= i \/ j <= k
    <3>1. CASE k <= Len(B)
      BY <1>1, <1>2, <1>9, <2>3, <3>1
    <3>2. CASE ~(k <= Len(B))
      BY <1>1, <1>2, <2>1, <2>3, <3>2
    <3>3. QED
      BY <3>1, <3>2
  <2>4. QED
    BY <1>3, <1>9, <2>1, <2>2, <2>3
<1>10. D # {}
  BY <1>1
<1>11. QED
  BY <1>5, <1>6, <1>8, <1>9, <1>10 DEF MotionFlow, T

LEMMA RouteTail ==
  ASSUME NEW S \in Seq(Event_), S # <<>>, NEW asked, NEW routed, RouteFlow(S, asked, routed)
  PROVE  RouteFlow(Tail(S), asked, RoutedNow(S[1], routed))
<1> DEFINE A == Among(S, CaptureKinds)
           B == Among(Tail(S), CaptureKinds)
           now == RoutedNow(S[1], routed)
<1>1. /\ \A i \in B : i + 1 \in A /\ Tail(S)[i] = S[i + 1] /\ i \in Nat /\ 1 <= i
      /\ \A i \in A : i # 1 => i - 1 \in B
      /\ \A i \in A : i \in Nat /\ 1 <= i
      /\ 1 \in A <=> S[1].kind \in CaptureKinds
  BY AmongTail
<1>2. /\ A = {} => routed = asked
      /\ \A i \in A : (\A k \in A : k <= i) => S[i].value = asked
  BY DEF RouteFlow
<1> HIDE DEF A, B
<1>3. ASSUME B = {} PROVE now = asked
  <2>1. \A i \in A : i = 1
    BY <1>1, <1>3
  <2>2. QED
    BY <1>1, <1>2, <2>1 DEF RoutedNow, CaptureKinds
<1>4. ASSUME NEW i \in B, \A k \in B : k <= i PROVE Tail(S)[i].value = asked
  <2>1. ASSUME NEW k \in A PROVE k <= i + 1
    <3>1. k = 1 \/ k - 1 <= i
      BY <1>1, <1>4, <2>1
    <3>2. k \in Nat /\ i \in Nat /\ 1 <= i
      BY <1>1, <1>4, <2>1
    <3>3. QED
      BY ONLY <3>1, <3>2
  <2>2. QED
    BY <1>1, <1>2, <1>4, <2>1
<1>5. QED
  BY <1>3, <1>4 DEF RouteFlow, B

LEMMA RouteAppend ==
  ASSUME NEW S \in Seq(Event_), NEW e \in Event_, NEW asked, NEW routed, NEW after, RouteFlow(S, asked, routed),
         e.kind = "capture" => after = e.value, e.kind # "capture" => after = asked
  PROVE  RouteFlow(Append(S, e), after, routed)
<1> DEFINE A == Among(S, CaptureKinds)
           T == Append(S, e)
           B == Among(T, CaptureKinds)
           n == Len(S) + 1
<1>1. /\ \A i \in B : (i \in A /\ T[i] = S[i]) \/ (i = n /\ e.kind = "capture" /\ T[i] = e)
      /\ \A i \in A : i \in B /\ i \in Nat /\ 1 <= i /\ i < n
      /\ e.kind = "capture" => n \in B
      /\ n \in Nat
  BY AmongAppend DEF CaptureKinds
<1>2. /\ A = {} => routed = asked
      /\ \A i \in A : (\A k \in A : k <= i) => S[i].value = asked
  BY DEF RouteFlow
<1>3. B = Among(T, CaptureKinds)
  OBVIOUS
<1> HIDE DEF A, B, T, n
<1>4. ASSUME B = {} PROVE routed = after
  BY <1>1, <1>2, <1>4
<1>5. ASSUME NEW i \in B, \A k \in B : k <= i PROVE T[i].value = after
  <2>1. CASE i = n /\ e.kind = "capture" /\ T[i] = e
    BY <2>1
  <2>2. CASE i \in A /\ T[i] = S[i]
    <3>1. e.kind # "capture"
      BY <1>1, <1>5, <2>2
    <3>2. QED
      BY <1>1, <1>2, <1>5, <2>2, <3>1
  <2>3. QED
    BY <1>1, <1>5, <2>1, <2>2
<1>6. QED
  BY <1>3, <1>4, <1>5 DEF RouteFlow, T

LEMMA RouteReplace ==
  ASSUME NEW S \in Seq(Event_), S # <<>>, NEW e \in Event_, S[Len(S)].kind = e.kind, e.kind \in {"rel", "abs"},
         NEW asked, NEW routed, RouteFlow(S, asked, routed)
  PROVE  RouteFlow([S EXCEPT ![Len(S)] = e], asked, routed)
<1> DEFINE A == Among(S, CaptureKinds)
           T == [S EXCEPT ![Len(S)] = e]
<1>1. /\ Among(T, CaptureKinds) = A /\ T[Len(S)] = e
      /\ \A i \in A : i # Len(S) => T[i] = S[i]
  BY AmongReplace
<1>2. \A i \in A : i # Len(S)
  BY AmongFacts DEF CaptureKinds
<1>3. \A i \in A : T[i] = S[i]
  BY <1>1, <1>2
<1> HIDE DEF T
<1>4. QED
  BY <1>1, <1>3 DEF RouteFlow, T

-----------------------------------------------------------------------------
(* A refill puts the routing first. *)

LEMMA AmongFront ==
  ASSUME NEW S \in Seq(Event_), NEW c \in Event_, NEW K
  PROVE  /\ CaptureFirst(S, c) \in Seq(Event_) /\ CaptureFirst(S, c)[1] = c /\ CaptureFirst(S, c) # <<>>
         /\ \A i \in Among(CaptureFirst(S, c), K) :
              \/ i = 1 /\ c.kind \in K
              \/ i - 1 \in Among(S, K) /\ CaptureFirst(S, c)[i] = S[i - 1]
         /\ \A i \in Among(CaptureFirst(S, c), K) : i \in Nat /\ 1 <= i
         /\ \A i \in Among(S, K) : i + 1 \in Among(CaptureFirst(S, c), K) /\ i \in Nat /\ 1 <= i
         /\ c.kind \in K => 1 \in Among(CaptureFirst(S, c), K)
<1> DEFINE T == CaptureFirst(S, c)
<1>1. Len(S) \in Nat /\ DOMAIN S = 1..Len(S)
  OBVIOUS
<1>2. T \in Seq(Event_) /\ Len(T) = Len(S) + 1 /\ T[1] = c
  BY DEF CaptureFirst
<1>3. \A i \in 1..Len(S) : T[i + 1] = S[i]
  BY <1>1 DEF CaptureFirst
<1> HIDE DEF T
<1>4. DOMAIN T = 1..(Len(S) + 1) /\ T # <<>>
  BY <1>1, <1>2
<1>5. \A i \in 1..(Len(S) + 1) : i \in Nat /\ 1 <= i /\ (i # 1 => i - 1 \in 1..Len(S) /\ T[i] = S[i - 1])
  <2>1. ASSUME NEW i \in 1..(Len(S) + 1), i # 1 PROVE i - 1 \in 1..Len(S) /\ T[i] = S[i - 1]
    <3>1. i - 1 \in 1..Len(S) /\ (i - 1) + 1 = i
      BY <1>1, <2>1
    <3>2. QED
      BY <1>3, <3>1
  <2>2. QED
    BY <1>1, <2>1
<1>6. \A i \in 1..Len(S) : i + 1 \in 1..(Len(S) + 1) /\ i \in Nat /\ 1 <= i
  BY <1>1
<1>7. 1 \in 1..(Len(S) + 1)
  BY <1>1
<1>8. \A i \in Among(T, K) : i \in 1..(Len(S) + 1) /\ T[i].kind \in K
  BY <1>4 DEF Among
<1>9. \A i \in Among(T, K) : (i = 1 /\ c.kind \in K) \/ (i - 1 \in Among(S, K) /\ T[i] = S[i - 1])
  BY <1>1, <1>2, <1>5, <1>8 DEF Among
<1>10. \A i \in Among(S, K) : i + 1 \in Among(T, K)
  BY <1>1, <1>3, <1>4, <1>6 DEF Among
<1>11. c.kind \in K => 1 \in Among(T, K)
  BY <1>2, <1>4, <1>7 DEF Among
<1>12. \A i \in Among(S, K) : i \in 1..Len(S)
  BY <1>1 DEF Among
<1>13. \A i \in Among(T, K) : i \in Nat /\ 1 <= i
  BY <1>5, <1>8
<1>14. \A i \in Among(S, K) : i + 1 \in Among(T, K) /\ i \in Nat /\ 1 <= i
  BY <1>6, <1>10, <1>12
<1>15. QED
  BY ONLY <1>2, <1>4, <1>9, <1>11, <1>13, <1>14 DEF T

LEMMA ButtonFront ==
  ASSUME NEW S \in Seq(Event_), NEW c \in Event_, c.kind = "capture", NEW down, NEW pressed,
         ButtonFlow(S, down, pressed)
  PROVE  ButtonFlow(CaptureFirst(S, c), down, pressed)
<1> DEFINE T == CaptureFirst(S, c)
           A == Among(S, ButtonKinds)
           B == Among(T, ButtonKinds)
<1>0. c.kind \notin ButtonKinds
  BY DEF ButtonKinds
<1>1. /\ \A i \in B : i - 1 \in A /\ T[i] = S[i - 1] /\ i \in Nat
      /\ \A i \in A : i + 1 \in B /\ i \in Nat
  BY <1>0, AmongFront
<1>2. /\ A = {} /\ down => pressed
      /\ \A i \in A : (\A k \in A : k <= i) /\ S[i].kind = "btn" /\ S[i].value = 1 => pressed
  BY DEF ButtonFlow
<1>3. B = Among(T, ButtonKinds)
  OBVIOUS
<1> HIDE DEF A, B, T
<1>4. ASSUME NEW i \in B, \A k \in B : k <= i, T[i].kind = "btn", T[i].value = 1
      PROVE  pressed
  <2>1. ASSUME NEW k \in A PROVE k <= i - 1
    <3>1. k + 1 <= i /\ k \in Nat /\ i \in Nat
      BY <1>1, <1>4, <2>1
    <3>2. QED
      BY ONLY <3>1
  <2>2. QED
    BY <1>1, <1>2, <1>4, <2>1
<1>5. B = {} => A = {}
  BY <1>1
<1>6. QED
  BY <1>2, <1>3, <1>4, <1>5 DEF ButtonFlow, T

LEMMA MotionFront ==
  ASSUME NEW S \in Seq(Event_), NEW c \in Event_, c.kind = "capture", NEW seen, NEW sent,
         MotionFlow(S, seen, sent)
  PROVE  MotionFlow(CaptureFirst(S, c), seen, sent)
<1> DEFINE T == CaptureFirst(S, c)
           A == Among(S, MotionKinds)
           B == Among(T, MotionKinds)
<1>0. c.kind \notin MotionKinds
  BY DEF MotionKinds
<1>1. /\ \A i \in B : i - 1 \in A /\ T[i] = S[i - 1] /\ i \in Nat
      /\ \A i \in A : i + 1 \in B /\ i \in Nat
  BY <1>0, AmongFront
<1>2. /\ A = {} => seen = sent
      /\ \A i \in A : (\A k \in A : k <= i) => After(S[i]) = sent
      /\ \A j \in A : (\A k \in A : j <= k) /\ S[j].kind # "reset" => seen + Grows(S[j]) = After(S[j])
      /\ \A i, j \in A : i < j /\ (\A k \in A : k <= i \/ j <= k) /\ S[j].kind # "reset" =>
                           After(S[i]) + Grows(S[j]) = After(S[j])
  BY DEF MotionFlow
<1>3. B = Among(T, MotionKinds)
  OBVIOUS
<1> HIDE DEF A, B, T
<1>4. ASSUME NEW i \in B, \A k \in B : k <= i PROVE After(T[i]) = sent
  <2>1. ASSUME NEW k \in A PROVE k <= i - 1
    <3>1. k + 1 <= i /\ k \in Nat /\ i \in Nat
      BY <1>1, <1>4, <2>1
    <3>2. QED
      BY ONLY <3>1
  <2>2. QED
    BY <1>1, <1>2, <1>4, <2>1
<1>5. ASSUME NEW j \in B, \A k \in B : j <= k, T[j].kind # "reset"
      PROVE  seen + Grows(T[j]) = After(T[j])
  <2>1. ASSUME NEW k \in A PROVE j - 1 <= k
    <3>1. j <= k + 1 /\ k \in Nat /\ j \in Nat
      BY <1>1, <1>5, <2>1
    <3>2. QED
      BY ONLY <3>1
  <2>2. QED
    BY <1>1, <1>2, <1>5, <2>1
<1>6. ASSUME NEW i \in B, NEW j \in B, i < j, \A k \in B : k <= i \/ j <= k, T[j].kind # "reset"
      PROVE  After(T[i]) + Grows(T[j]) = After(T[j])
  <2>1. ASSUME NEW k \in A PROVE k <= i - 1 \/ j - 1 <= k
    <3>1. (k + 1 <= i \/ j <= k + 1) /\ k \in Nat /\ i \in Nat /\ j \in Nat
      BY <1>1, <1>6, <2>1
    <3>2. QED
      BY ONLY <3>1
  <2>2. i - 1 < j - 1
    <3>1. i \in Nat /\ j \in Nat
      BY <1>1, <1>6
    <3>2. QED
      BY ONLY <1>6, <3>1
  <2>3. i - 1 \in A /\ j - 1 \in A /\ T[i] = S[i - 1] /\ T[j] = S[j - 1]
    BY <1>1, <1>6
  <2>4. After(S[i - 1]) + Grows(S[j - 1]) = After(S[j - 1])
    BY <1>2, <1>6, <2>1, <2>2, <2>3
  <2>5. QED
    BY <2>3, <2>4
<1>7. B = {} => A = {}
  BY <1>1
<1>8. QED
  BY <1>2, <1>3, <1>4, <1>5, <1>6, <1>7 DEF MotionFlow, T

LEMMA RouteFront ==
  ASSUME NEW S \in Seq(Event_), NEW c \in Event_, c.kind = "capture", NEW routed,
         \A i \in Among(S, CaptureKinds) :
           (\A k \in Among(S, CaptureKinds) : k <= i) => S[i].value = c.value
  PROVE  RouteFlow(CaptureFirst(S, c), c.value, routed)
<1> DEFINE T == CaptureFirst(S, c)
           A == Among(S, CaptureKinds)
           B == Among(T, CaptureKinds)
<1>0. c.kind \in CaptureKinds
  BY DEF CaptureKinds
<1>1. /\ \A i \in B : (i = 1 /\ T[i] = c) \/ (i - 1 \in A /\ T[i] = S[i - 1])
      /\ \A i \in A : i + 1 \in B /\ i \in Nat
      /\ \A i \in B : i \in Nat
      /\ 1 \in B
  BY <1>0, AmongFront
<1>2. \A i \in A : (\A k \in A : k <= i) => S[i].value = c.value
  OBVIOUS
<1>3. B = Among(T, CaptureKinds)
  OBVIOUS
<1> HIDE DEF A, B, T
<1>4. ASSUME NEW i \in B, \A k \in B : k <= i PROVE T[i].value = c.value
  <2>1. CASE i - 1 \in A /\ T[i] = S[i - 1]
    <3>1. ASSUME NEW k \in A PROVE k <= i - 1
      <4>1. k + 1 <= i /\ k \in Nat /\ i \in Nat
        BY <1>1, <1>4, <3>1
      <4>2. QED
        BY ONLY <4>1
    <3>2. QED
      BY <1>2, <2>1, <3>1
  <2>2. QED
    BY <1>1, <1>4, <2>1
<1>5. QED
  BY <1>1, <1>3, <1>4 DEF RouteFlow, T

-----------------------------------------------------------------------------
(* What a push into the queue does to all that is on the way. *)

LEMMA Joined ==
  ASSUME NEW B \in Seq(Event_), NEW Q \in Seq(Event_), NEW e \in Event_
  PROVE  /\ B \o Q \in Seq(Event_) /\ Begins(B, B \o Q)
         /\ B \o Append(Q, e) = Append(B \o Q, e)
         /\ Q # <<>> => /\ B \o Q # <<>> /\ (B \o Q)[Len(B \o Q)] = Q[Len(Q)]
                        /\ B \o [Q EXCEPT ![Len(Q)] = e] = [B \o Q EXCEPT ![Len(B \o Q)] = e]
<1> DEFINE S == B \o Q
<1>1. /\ S \in Seq(Event_) /\ Len(S) = Len(B) + Len(Q)
      /\ \A i \in 1..Len(S) : S[i] = IF i <= Len(B) THEN B[i] ELSE Q[i - Len(B)]
  BY ConcatProperties
<1>2. Len(B) \in Nat /\ Len(Q) \in Nat /\ DOMAIN B = 1..Len(B) /\ DOMAIN Q = 1..Len(Q) /\ DOMAIN S = 1..Len(S)
  BY <1>1
<1>3. Begins(B, S)
  BY <1>1, <1>2 DEF Begins
<1>4. B \o Append(Q, e) = Append(S, e)
  <2> DEFINE P == Append(Q, e)
             T == B \o P
             U == Append(S, e)
  <2>1. P \in Seq(Event_) /\ Len(P) = Len(Q) + 1 /\ P[Len(Q) + 1] = e /\ \A i \in 1..Len(Q) : P[i] = Q[i]
    OBVIOUS
  <2>2. /\ T \in Seq(Event_) /\ Len(T) = Len(B) + Len(P)
        /\ \A i \in 1..Len(T) : T[i] = IF i <= Len(B) THEN B[i] ELSE P[i - Len(B)]
    BY <2>1, ConcatProperties
  <2>3. U \in Seq(Event_) /\ Len(U) = Len(S) + 1 /\ U[Len(S) + 1] = e /\ \A i \in 1..Len(S) : U[i] = S[i]
    BY <1>1
  <2> HIDE DEF P, T, U, S
  <2>4. Len(T) = Len(U)
    BY ONLY <1>1, <1>2, <2>1, <2>2, <2>3
  <2>5. ASSUME NEW i \in 1..Len(T) PROVE T[i] = U[i]
    <3>1. CASE i <= Len(B)
      <4>1. i \in 1..Len(S)
        BY ONLY <1>1, <1>2, <2>5, <3>1
      <4>2. QED
        BY <1>1, <2>2, <2>3, <2>5, <3>1, <4>1
    <3>2. CASE ~(i <= Len(B)) /\ i <= Len(S)
      <4>1. i \in 1..Len(S) /\ i - Len(B) \in 1..Len(Q)
        BY ONLY <1>1, <1>2, <2>1, <2>2, <2>5, <3>2
      <4>2. QED
        BY <1>1, <2>1, <2>2, <2>3, <2>5, <3>2, <4>1
    <3>3. CASE ~(i <= Len(S))
      <4>0. i \in Nat /\ i <= Len(B) + (Len(Q) + 1) /\ ~(i <= Len(B) + Len(Q))
        BY <1>1, <1>2, <2>1, <2>2, <2>5, <3>3
      <4>1. Len(S) = Len(B) + Len(Q) /\ Len(B) \in Nat /\ Len(Q) \in Nat
        BY <1>1, <1>2
      <4>2. i = Len(S) + 1 /\ i - Len(B) = Len(Q) + 1 /\ ~(i <= Len(B))
        BY ONLY <4>0, <4>1
      <4>3. QED
        BY <2>1, <2>2, <2>3, <2>5, <4>2
    <3>4. QED
      BY <3>1, <3>2, <3>3
  <2>6. T = U
    BY <2>2, <2>3, <2>4, <2>5, SeqEqual
  <2>7. QED
    BY <2>6 DEF T, U, P
<1>5. ASSUME Q # <<>>
      PROVE  S # <<>> /\ S[Len(S)] = Q[Len(Q)] /\ B \o [Q EXCEPT ![Len(Q)] = e] = [S EXCEPT ![Len(S)] = e]
  <2>1. Len(Q) \in 1..Len(Q) /\ Len(S) \in 1..Len(S) /\ ~(Len(S) <= Len(B)) /\ Len(S) - Len(B) = Len(Q)
    BY <1>1, <1>2, <1>5
  <2>2. S[Len(S)] = Q[Len(Q)] /\ S # <<>>
    BY <1>1, <2>1
  <2> DEFINE P == [Q EXCEPT ![Len(Q)] = e]
             T == B \o P
             U == [S EXCEPT ![Len(S)] = e]
  <2>3. P \in Seq(Event_) /\ Len(P) = Len(Q) /\ \A i \in 1..Len(Q) : P[i] = IF i = Len(Q) THEN e ELSE Q[i]
    BY <2>1, ExceptSeq
  <2> HIDE DEF S
  <2>4. U \in Seq(Event_) /\ Len(U) = Len(S) /\ \A i \in 1..Len(S) : U[i] = IF i = Len(S) THEN e ELSE S[i]
    BY <1>1, <2>1, ExceptSeq
  <2>5. /\ T \in Seq(Event_) /\ Len(T) = Len(B) + Len(P)
        /\ \A i \in 1..Len(T) : T[i] = IF i <= Len(B) THEN B[i] ELSE P[i - Len(B)]
    BY <2>3, ConcatProperties
  <2> HIDE DEF P, T, U
  <2>6. Len(T) = Len(U)
    BY ONLY <1>1, <2>3, <2>4, <2>5
  <2>7. ASSUME NEW i \in 1..Len(T) PROVE T[i] = U[i]
    <3>1. i \in 1..Len(S)
      BY ONLY <1>1, <2>3, <2>5, <2>7
    <3>2. CASE i <= Len(B)
      <4>1. i # Len(S)
        BY <2>1, <3>2
      <4>2. QED
        BY <1>1, <2>4, <2>5, <2>7, <3>1, <3>2, <4>1
    <3>3. CASE ~(i <= Len(B))
      <4>1. i - Len(B) \in 1..Len(Q) /\ (i = Len(S) <=> i - Len(B) = Len(Q))
        BY ONLY <1>1, <1>2, <3>1, <3>3
      <4>2. QED
        BY <1>1, <2>3, <2>4, <2>5, <2>7, <3>1, <3>3, <4>1
    <3>4. QED
      BY <3>2, <3>3
  <2>8. T = U
    BY <2>4, <2>5, <2>6, <2>7, SeqEqual
  <2>9. QED
    BY <2>2, <2>8 DEF T, U, P
<1>6. QED
  BY <1>1, <1>3, <1>4, <1>5

LEMMA JoinedReset ==
  ASSUME NEW B \in Seq(Event_), NEW r \in Event_, NEW e \in Event_
  PROVE  B \o <<r, e>> = Append(Append(B, r), e)
<1>1. <<>> \in Seq(Event_) /\ Append(<<>>, r) \in Seq(Event_)
  OBVIOUS
<1>2. <<r, e>> = Append(Append(<<>>, r), e)
  OBVIOUS
<1>3. B \o Append(<<>>, r) = Append(B \o <<>>, r)
  BY <1>1, Joined
<1>4. B \o <<>> = B
  BY ConcatEmptySeq
<1>5. B \o Append(Append(<<>>, r), e) = Append(B \o Append(<<>>, r), e)
  BY <1>1, Joined
<1>6. QED
  BY <1>2, <1>3, <1>4, <1>5

LEMMA PushedWays ==
  ASSUME NEW B \in Seq(Event_), NEW Q \in Seq(Event_), NEW e \in Event_, host.moved \in Nat
  PROVE  /\ B \o Q \in Seq(Event_) /\ Begins(B, B \o Q) /\ ResetEvent(0) \in Event_
         /\ \/ /\ Q # <<>> /\ Merges(Q[Len(Q)], e)
               /\ B \o Q # <<>> /\ (B \o Q)[Len(B \o Q)] = Q[Len(Q)] /\ Merged(Q, e) \in Event_
               /\ B \o PushedOn(Q, e) = [B \o Q EXCEPT ![Len(B \o Q)] = Merged(Q, e)]
            \/ /\ Overflows(Q, e) /\ ~(Q # <<>> /\ Merges(Q[Len(Q)], e))
               /\ B \o PushedOn(Q, e) = Append(Append(B, ResetEvent(0)), e)
            \/ B \o PushedOn(Q, e) = Append(B \o Q, e)
<1>1. Len(Q) > 0 <=> Q # <<>>
  OBVIOUS
<1>2. B \o Q \in Seq(Event_) /\ Begins(B, B \o Q) /\ ResetEvent(0) \in Event_
  BY Joined, PushCases
<1>3. CASE /\ Len(Q) > 0 /\ Merges(Q[Len(Q)], e) /\ Merged(Q, e) \in Event_
           /\ PushedOn(Q, e) = [Q EXCEPT ![Len(Q)] = Merged(Q, e)]
  <2>1. /\ B \o Q # <<>> /\ (B \o Q)[Len(B \o Q)] = Q[Len(Q)]
        /\ B \o [Q EXCEPT ![Len(Q)] = Merged(Q, e)] = [B \o Q EXCEPT ![Len(B \o Q)] = Merged(Q, e)]
    BY <1>1, <1>3, Joined
  <2>2. QED
    BY <1>1, <1>2, <1>3, <2>1
<1>4. CASE /\ Overflows(Q, e) /\ ~(Len(Q) > 0 /\ Merges(Q[Len(Q)], e))
           /\ PushedOn(Q, e) = <<ResetEvent(0), e>>
  BY <1>1, <1>2, <1>4, JoinedReset
<1>5. CASE PushedOn(Q, e) = Append(Q, e)
  BY <1>2, <1>5, Joined
<1>6. QED
  BY <1>3, <1>4, <1>5, PushCases

-----------------------------------------------------------------------------
(* The invariant of the input: what is on the way to a QEMU that is connected ends in what the user holds,    *)
(* the routing is known, and barriers answer for themselves.                                                  *)

Live == Up \/ worker.pc \in {"refill", "announce"}
Routed == IF worker.pc = "refill" THEN queue.capture ELSE qemu.capture
FlowInv ==
  Live => /\ ButtonFlow(Stream, qemu.down, host.down)
          /\ MotionFlow(Stream, qemu.moved, host.moved)
          /\ queue.connected /\ ~host.overflowed => RouteFlow(Stream, queue.capture, Routed)
RoutesFirst(S) == S # <<>> /\ S[1].kind = "capture"
RestoreInv ==
  /\ worker.pc = "refill" => qemu.capture = "unset"
  /\ qemu.expected # "unset" => queue.capture # "unset"
  /\ Live /\ worker.pc # "refill" /\ ~host.overflowed /\ qemu.expected # "unset" =>
       qemu.capture # "unset" \/ RoutesFirst(Stream)
  /\ ~host.overflowed /\ qemu.expected # "unset" => qemu.pressed # "unset"
  /\ queue.capture = "unset" => Among(queue.events, CaptureKinds) = {}
Below(S, n) == \A i \in DOMAIN S : S[i].id < n
BarrierInv ==
  /\ Below(queue.events, barrier.next) /\ Below(worker.partial, barrier.next) /\ Below(link.out, barrier.next)
  /\ \A r \in qemu.resets : r < barrier.next
  /\ \A i \in DOMAIN link.in : link.in[i].kind = "A" => link.in[i].id \in qemu.resets \cup {0}
  /\ ack.id \in qemu.resets \cup {0}
  /\ barrier.waiting # 0 => barrier.waiting = barrier.next - 1
  /\ barrier.ok \subseteq qemu.resets
InputInv == FlowInv /\ RestoreInv /\ BarrierInv /\ qemu.faithful

LEMMA PushedFlows ==
  ASSUME NEW B \in Seq(Event_), NEW Q \in Seq(Event_), NEW e \in Event_, host.moved \in Nat,
         e.moved = host.moved, e.kind = "rel" => e.value = 1,
         NEW down, NEW pressed, NEW after, NEW seen \in Nat,
         ButtonFlow(B \o Q, down, pressed), MotionFlow(B \o Q, seen, host.moved),
         e.kind = "btn" => after = (e.value = 1), e.kind # "btn" => after = pressed
  PROVE  /\ ButtonFlow(B \o PushedOn(Q, e), down, after)
         /\ MotionFlow(B \o PushedOn(Q, e), seen, IF e.kind = "rel" THEN host.moved + 1 ELSE host.moved)
<1> DEFINE S == B \o Q
           T == B \o PushedOn(Q, e)
           sent == host.moved
           more == IF e.kind = "rel" THEN 1 ELSE 0
           r == ResetEvent(0)
<1>1. S \in Seq(Event_) /\ Begins(B, S) /\ r \in Event_ /\ sent \in Nat /\ more \in Nat
  BY PushedWays
<1>2. /\ e.kind # "capture" => After(e) = sent + more /\ sent + Grows(e) = sent + more
      /\ e.kind = "capture" => sent + more = sent
  BY EventNumbers DEF After, Grows
<1>3. r.kind = "reset" /\ r.moved = sent
  BY DEF ResetEvent, Event
<1>4. sent + more \in Nat /\ sent + more = IF e.kind = "rel" THEN host.moved + 1 ELSE host.moved
  BY <1>1
<1>5. CASE T = Append(S, e)
  <2>1. ButtonFlow(Append(S, e), down, after)
    BY <1>1, ButtonAppend
  <2>2. MotionFlow(Append(S, e), seen, sent + more)
    BY <1>1, <1>2, <1>4, MotionAppend
  <2>3. QED
    BY <1>4, <1>5, <2>1, <2>2
<1>6. CASE T = Append(Append(B, r), e)
  <2>1. Append(B, r) \in Seq(Event_)
    BY <1>1
  <2>2. ButtonFlow(Append(B, r), down, pressed) /\ MotionFlow(Append(B, r), seen, sent)
    BY <1>1, <1>3, ButtonReset, MotionReset
  <2>3. ButtonFlow(Append(Append(B, r), e), down, after)
    BY <2>1, <2>2, ButtonAppend
  <2> HIDE DEF r, sent, more, S
  <2>4. MotionFlow(Append(Append(B, r), e), seen, sent + more)
    BY <1>1, <1>2, <1>4, <2>1, <2>2, MotionAppend
  <2>5. QED
    BY <1>4, <1>6, <2>3, <2>4 DEF r, sent
<1>7. CASE /\ Q # <<>> /\ Merges(Q[Len(Q)], e)
           /\ S # <<>> /\ S[Len(S)] = Q[Len(Q)] /\ Merged(Q, e) \in Event_
           /\ T = [S EXCEPT ![Len(S)] = Merged(Q, e)]
  <2> DEFINE m == Merged(Q, e)
  <2>1. e.kind \in {"rel", "abs"} /\ S[Len(S)].kind = e.kind /\ S[Len(S)] \in Event_
    <3>1. Len(Q) \in DOMAIN Q
      BY <1>7
    <3>2. QED
      BY <1>7, <3>1 DEF Merges
  <2>2. /\ m.kind = e.kind /\ m.moved = e.moved
        /\ e.kind = "rel" => m.value = 1 + S[Len(S)].value /\ S[Len(S)].value \in Nat
    BY <1>7, <2>1, EventNumbers DEF Merged, Event_, Plain_
  <2> HIDE DEF m, S
  <2>3. After(m) = sent + more /\ Grows(m) = Grows(S[Len(S)]) + more
    <3>1. CASE e.kind = "rel"
      <4>1. After(m) = sent + 1 /\ Grows(m) = 1 + Grows(S[Len(S)]) /\ Grows(S[Len(S)]) \in Nat
        BY <2>1, <2>2, <3>1 DEF After, Grows
      <4>2. QED
        BY <3>1, <4>1
    <3>2. CASE e.kind # "rel"
      BY <1>1, <2>1, <2>2, <3>2 DEF After, Grows
    <3>3. QED
      BY <3>1, <3>2
  <2> HIDE DEF more, sent
  <2>4. ButtonFlow([S EXCEPT ![Len(S)] = m], down, pressed)
    BY <1>1, <1>7, <2>1, <2>2, ButtonReplace DEF m, S
  <2>5. MotionFlow([S EXCEPT ![Len(S)] = m], seen, sent + more)
    BY <1>1, <1>7, <2>1, <2>2, <2>3, MotionReplace DEF m, S, sent
  <2>6. after = pressed
    BY <2>1
  <2>7. QED
    BY <1>4, <1>7, <2>4, <2>5, <2>6 DEF m
<1>8. QED
  BY <1>5, <1>6, <1>7, PushedWays

LEMMA PushedRoutes ==
  ASSUME NEW B \in Seq(Event_), NEW Q \in Seq(Event_), NEW e \in Event_, host.moved \in Nat,
         ~(Overflows(Q, e) /\ ~(Q # <<>> /\ Merges(Q[Len(Q)], e)))
  PROVE  /\ RoutesFirst(B \o Q) => RoutesFirst(B \o PushedOn(Q, e))
         /\ \A asked, routed : RouteFlow(B \o Q, asked, routed) =>
              RouteFlow(B \o PushedOn(Q, e), IF e.kind = "capture" THEN e.value ELSE asked, routed)
<1> DEFINE S == B \o Q
           T == B \o PushedOn(Q, e)
<1>1. S \in Seq(Event_)
  BY PushedWays
<1>2. CASE T = Append(S, e)
  <2>1. RoutesFirst(S) => RoutesFirst(T)
    BY <1>1, <1>2 DEF RoutesFirst
  <2>2. ASSUME NEW asked, NEW routed, RouteFlow(S, asked, routed)
        PROVE  RouteFlow(Append(S, e), IF e.kind = "capture" THEN e.value ELSE asked, routed)
    BY <1>1, <2>2, RouteAppend
  <2>3. QED
    BY <1>2, <2>1, <2>2
<1>3. CASE /\ Q # <<>> /\ Merges(Q[Len(Q)], e)
           /\ S # <<>> /\ S[Len(S)] = Q[Len(Q)] /\ Merged(Q, e) \in Event_
           /\ T = [S EXCEPT ![Len(S)] = Merged(Q, e)]
  <2> DEFINE m == Merged(Q, e)
  <2>1. e.kind \in {"rel", "abs"} /\ S[Len(S)].kind = e.kind /\ m.kind = e.kind
    BY <1>3, PushCases DEF Merges
  <2> HIDE DEF m, S
  <2>2. RoutesFirst(S) => RoutesFirst([S EXCEPT ![Len(S)] = m])
    <3> DEFINE U == [S EXCEPT ![Len(S)] = m]
    <3>1. Len(S) \in 1..Len(S) /\ 1 \in 1..Len(S)
      BY <1>1, <1>3
    <3>2. U \in Seq(Event_) /\ Len(U) = Len(S) /\ \A j \in 1..Len(S) : U[j] = IF j = Len(S) THEN m ELSE S[j]
      BY <1>1, <1>3, <3>1, ExceptSeq DEF m
    <3>3. U # <<>> /\ U[1].kind = S[1].kind
      <4> HIDE DEF U
      <4>1. Len(U) >= 1
        BY <3>1, <3>2
      <4>2. U # <<>>
        BY <4>1
      <4>3. QED
        BY <2>1, <3>1, <3>2, <4>2
    <3>4. QED
      BY <3>3 DEF RoutesFirst
  <2>3. ASSUME NEW asked, NEW routed, RouteFlow(S, asked, routed)
        PROVE  RouteFlow([S EXCEPT ![Len(S)] = m], asked, routed)
    BY <1>1, <1>3, <2>1, <2>3, RouteReplace DEF m
  <2>4. QED
    BY <1>3, <2>1, <2>2, <2>3 DEF m, S
<1>4. QED
  BY <1>2, <1>3, PushedWays

LEMMA PushedBelow ==
  ASSUME NEW Q \in Seq(Event_), NEW e \in Event_, host.moved \in Nat, NEW n \in Nat, 0 < n, Below(Q, n), e.id < n
  PROVE  Below(PushedOn(Q, e), n)
<1>1. ResetEvent(0).id = 0
  BY DEF ResetEvent, Event
<1>2. CASE PushedOn(Q, e) = Append(Q, e)
  BY <1>2 DEF Below
<1>3. CASE PushedOn(Q, e) = <<ResetEvent(0), e>>
  BY <1>1, <1>3 DEF Below
<1>4. CASE Len(Q) > 0 /\ PushedOn(Q, e) = [Q EXCEPT ![Len(Q)] = Merged(Q, e)]
  <2>1. Merged(Q, e).id = e.id
    BY PushCases
  <2> DEFINE m == Merged(Q, e)
  <2> HIDE DEF m
  <2>2. \A i \in DOMAIN [Q EXCEPT ![Len(Q)] = m] :
           i \in DOMAIN Q /\ [Q EXCEPT ![Len(Q)] = m][i] = IF i = Len(Q) THEN m ELSE Q[i]
    OBVIOUS
  <2>3. Below([Q EXCEPT ![Len(Q)] = m], n)
    BY <2>1, <2>2 DEF Below, m
  <2>4. QED
    BY <1>4, <2>3 DEF m
<1>5. QED
  BY <1>2, <1>3, <1>4, PushCases

LEMMA PushedPlain ==
  ASSUME NEW Q \in Seq(Event_), NEW e \in Event_, host.moved \in Nat, e.kind # "capture",
         Among(Q, CaptureKinds) = {}
  PROVE  Among(PushedOn(Q, e), CaptureKinds) = {}
<1> DEFINE P == PushedOn(Q, e)
           m == Merged(Q, e)
           z == ResetEvent(0)
           E == Append(<<>>, z)
<1>1. /\ Len(Q) > 0 <=> Q # <<>>
      /\ z \in Event_ /\ m.kind = e.kind
      /\ \/ Len(Q) > 0 /\ Merges(Q[Len(Q)], e) /\ m \in Event_ /\ P = [Q EXCEPT ![Len(Q)] = m]
         \/ P = <<z, e>>
         \/ P = Append(Q, e)
  BY PushCases
<1>2. e.kind \notin CaptureKinds /\ z.kind \notin CaptureKinds
  BY DEF CaptureKinds, ResetEvent, Event
<1>3. <<z, e>> = Append(E, e) /\ <<>> \in Seq(Event_) /\ Among(<<>>, CaptureKinds) = {}
  BY DEF Among
<1> SUFFICES Among(P, CaptureKinds) = {}
  OBVIOUS
<1> HIDE DEF P, m, z
<1>4. E \in Seq(Event_)
  BY <1>1, <1>3
<1>5. Among(E, CaptureKinds) = {}
  BY <1>1, <1>2, <1>3, AmongAppend
<1> HIDE DEF E
<1>6. CASE P = Append(Q, e)
  BY <1>2, <1>6, AmongAppend
<1>7. CASE P = <<z, e>>
  BY <1>2, <1>3, <1>4, <1>5, <1>7, AmongAppend
<1>8. CASE Len(Q) > 0 /\ Merges(Q[Len(Q)], e) /\ m \in Event_ /\ P = [Q EXCEPT ![Len(Q)] = m]
  <2>1. Q[Len(Q)].kind = m.kind /\ Q # <<>>
    BY <1>1, <1>8 DEF Merges
  <2>2. Among([Q EXCEPT ![Len(Q)] = m], CaptureKinds) = Among(Q, CaptureKinds)
    BY <1>8, <2>1, AmongReplace
  <2>3. QED
    BY <1>8, <2>2
<1>9. QED
  BY <1>1, <1>6, <1>7, <1>8

(* The user's part. *)

LEMMA StreamTyped ==
  ASSUME Typed
  PROVE  /\ link.out \o worker.partial \in Seq(Event_) /\ queue.events \in Seq(Event_)
         /\ Stream = (link.out \o worker.partial) \o queue.events /\ Stream \in Seq(Event_)
         /\ link.out \in Seq(Event_) /\ worker.partial \in Seq(Event_)
         /\ host.moved \in Nat /\ qemu.moved \in Nat /\ host.down \in BOOLEAN /\ qemu.down \in BOOLEAN
<1>1. link.out \in Seq(Event_) /\ worker.partial \in Seq(Event_) /\ queue.events \in Seq(Event_)
      /\ host.moved \in Nat /\ qemu.moved \in Nat /\ host.down \in BOOLEAN /\ qemu.down \in BOOLEAN
  BY DEF Typed, InputTypes, ServerTypes
<1>2. link.out \o worker.partial \in Seq(Event_)
  BY <1>1, ConcatProperties
<1>3. (link.out \o worker.partial) \o queue.events \in Seq(Event_)
  BY <1>1, <1>2, ConcatProperties
<1>4. QED
  BY <1>1, <1>2, <1>3 DEF Stream

LEMMA PushStep ==
  ASSUME Typed, FlowInv, RestoreInv, NEW e \in Event_, e.moved = host.moved, e.kind = "rel" => e.value = 1,
         UNCHANGED <<worker, link, qemu>>, queue.connected, queue'.connected = queue.connected,
         queue'.events = PushedOn(queue.events, e),
         queue'.capture = IF e.kind = "capture" THEN e.value ELSE queue.capture,
         host'.moved = IF e.kind = "rel" THEN host.moved + 1 ELSE host.moved,
         host'.down = IF e.kind = "btn" THEN e.value = 1 ELSE host.down,
         host'.overflowed = (host.overflowed \/ Lost(e))
  PROVE  FlowInv' /\ RestoreInv'
<1> DEFINE B == link.out \o worker.partial
           Q == queue.events
           T == B \o PushedOn(Q, e)
<1>1. B \in Seq(Event_) /\ Q \in Seq(Event_) /\ Stream = B \o Q /\ host.moved \in Nat /\ qemu.moved \in Nat
  BY StreamTyped
<1>2. Stream' = T /\ (Live' <=> Live)
  BY DEF Stream, Live, Up
<1>3. Lost(e) <=> Overflows(Q, e) /\ ~(Q # <<>> /\ Merges(Q[Len(Q)], e))
  BY DEF Lost
<1>4. e.kind = "capture" => e.value \in {"abs", "rel"}
  BY EventNumbers
<1> HIDE DEF B, Q
<1>5. ASSUME Live PROVE ButtonFlow(T, qemu.down, host'.down) /\ MotionFlow(T, qemu.moved, host'.moved)
  <2>1. ButtonFlow(B \o Q, qemu.down, host.down) /\ MotionFlow(B \o Q, qemu.moved, host.moved)
    BY <1>1, <1>5 DEF FlowInv
  <2>2. /\ e.kind = "btn" => host'.down = (e.value = 1)
        /\ e.kind # "btn" => host'.down = host.down
    OBVIOUS
  <2>3. /\ ButtonFlow(B \o PushedOn(Q, e), qemu.down, host'.down)
        /\ MotionFlow(B \o PushedOn(Q, e), qemu.moved, IF e.kind = "rel" THEN host.moved + 1 ELSE host.moved)
    BY <1>1, <2>1, <2>2, PushedFlows
  <2>4. QED
    BY <2>3
<1>6. ASSUME ~host'.overflowed
      PROVE  /\ ~host.overflowed
             /\ RoutesFirst(B \o Q) => RoutesFirst(T)
             /\ \A asked, routed : RouteFlow(B \o Q, asked, routed) =>
                  RouteFlow(T, IF e.kind = "capture" THEN e.value ELSE asked, routed)
  <2>1. ~host.overflowed /\ ~Lost(e)
    BY <1>6
  <2>2. QED
    BY <1>1, <1>3, <2>1, PushedRoutes
<1>7. ASSUME Live, ~host'.overflowed PROVE RouteFlow(T, queue'.capture, Routed')
  <2>1. RouteFlow(B \o Q, queue.capture, Routed)
    BY <1>1, <1>6, <1>7 DEF FlowInv
  <2>2. RouteFlow(T, queue'.capture, Routed)
    BY <1>6, <1>7, <2>1
  <2>3. CASE worker.pc = "refill"
    BY <2>2, <2>3 DEF RouteFlow, Routed
  <2>4. CASE worker.pc # "refill"
    <3>1. Routed' = Routed
      BY <2>4 DEF Routed
    <3>2. QED
      BY <2>2, <3>1
  <2>5. QED
    BY <2>3, <2>4
<1>8. FlowInv'
  BY <1>2, <1>5, <1>7 DEF FlowInv
<1>9. RestoreInv'
  <2>1. (worker.pc = "refill" => qemu.capture = "unset")'
    BY DEF RestoreInv
  <2>2. (qemu.expected # "unset" => queue.capture # "unset")'
    BY <1>4 DEF RestoreInv
  <2>3. (Live /\ worker.pc # "refill" /\ ~host.overflowed /\ qemu.expected # "unset" =>
           qemu.capture # "unset" \/ RoutesFirst(Stream))'
    <3>1. RoutesFirst(Stream)' <=> RoutesFirst(T)
      BY <1>2 DEF RoutesFirst
    <3>2. QED
      BY <1>1, <1>2, <1>6, <3>1 DEF RestoreInv
  <2>4. (~host.overflowed /\ qemu.expected # "unset" => qemu.pressed # "unset")'
    BY <1>6 DEF RestoreInv
  <2>5. (queue.capture = "unset" => Among(queue.events, CaptureKinds) = {})'
    <3> SUFFICES ASSUME queue'.capture = "unset" PROVE Among(PushedOn(Q, e), CaptureKinds) = {}
      BY DEF Q, Among
    <3>1. e.kind # "capture" /\ queue.capture = "unset"
      BY <1>4
    <3>2. Among(Q, CaptureKinds) = {}
      BY <3>1 DEF RestoreInv, Q
    <3>3. QED
      BY <1>1, <3>1, <3>2, PushedPlain
  <2>6. QED
    BY <2>1, <2>2, <2>3, <2>4, <2>5 DEF RestoreInv
<1>10. QED
  BY <1>8, <1>9

LEMMA IdleFlows ==
  ASSUME FlowInv, RestoreInv, UNCHANGED <<worker, link, qemu>>, queue'.connected = queue.connected,
         queue'.events = queue.events, ~queue.connected \/ queue'.capture = queue.capture,
         queue.capture # "unset" => queue'.capture # "unset",
         host'.moved = host.moved, host'.down = host.down, host'.overflowed = host.overflowed
  PROVE  FlowInv' /\ RestoreInv'
<1>1. Stream' = Stream /\ (Live' <=> Live)
  BY DEF Stream, Live, Up
<1>2. RouteFlow(Stream, queue.capture, Routed)' <=> RouteFlow(Stream, queue'.capture, Routed')
  BY <1>1 DEF RouteFlow, Among
<1>3. queue.connected => Routed' = Routed /\ queue'.capture = queue.capture
  BY DEF Routed
<1>4. /\ ButtonFlow(Stream, qemu.down, host.down)' <=> ButtonFlow(Stream, qemu.down, host.down)
      /\ MotionFlow(Stream, qemu.moved, host.moved)' <=> MotionFlow(Stream, qemu.moved, host.moved)
  BY <1>1 DEF ButtonFlow, MotionFlow, Among
<1>5. FlowInv'
  BY <1>1, <1>2, <1>3, <1>4 DEF FlowInv
<1>6. RoutesFirst(Stream)' = RoutesFirst(Stream)
  BY <1>1 DEF RoutesFirst
<1>7. RestoreInv'
  BY <1>1, <1>6 DEF RestoreInv, Among
<1>8. QED
  BY <1>5, <1>7

LEMMA SendFlows ==
  ASSUME Typed, FlowInv, RestoreInv, NEW e \in Event_, e.kind \in {"rel", "abs", "btn", "reset"},
         e.moved = host.moved, e.kind = "rel" => e.value = 1, UNCHANGED <<worker, link, qemu>>, Send(e),
         NEW n \in Nat, barrier.next <= n, e.id < n, Below(queue.events, barrier.next)
  PROVE  FlowInv' /\ RestoreInv' /\ Below(queue'.events, n)
<1>1. /\ queue \in Queue_ /\ host \in Host_ /\ queue.events \in Seq(Event_) /\ host.moved \in Nat
      /\ barrier.next \in Nat /\ 0 < barrier.next
  BY DEF Typed, InputTypes, Queue_, Host_
<1>2. Below(queue.events, n) /\ 0 < n
  <2>1. \A i \in DOMAIN queue.events : queue.events[i].id \in Nat
    <3>1. \A i \in DOMAIN queue.events : queue.events[i] \in Event_
      BY <1>1
    <3>2. QED
      BY <3>1 DEF Event_, Plain_
  <2>2. QED
    BY <1>1, <2>1 DEF Below
<1>3. CASE ~queue.connected
  BY <1>2, <1>3, IdleFlows DEF Send
<1>4. CASE queue.connected
  <2>1. /\ queue'.connected = queue.connected /\ queue'.events = PushedOn(queue.events, e)
        /\ queue'.capture = queue.capture
    BY <1>1, <1>4 DEF Send, Queue_
  <2>2. /\ host'.moved = IF e.kind = "rel" THEN host.moved + 1 ELSE host.moved
        /\ host'.down = IF e.kind = "btn" THEN e.value = 1 ELSE host.down
        /\ host'.overflowed = (host.overflowed \/ Lost(e))
    BY <1>1, <1>4 DEF Send, Host_
  <2>3. FlowInv' /\ RestoreInv'
    BY <1>4, <2>1, <2>2, PushStep
  <2>4. Below(queue'.events, n)
    BY <1>1, <1>2, <2>1, PushedBelow
  <2>5. QED
    BY <2>3, <2>4
<1>5. QED
  BY <1>3, <1>4

LEMMA SetFlows ==
  ASSUME Typed, FlowInv, RestoreInv, NEW e \in Event_, e.kind \in {"capture", "refresh"}, e.moved = host.moved,
         e.id = 0, UNCHANGED <<worker, link, qemu>>, Below(queue.events, barrier.next),
         NEW q \in Queue_, q.events = queue.events, q.connected = queue.connected,
         q.capture = IF e.kind = "capture" THEN e.value ELSE queue.capture, SetHost(q, e)
  PROVE  FlowInv' /\ RestoreInv' /\ Below(queue'.events, barrier.next)
<1>1. /\ queue \in Queue_ /\ host \in Host_ /\ queue.events \in Seq(Event_) /\ host.moved \in Nat
      /\ barrier.next \in Nat /\ 0 < barrier.next
  BY DEF Typed, InputTypes, Queue_, Host_
<1>2. e.kind = "capture" => e.value \in {"abs", "rel"}
  BY EventNumbers
<1>3. /\ host'.moved = host.moved /\ host'.down = host.down
      /\ host'.overflowed = (host.overflowed \/ (queue.connected /\ Lost(e)))
  BY <1>1 DEF SetHost, Host_
<1>4. CASE ~queue.connected
  <2>1. queue' = q /\ host'.overflowed = host.overflowed
    <3>1. host.overflowed \in BOOLEAN
      BY <1>1 DEF Host_
    <3>2. QED
      BY <1>3, <1>4, <3>1 DEF SetHost
  <2>2. QED
    BY <1>2, <1>3, <1>4, <2>1, IdleFlows
<1>5. CASE queue.connected
  <2>1. /\ queue'.connected = queue.connected /\ queue'.events = PushedOn(queue.events, e)
        /\ queue'.capture = q.capture
    BY <1>1, <1>5 DEF SetHost, Queue_
  <2>2. FlowInv' /\ RestoreInv'
    BY <1>3, <1>5, <2>1, PushStep
  <2>3. Below(queue'.events, barrier.next)
    BY <1>1, <2>1, PushedBelow
  <2>4. QED
    BY <2>2, <2>3
<1>6. QED
  BY <1>4, <1>5

LEMMA BarrierKept ==
  ASSUME BarrierInv, Below(queue'.events, barrier.next), UNCHANGED <<ack, barrier, worker, link, qemu>>
  PROVE  BarrierInv'
BY DEF BarrierInv, Below

LEMMA TrafficFlows ==
  ASSUME Typed, LinkInv, InputInv, InputTraffic
  PROVE  InputInv'
<1>1. /\ queue \in Queue_ /\ host \in Host_ /\ queue.events \in Seq(Event_) /\ host.moved \in Nat
      /\ barrier.next \in Nat /\ 0 < barrier.next /\ ack.id \in Nat /\ barrier.waiting \in Nat
      /\ barrier \in [next : Nat \ {0}, waiting : Nat, ok : SUBSET Nat] /\ qemu.resets \subseteq Nat
  BY DEF Typed, InputTypes, ServerTypes, Queue_, Host_
<1>2. UNCHANGED <<worker, link, qemu>> /\ FlowInv /\ RestoreInv /\ BarrierInv /\ qemu.faithful
      /\ Below(queue.events, barrier.next)
  BY DEF InputTraffic, InputInv, BarrierInv
<1>3. SUFFICES FlowInv' /\ RestoreInv' /\ BarrierInv'
  BY <1>2 DEF InputInv
<1>4. ASSUME NEW kind \in {"rel", "abs"}, SendMotion(kind) PROVE FlowInv' /\ RestoreInv' /\ BarrierInv'
  <2> DEFINE e == Event(kind, 1, 0)
  <2>1. e \in Event_ /\ e.kind = kind /\ e.moved = host.moved /\ e.value = 1 /\ e.id = 0
    BY <1>1 DEF Event, Event_, Plain_
  <2>2. Send(e) /\ UNCHANGED <<ack, barrier>>
    BY <1>4 DEF SendMotion
  <2> HIDE DEF e
  <2>3. FlowInv' /\ RestoreInv' /\ Below(queue'.events, barrier.next)
    BY <1>1, <1>2, <2>1, <2>2, SendFlows
  <2>4. QED
    BY <1>2, <2>2, <2>3, BarrierKept
<1>5. CASE SendButton
  <2> DEFINE e == Event("btn", IF host.down THEN 0 ELSE 1, 0)
  <2>1. e \in Event_ /\ e.kind = "btn" /\ e.moved = host.moved /\ e.id = 0
    BY <1>1 DEF Event, Event_, Plain_
  <2>2. Send(e) /\ UNCHANGED <<ack, barrier>>
    BY <1>5 DEF SendButton
  <2> HIDE DEF e
  <2>3. FlowInv' /\ RestoreInv' /\ Below(queue'.events, barrier.next)
    BY <1>1, <1>2, <2>1, <2>2, SendFlows
  <2>4. QED
    BY <1>2, <2>2, <2>3, BarrierKept
<1>6. CASE SetMouseCapture
  <2>1. PICK captured \in {"abs", "rel"} :
          SetHost([queue EXCEPT !.capture = captured], Event("capture", captured, 0))
    BY <1>6 DEF SetMouseCapture
  <2> DEFINE e == Event("capture", captured, 0)
             q == [queue EXCEPT !.capture = captured]
  <2>2. q \in Queue_ /\ q.events = queue.events /\ q.connected = queue.connected /\ q.capture = captured
    BY <1>1 DEF Routing, Queue_
  <2>3. e \in Event_ /\ e.kind = "capture" /\ e.value = captured /\ e.moved = host.moved /\ e.id = 0
    BY <1>1 DEF Event, Event_
  <2>4. SetHost(q, e) /\ UNCHANGED <<ack, barrier>>
    BY <2>1 DEF SetHost
  <2> HIDE DEF e, q
  <2>5. FlowInv' /\ RestoreInv' /\ Below(queue'.events, barrier.next)
    BY <1>1, <1>2, <2>2, <2>3, <2>4, SetFlows
  <2>6. QED
    BY <1>2, <2>4, <2>5, BarrierKept
<1>7. CASE SetHostRefresh
  <2>1. PICK rate \in 1..2 :
          SetHost([queue EXCEPT !.refresh = rate], Event("refresh", rate, 0))
    BY <1>7 DEF SetHostRefresh
  <2> DEFINE e == Event("refresh", rate, 0)
             q == [queue EXCEPT !.refresh = rate]
  <2>2. q \in Queue_ /\ q.events = queue.events /\ q.connected = queue.connected /\ q.capture = queue.capture
    BY <1>1 DEF Queue_
  <2>3. e \in Event_ /\ e.kind = "refresh" /\ e.moved = host.moved /\ e.id = 0
    BY <1>1 DEF Event, Event_, Plain_
  <2>4. SetHost(q, e) /\ UNCHANGED <<ack, barrier>>
    BY <2>1 DEF SetHost
  <2> HIDE DEF e, q
  <2>5. FlowInv' /\ RestoreInv' /\ Below(queue'.events, barrier.next)
    BY <1>1, <1>2, <2>2, <2>3, <2>4, SetFlows
  <2>6. QED
    BY <1>2, <2>4, <2>5, BarrierKept
<1>8. CASE ResetAndWait
  <2> DEFINE e == ResetEvent(barrier.next)
             n == barrier.next + 1
  <2>1. e \in Event_ /\ e.kind = "reset" /\ e.moved = host.moved /\ e.id = barrier.next
    BY <1>1 DEF ResetEvent, Event, Event_, Plain_
  <2>2. Send(e) /\ UNCHANGED ack /\ barrier' = [barrier EXCEPT !.waiting = barrier.next, !.next = n]
    BY <1>8 DEF ResetAndWait
  <2>3. n \in Nat /\ barrier.next <= n /\ e.id < n
    BY <1>1, <2>1
  <2>4. barrier'.next = n /\ barrier'.waiting = n - 1 /\ barrier'.ok = barrier.ok
    BY <1>1, <2>2
  <2> HIDE DEF e, n
  <2>5. FlowInv' /\ RestoreInv' /\ Below(queue'.events, n)
    BY <1>1, <1>2, <2>1, <2>2, <2>3, SendFlows
  <2>6. \A S \in Seq(Event_) : Below(S, barrier.next) => Below(S, n)
    <3> SUFFICES ASSUME NEW S \in Seq(Event_), Below(S, barrier.next), NEW i \in DOMAIN S
                 PROVE  S[i].id < n
      BY DEF Below
    <3>1. S[i] \in Event_
      OBVIOUS
    <3>2. S[i].id \in Nat /\ S[i].id < barrier.next
      BY <3>1 DEF Event_, Plain_, Below
    <3>3. QED
      BY <1>1, <2>3, <3>2
  <2>7. Below(worker.partial, n) /\ Below(link.out, n)
    BY <1>2, <2>6, StreamTyped DEF BarrierInv
  <2>8. \A r \in qemu.resets : r < n
    <3>1. \A r \in qemu.resets : r \in Nat /\ r < barrier.next
      BY <1>1, <1>2 DEF BarrierInv
    <3>2. QED
      BY <1>1, <2>3, <3>1
  <2>9. BarrierInv'
    BY <1>2, <2>2, <2>4, <2>8, <2>5, <2>7 DEF BarrierInv, Below
  <2>10. QED
    BY <2>5, <2>9
<1>9. CASE WaitEnds
  <2>1. UNCHANGED <<queue, ack, host>> /\ barrier.waiting # 0
    BY <1>9 DEF WaitEnds
  <2>2. FlowInv' /\ RestoreInv'
    BY <1>2, <2>1, IdleFlows
  <2>3. barrier'.next = barrier.next /\ barrier'.waiting = 0
        /\ (barrier'.ok = barrier.ok \/ (barrier'.ok = barrier.ok \cup {barrier.waiting} /\ Answered))
    BY <1>1, <1>9 DEF WaitEnds
  <2>4. Answered => barrier.waiting \in qemu.resets
    <3> SUFFICES ASSUME Answered PROVE barrier.waiting \in qemu.resets
      OBVIOUS
    <3>1. ack.id >= barrier.waiting /\ ack.id # 0
      BY <1>1, <2>1 DEF Answered
    <3>2. ack.id \in qemu.resets /\ ack.id < barrier.next /\ barrier.waiting = barrier.next - 1
      BY <1>2, <2>1, <3>1 DEF BarrierInv
    <3>3. ack.id = barrier.waiting
      BY <1>1, <3>1, <3>2
    <3>4. QED
      BY <3>2, <3>3
  <2>5. barrier'.ok \subseteq qemu.resets
    BY <1>2, <2>3, <2>4 DEF BarrierInv
  <2>6. BarrierInv'
    BY <1>2, <2>1, <2>3, <2>5 DEF BarrierInv, Below
  <2>7. QED
    BY <2>2, <2>6
<1>10. QED
  BY <1>4, <1>5, <1>6, <1>7, <1>8, <1>9 DEF InputTraffic

(* The worker's and QEMU's part. *)

LEMMA RefillFlows ==
  ASSUME Typed, LinkInv, InputInv, Refill
  PROVE  InputInv'
<1>1. /\ queue \in Queue_ /\ host.moved \in Nat /\ qemu.moved \in Nat /\ queue.events \in Seq(Event_)
      /\ barrier.next \in Nat /\ 0 < barrier.next /\ worker \in Worker_
  BY DEF Typed, InputTypes, ServerTypes, Queue_, Worker_
<1>2. /\ worker.pc = "refill" /\ worker'.pc = "announce" /\ worker'.partial = worker.partial
      /\ UNCHANGED <<link, qemu, host, barrier, ack>> /\ Reconnected
  BY <1>1 DEF Refill, Goto, Worker_
<1>3. link.out = <<>> /\ worker.partial = <<>> /\ queue.connected
  BY <1>2 DEF LinkInv, Leaving
<1>4. Stream = queue.events /\ Stream' = queue'.events
  <2>1. <<>> \in Seq(Event_) /\ <<>> \o <<>> = <<>> /\ <<>> \o queue.events = queue.events
    BY <1>1, ConcatEmptySeq
  <2>2. queue'.events \in Seq(Event_)
    BY <1>2, RefillTyped DEF Queue_
  <2>3. <<>> \o queue'.events = queue'.events
    BY <2>2, ConcatEmptySeq
  <2>4. QED
    BY <1>2, <1>3, <2>1, <2>3 DEF Stream
<1>5. Live /\ Live'
  BY <1>2 DEF Live
<1> DEFINE Q == queue.events
           r == Event("refresh", queue.refresh, 0)
           c == Event("capture", queue.capture, 0)
           e == IF queue.refresh = 0 THEN Q ELSE PushedOn(Q, r)
           f == IF Len(e) >= Capacity THEN <<ResetEvent(0)>> ELSE e
           asked == queue.capture
<1>6. r \in Event_ /\ r.kind = "refresh" /\ r.moved = host.moved /\ r.id = 0 /\ <<>> \in Seq(Event_)
  BY <1>1 DEF Event, Event_, Plain_, Queue_
<1>7. /\ ResetEvent(0) \in Event_ /\ ResetEvent(0).kind = "reset" /\ ResetEvent(0).moved = host.moved
      /\ ResetEvent(0).id = 0
  BY <1>1 DEF ResetEvent, Event, Event_, Plain_
<1>8. queue' = IF asked = "unset" THEN [queue EXCEPT !.events = e]
               ELSE [queue EXCEPT !.events = CaptureFirst(f, c)]
  BY <1>2 DEF Reconnected
<1>9. /\ ButtonFlow(Q, qemu.down, host.down) /\ MotionFlow(Q, qemu.moved, host.moved)
      /\ ~host.overflowed => RouteFlow(Q, asked, asked)
      /\ qemu.capture = "unset" /\ (qemu.expected # "unset" => asked # "unset")
      /\ asked = "unset" => Among(Q, CaptureKinds) = {}
      /\ ~host.overflowed /\ qemu.expected # "unset" => qemu.pressed # "unset"
      /\ Below(Q, barrier.next) /\ BarrierInv
  BY <1>2, <1>3, <1>4, <1>5 DEF InputInv, FlowInv, RestoreInv, Routed, BarrierInv
<1> HIDE DEF Q
<1>10. /\ e \in Seq(Event_) /\ ButtonFlow(e, qemu.down, host.down) /\ MotionFlow(e, qemu.moved, host.moved)
       /\ ~host.overflowed => RouteFlow(e, asked, asked)
       /\ asked = "unset" => Among(e, CaptureKinds) = {}
       /\ Below(e, barrier.next)
  <2>1. CASE queue.refresh = 0
    BY <1>1, <1>9, <2>1 DEF Q
  <2>2. CASE queue.refresh # 0
    <3> DEFINE P == PushedOn(Q, r)
    <3>1. Q \in Seq(Event_) /\ <<>> \o Q = Q /\ P \in Seq(Event_)
      BY <1>1, <1>6, PushCases, ConcatEmptySeq DEF Q
    <3>2. <<>> \o P = P
      BY <3>1, ConcatEmptySeq
    <3> HIDE DEF r
    <3>3. ButtonFlow(P, qemu.down, host.down) /\ MotionFlow(P, qemu.moved, host.moved)
      <4>1. r.kind # "rel" /\ r.kind # "btn"
        BY <1>6
      <4>2. ButtonFlow(<<>> \o Q, qemu.down, host.down) /\ MotionFlow(<<>> \o Q, qemu.moved, host.moved)
        BY <1>9, <3>1
      <4>3. /\ ButtonFlow(<<>> \o PushedOn(Q, r), qemu.down, host.down)
            /\ MotionFlow(<<>> \o PushedOn(Q, r), qemu.moved, IF r.kind = "rel" THEN host.moved + 1 ELSE host.moved)
        BY <1>1, <1>6, <3>1, <4>1, <4>2, PushedFlows
      <4>4. QED
        BY <3>2, <4>1, <4>3
    <3>4. asked = "unset" => Among(P, CaptureKinds) = {}
      BY <1>1, <1>6, <1>9, <3>1, PushedPlain
    <3>5. Below(P, barrier.next)
      BY <1>1, <1>6, <1>9, <3>1, PushedBelow
    <3>6. ASSUME ~host.overflowed PROVE RouteFlow(P, asked, asked)
      <4>1. RouteFlow(Q, asked, asked)
        BY <1>9, <3>6
      <4>2. CASE Overflows(Q, r) /\ ~(Q # <<>> /\ Merges(Q[Len(Q)], r))
        <5>1. P = Append(Append(<<>>, ResetEvent(0)), r)
          <6>1. P = <<ResetEvent(0), r>>
            BY <1>1, <1>6, <3>1, <4>2, PushCases DEF PushedOn
          <6>2. QED
            BY <6>1
        <5> DEFINE z == ResetEvent(0)
                   E == Append(<<>>, z)
        <5>2. RouteFlow(<<>>, asked, asked)
          BY DEF RouteFlow, Among
        <5>3. E \in Seq(Event_)
          BY <1>6, <1>7
        <5>4. z \in Event_ /\ z.kind # "capture" /\ r.kind # "capture"
          BY <1>6, <1>7
        <5> HIDE DEF z
        <5>5. RouteFlow(E, asked, asked)
          BY <1>6, <5>2, <5>4, RouteAppend
        <5> HIDE DEF E
        <5>6. RouteFlow(Append(E, r), asked, asked)
          BY <1>6, <5>3, <5>4, <5>5, RouteAppend
        <5>7. QED
          BY <5>1, <5>6 DEF E, z
      <4>3. CASE ~(Overflows(Q, r) /\ ~(Q # <<>> /\ Merges(Q[Len(Q)], r)))
        <5>1. \A a, b : RouteFlow(<<>> \o Q, a, b) =>
                RouteFlow(<<>> \o P, IF r.kind = "capture" THEN r.value ELSE a, b)
          BY <1>1, <1>6, <3>1, <4>3, PushedRoutes
        <5>2. RouteFlow(<<>> \o P, IF r.kind = "capture" THEN r.value ELSE asked, asked)
          BY <3>1, <4>1, <5>1
        <5>3. QED
          BY <1>6, <3>2, <5>2
      <4>4. QED
        BY <4>2, <4>3
    <3>7. QED
      BY <2>2, <3>1, <3>2, <3>3, <3>4, <3>5, <3>6
  <2>3. QED
    BY <2>1, <2>2
<1> HIDE DEF e
<1>11. CASE asked = "unset"
  <2>1. queue'.events = e /\ queue'.capture = "unset" /\ queue'.connected = queue.connected
    BY <1>1, <1>8, <1>11 DEF Queue_
  <2>2. qemu.expected = "unset"
    BY <1>9, <1>11
  <2>3. FlowInv'
    BY <1>2, <1>4, <1>5, <1>9, <1>10, <1>11, <2>1 DEF FlowInv, Routed, ButtonFlow, MotionFlow, RouteFlow, Among
  <2>4. RestoreInv'
    BY <1>2, <1>10, <1>11, <2>1, <2>2 DEF RestoreInv, Among
  <2>5. BarrierInv'
    BY <1>2, <1>9, <1>10, <2>1 DEF BarrierInv, Below
  <2>6. QED
    BY <1>2, <2>3, <2>4, <2>5 DEF InputInv
<1>12. CASE asked # "unset"
  <2>1. c \in Event_ /\ c.kind = "capture" /\ c.value = asked /\ c.id = 0
    BY <1>1, <1>12 DEF Event, Event_, Queue_, Routing
  <2>2. /\ f \in Seq(Event_) /\ ButtonFlow(f, qemu.down, host.down) /\ MotionFlow(f, qemu.moved, host.moved)
        /\ ~host.overflowed => RouteFlow(f, asked, asked)
        /\ Below(f, barrier.next)
    <3>1. CASE f = e
      BY <1>10, <3>1
    <3>2. CASE f = <<ResetEvent(0)>>
      <4> DEFINE z == ResetEvent(0)
      <4>1. f = Append(<<>>, z) /\ f \in Seq(Event_)
        <5>1. f = Append(<<>>, z)
          BY <3>2
        <5>2. Append(<<>>, z) \in Seq(Event_)
          BY <1>6, <1>7
        <5>3. QED
          BY <5>1, <5>2
      <4>2. Begins(<<>>, Q) /\ Q \in Seq(Event_)
        BY <1>1 DEF Begins, Q
      <4>3. RouteFlow(<<>>, asked, asked)
        BY DEF RouteFlow, Among
      <4>4. Below(f, barrier.next)
        BY <1>1, <1>7, <3>2 DEF Below
      <4> HIDE DEF z, f
      <4>5. ButtonFlow(Append(<<>>, z), qemu.down, host.down)
        BY <1>6, <1>7, ButtonReset DEF z
      <4>6. MotionFlow(Append(<<>>, z), qemu.moved, host.moved)
        BY <1>1, <1>6, <1>7, <1>9, <4>2, MotionReset DEF z
      <4>7. RouteFlow(Append(<<>>, z), asked, asked)
        BY <1>6, <1>7, <4>3, RouteAppend DEF z
      <4>8. QED
        BY <4>1, <4>4, <4>5, <4>6, <4>7
    <3>3. QED
      BY <3>1, <3>2
  <2> HIDE DEF c, f
  <2> DEFINE T == CaptureFirst(f, c)
  <2>3. queue'.events = T /\ queue'.capture = asked /\ queue'.connected = queue.connected
    BY <1>1, <1>8, <1>12 DEF Queue_
  <2>4. T \in Seq(Event_) /\ T[1] = c /\ T # <<>>
    BY <2>1, <2>2, AmongFront
  <2>5. ButtonFlow(T, qemu.down, host.down) /\ MotionFlow(T, qemu.moved, host.moved)
    BY <2>1, <2>2, ButtonFront, MotionFront
  <2>6. ~host.overflowed => RouteFlow(T, asked, qemu.capture)
    BY <2>1, <2>2, RouteFront DEF RouteFlow
  <2>7. Below(T, barrier.next)
    <3>1. T = <<c>> \o f
      BY DEF CaptureFirst
    <3>2. \A i \in DOMAIN T : i = 1 \/ (i - 1 \in DOMAIN f /\ T[i] = f[i - 1])
      BY <2>1, <2>2, <3>1
    <3>3. QED
      BY <1>1, <2>1, <2>2, <2>4, <3>2 DEF Below
  <2> HIDE DEF T
  <2>8. FlowInv'
    BY <1>2, <1>4, <1>5, <2>3, <2>5, <2>6 DEF FlowInv, Routed, ButtonFlow, MotionFlow, RouteFlow, Among
  <2>9. RestoreInv'
    BY <1>2, <1>4, <1>9, <1>12, <2>1, <2>3, <2>4 DEF RestoreInv, RoutesFirst
  <2>10. BarrierInv'
    BY <1>2, <1>9, <2>3, <2>7 DEF BarrierInv, Below
  <2>11. QED
    BY <1>2, <1>9, <2>8, <2>9, <2>10 DEF InputInv
<1>13. QED
  BY <1>11, <1>12

LEMMA AcceptFlows ==
  ASSUME Typed, LinkInv, InputInv, Accept
  PROVE  InputInv'
<1>1. /\ queue \in Queue_ /\ qemu \in Qemu_ /\ host \in Host_ /\ worker \in Worker_
  BY DEF Typed, InputTypes, ServerTypes, Queue_, Qemu_, Host_, Worker_
<1>2. /\ worker.pc = "accept" /\ worker'.pc = "refill" /\ worker'.partial = worker.partial
      /\ UNCHANGED <<link, host, barrier, ack>>
      /\ queue'.events = queue.events /\ queue'.capture = queue.capture
      /\ qemu'.down = FALSE /\ qemu'.moved = host.moved /\ qemu'.capture = "unset" /\ qemu'.pressed = "none"
      /\ qemu'.expected = queue.capture /\ qemu'.resets = qemu.resets /\ qemu'.faithful = qemu.faithful
  BY <1>1 DEF Accept, Goto, Worker_, Queue_, Qemu_
<1>3. link.out = <<>> /\ worker.partial = <<>> /\ queue.events = <<>>
  BY <1>2 DEF LinkInv, Leaving
<1>4. Stream' = <<>>
  BY <1>2, <1>3 DEF Stream
<1>5. FlowInv'
  <2>1. ButtonFlow(<<>>, FALSE, host.down)
    BY DEF ButtonFlow, Among
  <2>2. MotionFlow(<<>>, host.moved, host.moved)
    BY DEF MotionFlow, Among
  <2>3. RouteFlow(<<>>, queue.capture, queue.capture)
    BY DEF RouteFlow, Among
  <2>4. Routed' = queue.capture
    BY <1>2 DEF Routed
  <2>5. /\ ButtonFlow(Stream, qemu.down, host.down)' <=> ButtonFlow(<<>>, FALSE, host.down)
        /\ MotionFlow(Stream, qemu.moved, host.moved)' <=> MotionFlow(<<>>, host.moved, host.moved)
        /\ RouteFlow(Stream, queue.capture, Routed)' <=> RouteFlow(<<>>, queue.capture, queue.capture)
    BY <1>2, <1>4, <2>4 DEF ButtonFlow, MotionFlow, RouteFlow, Among
  <2>6. QED
    BY <2>1, <2>2, <2>3, <2>5 DEF FlowInv
<1>6. RestoreInv'
  <2>1. Among(<<>>, CaptureKinds) = {}
    BY DEF Among
  <2>2. Among(queue.events, CaptureKinds)' = Among(<<>>, CaptureKinds)
    BY <1>2, <1>3 DEF Among
  <2>3. QED
    BY <1>2, <2>1, <2>2 DEF RestoreInv
<1>7. BarrierInv'
  BY <1>2 DEF InputInv, BarrierInv, Below
<1>8. QED
  BY <1>2, <1>5, <1>6, <1>7 DEF InputInv

(* A step that leaves everything on the way where it is in the whole, though it may take it further. *)
LEMMA CarriedFlows ==
  ASSUME FlowInv, RestoreInv, Stream' = Stream, Live' => Live, queue'.connected => queue.connected,
         worker'.pc = "refill" => worker.pc = "refill", worker.pc = "refill" /\ Live' => worker'.pc = "refill",
         queue'.capture = queue.capture, UNCHANGED <<qemu, host>>,
         queue.capture = "unset" => Among(queue'.events, CaptureKinds) = {}
  PROVE  FlowInv' /\ RestoreInv'
<1>1. Live' => Routed' = Routed
  BY DEF Routed
<1>2. /\ ButtonFlow(Stream, qemu.down, host.down)' <=> ButtonFlow(Stream, qemu.down, host.down)
      /\ MotionFlow(Stream, qemu.moved, host.moved)' <=> MotionFlow(Stream, qemu.moved, host.moved)
      /\ RouteFlow(Stream, queue.capture, Routed)' <=> RouteFlow(Stream, queue.capture, Routed')
  BY DEF ButtonFlow, MotionFlow, RouteFlow, Among
<1>3. FlowInv'
  BY <1>1, <1>2 DEF FlowInv
<1>4. RoutesFirst(Stream)' = RoutesFirst(Stream)
  BY DEF RoutesFirst
<1>5. Among(queue.events, CaptureKinds)' = Among(queue'.events, CaptureKinds)
  BY DEF Among
<1>6. RestoreInv'
  BY <1>4, <1>5 DEF RestoreInv
<1>7. QED
  BY <1>3, <1>6

(* A step that leaves nobody connected. *)
LEMMA DeadFlows ==
  ASSUME RestoreInv, ~Live', worker'.pc # "refill", queue'.capture = queue.capture, UNCHANGED host,
         qemu'.expected = "unset" \/ (qemu'.expected = qemu.expected /\ qemu'.pressed = qemu.pressed),
         queue'.events = queue.events \/ queue'.events = <<>>
  PROVE  FlowInv' /\ RestoreInv'
<1>1. FlowInv'
  BY DEF FlowInv
<1>2. Among(<<>>, CaptureKinds) = {}
  BY DEF Among
<1>3. Among(queue.events, CaptureKinds)' = Among(queue'.events, CaptureKinds)
  BY DEF Among
<1>4. queue.capture = "unset" => Among(queue'.events, CaptureKinds) = {}
  BY <1>2 DEF RestoreInv
<1>5. RestoreInv'
  BY <1>3, <1>4 DEF RestoreInv
<1>6. QED
  BY <1>1, <1>5

(* The barriers, when what is on the way and what QEMU has done stay. *)
LEMMA BarrierCarried ==
  ASSUME BarrierInv, UNCHANGED barrier, qemu'.resets = qemu.resets,
         Below(queue'.events, barrier.next), Below(worker'.partial, barrier.next), Below(link'.out, barrier.next),
         ack'.id = ack.id \/ ack'.id \in qemu.resets,
         \A i \in DOMAIN link'.in : link'.in[i].kind = "A" =>
           (\E j \in DOMAIN link.in : link'.in[i] = link.in[j]) \/ link'.in[i].id \in qemu.resets \cup {0}
  PROVE  BarrierInv'
BY DEF BarrierInv, Below

(* A step that moves nothing on its way to QEMU. *)
LEMMA ElsewhereFlows ==
  ASSUME Typed, LinkInv, InputInv, UNCHANGED <<queue, host, barrier, qemu>>, worker'.partial = worker.partial,
         link'.out = link.out, worker'.pc \in {"refill", "announce"} => worker'.pc = worker.pc,
         Up' => Up \/ worker.pc = "announce",
         ack'.id = ack.id \/ ack'.id \in qemu.resets \cup {0},
         \A i \in DOMAIN link'.in : link'.in[i].kind = "A" => \E j \in DOMAIN link.in : link'.in[i] = link.in[j]
  PROVE  InputInv'
<1>1. FlowInv /\ RestoreInv /\ BarrierInv /\ qemu'.faithful
  BY DEF InputInv
<1>2. Stream' = Stream
  BY DEF Stream
<1>3. (Live' => Live) /\ (worker'.pc = "refill" => worker.pc = "refill")
  BY DEF Live
<1>4. worker.pc = "refill" /\ Live' => worker'.pc = "refill"
  <2>1. worker.pc = "refill" => ~Up
    BY DEF LinkInv, Up
  <2>2. QED
    BY <2>1 DEF Live
<1>5. FlowInv' /\ RestoreInv'
  BY <1>1, <1>2, <1>3, <1>4, CarriedFlows DEF RestoreInv
<1>6. BarrierInv'
  <2>1. /\ Below(queue'.events, barrier.next) /\ Below(worker'.partial, barrier.next) /\ Below(link'.out, barrier.next)
        /\ ack'.id \in qemu.resets \cup {0}
        /\ \A i \in DOMAIN link.in : link.in[i].kind = "A" => link.in[i].id \in qemu.resets \cup {0}
    BY <1>1 DEF BarrierInv
  <2>2. \A i \in DOMAIN link'.in : link'.in[i].kind = "A" => link'.in[i].id \in qemu.resets \cup {0}
    BY <2>1
  <2>3. QED
    BY <1>1, <2>1, <2>2 DEF BarrierInv
<1>7. QED
  BY <1>1, <1>5, <1>6 DEF InputInv

LEMMA SameMessages ==
  ASSUME Typed
  PROVE  /\ link'.in = link.in => \A i \in DOMAIN link'.in : \E j \in DOMAIN link.in : link'.in[i] = link.in[j]
         /\ link.in # <<>> /\ link'.in = Tail(link.in) =>
              \A i \in DOMAIN link'.in : \E j \in DOMAIN link.in : link'.in[i] = link.in[j]
         /\ \A m : m.kind # "A" /\ link' = Tell(m) =>
              /\ \A i \in DOMAIN link'.in : link'.in[i].kind = "A" => \E j \in DOMAIN link.in : link'.in[i] = link.in[j]
              /\ link'.out = link.out /\ (Up' => Up)
<1>1. link \in Link_ /\ link.in \in Seq(Message_)
  BY DEF Typed, ServerTypes, Link_
<1>2. link'.in = link.in => \A i \in DOMAIN link'.in : \E j \in DOMAIN link.in : link'.in[i] = link.in[j]
  OBVIOUS
<1>3. ASSUME link.in # <<>>, link'.in = Tail(link.in), NEW i \in DOMAIN link'.in
      PROVE  \E j \in DOMAIN link.in : link'.in[i] = link.in[j]
  <2> DEFINE S == link.in
  <2>1. S \in Seq(Message_) /\ S # <<>> /\ link'.in = Tail(S)
    BY <1>1, <1>3
  <2>2. DOMAIN S = 1..Len(S) /\ Len(S) \in Nat /\ DOMAIN Tail(S) = 1..(Len(S) - 1)
    BY <2>1
  <2>3. i \in 1..(Len(S) - 1) /\ Tail(S)[i] = S[i + 1] /\ i + 1 \in 1..Len(S)
    BY <1>3, <2>1, <2>2
  <2>4. QED
    BY <2>1, <2>2, <2>3
<1>4. ASSUME NEW m, m.kind # "A", link' = Tell(m)
      PROVE  /\ \A i \in DOMAIN link'.in : link'.in[i].kind = "A" => \E j \in DOMAIN link.in : link'.in[i] = link.in[j]
             /\ link'.out = link.out /\ (Up' => Up)
  <2>1. CASE ~Up
    BY <1>4, <2>1 DEF Tell, Up
  <2>2. CASE Up
    <3>1. link'.in = Append(link.in, m) /\ link'.out = link.out
      BY <1>1, <1>4, <2>2 DEF Tell, Link_
    <3>2. ASSUME NEW i \in DOMAIN link'.in, link'.in[i].kind = "A"
          PROVE  \E j \in DOMAIN link.in : link'.in[i] = link.in[j]
      <4> DEFINE S == link.in
      <4>1. S \in Seq(Message_) /\ link'.in = Append(S, m)
        BY <1>1, <3>1
      <4>2. /\ Len(S) \in Nat /\ DOMAIN S = 1..Len(S) /\ DOMAIN Append(S, m) = 1..(Len(S) + 1)
            /\ Append(S, m)[Len(S) + 1] = m /\ \A k \in 1..Len(S) : Append(S, m)[k] = S[k]
        BY <4>1
      <4>3. i # Len(S) + 1
        BY <1>4, <3>2, <4>1, <4>2
      <4>4. i \in 1..Len(S)
        BY <3>2, <4>1, <4>2, <4>3
      <4>5. QED
        BY <4>1, <4>2, <4>4
    <3>3. QED
      BY <2>2, <3>1, <3>2
  <2>3. QED
    BY <2>1, <2>2
<1>5. QED
  BY <1>2, <1>3, <1>4

LEMMA QemuElsewhere ==
  ASSUME Typed, LinkInv, InputInv, Resize \/ Draw \/ Point \/ Malformed
  PROVE  InputInv'
<1>1. UNCHANGED <<queue, host, barrier, ack, qemu, worker>>
  BY DEF Resize, Draw, Point, Malformed, input
<1>2. UNCHANGED link \/ \E m : m.kind # "A" /\ link' = Tell(m)
  <2>1. CASE Resize
    <3>1. link' = Tell(Message("D", writer.map + 1)) /\ Message("D", writer.map + 1).kind # "A"
      BY <2>1 DEF Resize, Message
    <3>2. QED
      BY <3>1
  <2>2. CASE Draw
    <3>1. UNCHANGED link \/ (link' = Tell(Message("F", 0)) /\ Message("F", 0).kind # "A")
      BY <2>2 DEF Draw, Message
    <3>2. QED
      BY <3>1
  <2>3. CASE Point
    <3>1. link' = Tell(Message("C", 0)) \/ link' = Tell(Message("S", 0)) \/ link' = Tell(Message("P", pointer.position + 1))
      BY <2>3 DEF Point
    <3>2. Message("C", 0).kind # "A" /\ Message("S", 0).kind # "A" /\ Message("P", pointer.position + 1).kind # "A"
      BY DEF Message
    <3>3. QED
      BY <3>1, <3>2
  <2>4. CASE Malformed
    <3>1. link' = Tell(Message("X", 0)) /\ Message("X", 0).kind # "A"
      BY <2>4 DEF Malformed, Message
    <3>2. QED
      BY <3>1
  <2>5. QED
    BY <2>1, <2>2, <2>3, <2>4
<1>3. /\ \A i \in DOMAIN link'.in : link'.in[i].kind = "A" => \E j \in DOMAIN link.in : link'.in[i] = link.in[j]
      /\ link'.out = link.out /\ (Up' => Up)
  <2>1. CASE UNCHANGED link
    BY <2>1 DEF Up
  <2>2. CASE \E m : m.kind # "A" /\ link' = Tell(m)
    BY <2>2, SameMessages
  <2>3. QED
    BY <1>2, <2>1, <2>2
<1>4. QED
  BY <1>1, <1>3, ElsewhereFlows

LEMMA ProgramElsewhere ==
  ASSUME Typed, LinkInv, InputInv, Stop \/ UiPoll \/ UiChanged \/ UiLook \/ UiClaim \/ UiDrops \/ UNCHANGED vars
  PROVE  InputInv'
<1>1. UNCHANGED <<queue, host, barrier, ack, qemu, worker, link>>
  BY DEF Stop, Stops, UiPoll, UiChanged, UiLook, UiClaim, UiDrops, vars, input
<1>2. Up' => Up
  BY <1>1 DEF Up
<1>3. QED
  BY <1>1, <1>2, ElsewhereFlows

LEMMA WorkerElsewhere ==
  ASSUME Typed, LinkInv, InputInv, Top \/ Poll \/ AnnounceUp \/ Look \/ AnnounceGone \/ Call
  PROVE  InputInv'
<1>1. worker \in Worker_ /\ ack \in Ack_
  BY DEF Typed, InputTypes, ServerTypes, Worker_, Ack_
<1>2. UNCHANGED <<queue, host, barrier, qemu>>
  BY DEF Top, Poll, AnnounceUp, Look, AnnounceGone, Call, input
<1>3. worker'.partial = worker.partial /\ worker'.pc \notin {"refill", "announce"}
  <2>1. CASE Top
    BY <1>1, <2>1 DEF Top, Worker_
  <2>2. CASE Poll
    BY <1>1, <2>2 DEF Poll, Goto, Worker_
  <2>3. CASE AnnounceUp \/ AnnounceGone \/ Call
    BY <1>1, <2>3 DEF AnnounceUp, AnnounceGone, Call, Goto, Worker_
  <2>4. CASE Look
    BY <1>1, <2>4 DEF Look, Goto, Change, Worker_
  <2>5. QED
    BY <2>1, <2>2, <2>3, <2>4
<1>4. ack'.id = ack.id
  BY <1>1 DEF Top, Poll, AnnounceUp, Look, AnnounceGone, Call, input, Announce, Ack_
<1>5. /\ \A i \in DOMAIN link'.in : link'.in[i].kind = "A" => \E j \in DOMAIN link.in : link'.in[i] = link.in[j]
      /\ link'.out = link.out /\ (Up' => Up \/ worker.pc = "announce")
  <2>1. CASE UNCHANGED link
    BY <2>1 DEF Up
  <2>2. CASE AnnounceUp
    <3>1. worker.pc = "announce" /\ link.out = <<>>
      BY <2>2 DEF AnnounceUp, LinkInv
    <3>2. /\ link'.out = <<>>
          /\ link'.in = IF writer.map = 0 THEN <<>> ELSE <<Message("D", writer.map)>>
      BY <2>2 DEF AnnounceUp, NoLink
    <3>3. \A i \in DOMAIN link'.in : link'.in[i].kind # "A"
      BY <3>2 DEF Message
    <3>4. QED
      BY <3>1, <3>2, <3>3
  <2>3. QED
    BY <2>1, <2>2 DEF Top, Poll, Look, AnnounceGone, Call
<1>6. QED
  BY <1>2, <1>3, <1>4, <1>5, ElsewhereFlows

LEMMA ReadElsewhere ==
  ASSUME Typed, LinkInv, InputInv, Read
  PROVE  InputInv'
<1>1. worker \in Worker_ /\ ack \in Ack_ /\ link \in Link_
  BY DEF Typed, InputTypes, ServerTypes, Worker_, Ack_, Link_
<1>2. CASE link.in = <<>>
  <2>1. UNCHANGED <<queue, host, barrier, qemu, ack, link>> /\ worker'.partial = worker.partial
        /\ worker'.pc \notin {"refill", "announce"}
    BY <1>1, <1>2 DEF Read, Goto, input, Worker_
  <2>2. Up' => Up
    BY <2>1 DEF Up
  <2>3. QED
    BY <2>1, <2>2, ElsewhereFlows
<1>3. CASE link.in # <<>>
  <2> DEFINE m == Head(link.in)
             lost == m.kind = "X" \/ (m.kind \in {"S", "P"} /\ ~mapping.there)
             Quiet == /\ UNCHANGED <<queue, host, barrier, qemu>>
                      /\ worker'.partial = worker.partial /\ worker'.pc \notin {"refill", "announce"}
                      /\ ack'.id = ack.id \/ (m.kind = "A" /\ ack'.id = m.id)
  <2>0. m.kind \in {"D", "F", "C", "S", "P", "X", "A"} /\ worker.pc = "read" /\ UNCHANGED qemu
    <3>1. m \in Message_
      BY <1>1, <1>3 DEF Link_
    <3>2. QED
      BY <1>3, <3>1 DEF Message_, Read
  <2>1. Quiet
    <3>1. CASE lost
      BY <1>1, <1>3, <2>0, <3>1 DEF Read, Goto, Worker_, input
    <3>2. CASE ~lost /\ m.kind \in {"S", "P"}
      BY <1>1, <1>3, <2>0, <3>2 DEF Read, Goto, Change, Worker_, input
    <3>3. CASE ~lost /\ m.kind \in {"C", "F", "D"}
      BY <1>1, <1>3, <2>0, <3>3 DEF Read, Goto, Change, Worker_, input
    <3>4. CASE ~lost /\ m.kind = "A"
      BY <1>1, <1>3, <2>0, <3>4 DEF Read, Acknowledge, Ack_
    <3>5. QED
      BY <2>0, <3>1, <3>2, <3>3, <3>4
  <2>2. worker'.partial = worker.partial /\ worker'.pc \notin {"refill", "announce"}
    BY <2>1
  <2>3. link'.in = Tail(link.in) /\ link'.out = link.out /\ (Up' => Up)
    BY <1>1, <1>3 DEF Read, Link_, Up
  <2>4. ack'.id = ack.id \/ (Head(link.in).kind = "A" /\ ack'.id = Head(link.in).id)
    BY <2>1
  <2>5. Head(link.in) = link.in[1] /\ 1 \in DOMAIN link.in
    BY <1>1, <1>3 DEF Link_
  <2>6. ack'.id = ack.id \/ ack'.id \in qemu.resets \cup {0}
    BY <2>4, <2>5 DEF InputInv, BarrierInv
  <2>7. \A i \in DOMAIN link'.in : \E j \in DOMAIN link.in : link'.in[i] = link.in[j]
    BY <1>3, <2>3, SameMessages
  <2>8. QED
    BY <2>1, <2>2, <2>3, <2>6, <2>7, ElsewhereFlows
<1>4. QED
  BY <1>2, <1>3

LEMMA HeadThenTail ==
  ASSUME NEW S \in Seq(Event_), S # <<>>
  PROVE  /\ S = <<S[1]>> \o Tail(S) /\ Head(S) = S[1] /\ S[1] \in Event_ /\ Tail(S) \in Seq(Event_)
         /\ <<S[1]>> \in Seq(Event_)
         /\ \A T \in Seq(Event_) : S \o T # <<>> /\ (S \o T)[1] = S[1] /\ Tail(S \o T) = Tail(S) \o T
<1>1. Len(S) \in Nat \ {0} /\ 1 \in 1..Len(S) /\ Len(S) \in 1..Len(S) /\ S[1] \in Event_ /\ Head(S) = S[1]
      /\ Tail(S) \in Seq(Event_)
  BY EmptySeq
<1>2. S = <<S[1]>> \o Tail(S)
  <2>1. SubSeq(S, 1, Len(S)) = <<S[1]>> \o SubSeq(S, 1 + 1, Len(S))
    BY <1>1, SubSeqRecursiveFirst
  <2>2. SubSeq(S, 1, Len(S)) = S /\ Tail(S) = SubSeq(S, 2, Len(S)) /\ 1 + 1 = 2
    BY SubSeqFull, TailIsSubSeq
  <2>3. QED
    BY <2>1, <2>2
<1>3. <<S[1]>> \in Seq(Event_)
  BY <1>1
<1>4. ASSUME NEW T \in Seq(Event_)
      PROVE  S \o T # <<>> /\ (S \o T)[1] = S[1] /\ Tail(S \o T) = Tail(S) \o T
  <2> DEFINE h == <<S[1]>>
             R == Tail(S)
             X == R \o T
  <2>1. S \o T = h \o X
    <3>1. h \in Seq(Event_) /\ R \in Seq(Event_) /\ S = h \o R
      BY <1>1, <1>2, <1>3
    <3> HIDE DEF h, R
    <3>2. (h \o R) \o T = h \o (R \o T)
      BY <3>1, ConcatAssociative
    <3>3. QED
      BY <3>1, <3>2
  <2>2. X \in Seq(Event_)
    BY <1>1, ConcatProperties
  <2> HIDE DEF X
  <2>3. /\ h \o X \in Seq(Event_) /\ Len(h \o X) = 1 + Len(X) /\ Len(X) \in Nat
        /\ \A i \in 1..(1 + Len(X)) : (h \o X)[i] = IF i <= 1 THEN h[i] ELSE X[i - 1]
    <3>1. Len(h) = 1 /\ h \in Seq(Event_)
      BY <1>3
    <3> HIDE DEF h
    <3>2. /\ h \o X \in Seq(Event_) /\ Len(h \o X) = Len(h) + Len(X)
          /\ \A i \in 1..(Len(h) + Len(X)) : (h \o X)[i] = IF i <= Len(h) THEN h[i] ELSE X[i - Len(h)]
      BY <2>2, <3>1, ConcatProperties
    <3>3. Len(X) \in Nat
      BY <2>2
    <3>4. QED
      BY <3>1, <3>2, <3>3
  <2> DEFINE U == h \o X
  <2> HIDE DEF U
  <2>4. U \in Seq(Event_) /\ Len(U) = 1 + Len(X) /\ U # <<>> /\ 1 \in 1..(1 + Len(X))
    <3>1. U \in Seq(Event_) /\ Len(U) = 1 + Len(X) /\ Len(X) \in Nat
      BY <2>3 DEF U
    <3>2. QED
      BY <3>1
  <2>5. U[1] = S[1]
    BY <2>3, <2>4 DEF U
  <2>6. Tail(U) = X
    <3>1. /\ Tail(U) \in Seq(Event_) /\ Len(Tail(U)) = Len(U) - 1
          /\ \A i \in 1..Len(Tail(U)) : Tail(U)[i] = U[i + 1]
      BY <2>4, HeadTailProperties
    <3>2. Len(Tail(U)) = Len(X)
      BY <2>3, <2>4, <3>1
    <3>3. ASSUME NEW i \in 1..Len(X) PROVE Tail(U)[i] = X[i]
      <4>1. i + 1 \in 1..(1 + Len(X)) /\ ~(i + 1 <= 1) /\ (i + 1) - 1 = i
        BY <2>3, <3>3
      <4>2. U[i + 1] = X[i]
        BY <2>3, <4>1 DEF U
      <4>3. QED
        BY <3>1, <3>2, <3>3, <4>2
    <3>4. QED
      BY <2>2, <3>1, <3>2, <3>3, SeqEqual
  <2>7. QED
    BY <2>1, <2>4, <2>5, <2>6 DEF U, X
<1>5. QED
  BY <1>1, <1>2, <1>3, <1>4

LEMMA ConsumeFlows ==
  ASSUME Typed, LinkInv, InputInv, Consume
  PROVE  InputInv'
<1> DEFINE S == Stream
           e == Head(link.out)
<1>1. /\ link \in Link_ /\ qemu \in Qemu_ /\ barrier.next \in Nat /\ host.moved \in Nat /\ qemu.moved \in Nat
      /\ link.out \in Seq(Event_)
  BY StreamTyped DEF Typed, ServerTypes, InputTypes, Link_, Qemu_
<1>2. /\ Up /\ link.out # <<>> /\ UNCHANGED <<queue, host, barrier, ack, worker>>
      /\ worker.pc # "refill" /\ Live
  BY DEF Consume, input, LinkInv, Up, Live
<1>3. S \in Seq(Event_) /\ S # <<>> /\ S[1] = e /\ e \in Event_ /\ link.out[1] = e /\ Tail(link.out) \in Seq(Event_)
  <2> DEFINE T == link.out \o worker.partial
  <2>1. /\ T \in Seq(Event_) /\ T # <<>> /\ T[1] = e /\ link.out[1] = e /\ e \in Event_
        /\ Tail(link.out) \in Seq(Event_)
    BY <1>2, StreamTyped, HeadThenTail
  <2>2. S = T \o queue.events /\ S \in Seq(Event_) /\ queue.events \in Seq(Event_)
    BY StreamTyped
  <2> HIDE DEF T
  <2>3. T \o queue.events # <<>> /\ (T \o queue.events)[1] = T[1]
    BY <2>1, <2>2, HeadThenTail
  <2>4. QED
    BY <2>1, <2>2, <2>3
<1>4. link'.out = Tail(link.out) /\ link'.in = IF e.kind = "reset" THEN Append(link.in, Message("A", e.id)) ELSE link.in
  BY <1>1 DEF Consume, Link_
<1>5. Stream' = Tail(S)
  <2> DEFINE T == link.out \o worker.partial
  <2>1. Tail(T) = Tail(link.out) \o worker.partial /\ T \in Seq(Event_) /\ T # <<>>
    BY <1>2, StreamTyped, HeadThenTail
  <2>2. S = T \o queue.events /\ queue.events \in Seq(Event_)
    BY StreamTyped
  <2>3. Stream' = (Tail(link.out) \o worker.partial) \o queue.events
    BY <1>2, <1>4 DEF Stream
  <2> HIDE DEF T
  <2>4. Tail(T \o queue.events) = Tail(T) \o queue.events
    BY <2>1, <2>2, HeadThenTail
  <2>5. QED
    BY <2>1, <2>2, <2>3, <2>4
<1>6. qemu' = [qemu EXCEPT
            !.down = CASE e.kind = "btn" -> e.value = 1 [] e.kind = "reset" -> FALSE [] OTHER -> @,
            !.moved = CASE e.kind = "rel" -> @ + e.value
                        [] e.kind = "reset" -> e.moved [] OTHER -> @,
            !.capture = IF e.kind = "capture" THEN e.value ELSE @,
            !.resets = IF e.kind = "reset" THEN @ \union {e.id} ELSE @,
            !.faithful = @ /\ (e.kind = "btn" => qemu.moved = e.moved),
            !.pressed = IF e.kind = "btn" /\ @ = "none" THEN qemu.capture ELSE @]
  BY DEF Consume
<1> HIDE DEF S, e
<1>7. /\ qemu'.down = DownNow(e, qemu.down) /\ qemu'.moved = MovedNow(e, qemu.moved)
      /\ qemu'.capture = RoutedNow(e, qemu.capture)
      /\ qemu'.resets = IF e.kind = "reset" THEN qemu.resets \cup {e.id} ELSE qemu.resets
      /\ qemu'.faithful = (qemu.faithful /\ (e.kind = "btn" => qemu.moved = e.moved))
      /\ qemu'.pressed = IF e.kind = "btn" /\ qemu.pressed = "none" THEN qemu.capture ELSE qemu.pressed
      /\ qemu'.expected = qemu.expected
  BY <1>1, <1>6 DEF Qemu_, DownNow, MovedNow, RoutedNow
<1>8. /\ ButtonFlow(S, qemu.down, host.down) /\ MotionFlow(S, qemu.moved, host.moved)
      /\ queue.connected /\ ~host.overflowed => RouteFlow(S, queue.capture, qemu.capture)
  BY <1>2 DEF InputInv, FlowInv, Routed, S
<1>9. /\ ButtonFlow(Tail(S), qemu'.down, host.down) /\ MotionFlow(Tail(S), qemu'.moved, host.moved)
      /\ queue.connected /\ ~host.overflowed => RouteFlow(Tail(S), queue.capture, qemu'.capture)
      /\ e.kind = "btn" => qemu.moved = e.moved
  BY <1>1, <1>3, <1>7, <1>8, ButtonTail, MotionTail, RouteTail
<1>10. qemu'.faithful
  BY <1>7, <1>9 DEF InputInv
<1>11. FlowInv'
  <2>1. Routed' = qemu'.capture
    BY <1>2 DEF Routed
  <2>2. /\ ButtonFlow(Stream, qemu.down, host.down)' <=> ButtonFlow(Tail(S), qemu'.down, host.down)
        /\ MotionFlow(Stream, qemu.moved, host.moved)' <=> MotionFlow(Tail(S), qemu'.moved, host.moved)
        /\ RouteFlow(Stream, queue.capture, Routed)' <=> RouteFlow(Tail(S), queue.capture, qemu'.capture)
    BY <1>2, <1>5, <2>1 DEF ButtonFlow, MotionFlow, RouteFlow, Among
  <2>3. QED
    BY <1>2, <1>9, <2>2 DEF FlowInv
<1>12. RestoreInv'
  <2>1. e.kind = "capture" => e.value # "unset"
    BY <1>3, EventNumbers
  <2>2. ~host.overflowed /\ qemu.expected # "unset" => qemu.capture # "unset" \/ e.kind = "capture"
    BY <1>2, <1>3 DEF InputInv, RestoreInv, RoutesFirst, S
  <2>3. ~host.overflowed /\ qemu.expected # "unset" => qemu'.capture # "unset"
    BY <1>7, <2>1, <2>2 DEF RoutedNow
  <2>4. ~host.overflowed /\ qemu.expected # "unset" => qemu'.pressed # "unset"
    BY <1>7, <2>2 DEF InputInv, RestoreInv
  <2>5. Among(queue.events, CaptureKinds)' = Among(queue.events, CaptureKinds)
    BY <1>2 DEF Among
  <2>6. QED
    BY <1>2, <1>7, <2>3, <2>4, <2>5 DEF InputInv, RestoreInv
<1>13. BarrierInv'
  <2>1. BarrierInv /\ e.id < barrier.next
    <3>1. 1 \in DOMAIN link.out
      BY <1>1, <1>2
    <3>2. QED
      BY <1>3, <3>1 DEF InputInv, BarrierInv, Below
  <2>2. Below(Tail(link.out), barrier.next)
    <3> DEFINE O == link.out
    <3>1. O \in Seq(Event_) /\ O # <<>>
      BY <1>1, <1>2
    <3>2. \A i \in DOMAIN Tail(O) : i + 1 \in DOMAIN O /\ Tail(O)[i] = O[i + 1]
      BY <3>1
    <3>3. Below(O, barrier.next)
      BY <2>1 DEF BarrierInv
    <3> HIDE DEF O
    <3>4. QED
      BY <3>2, <3>3 DEF Below, O
  <2>3. qemu.resets \subseteq qemu'.resets /\ \A r \in qemu'.resets : r < barrier.next
    BY <1>7, <2>1 DEF BarrierInv
  <2>4. \A i \in DOMAIN link'.in : link'.in[i].kind = "A" => link'.in[i].id \in qemu'.resets \cup {0}
    <3>1. CASE e.kind # "reset"
      BY <1>4, <2>1, <2>3, <3>1 DEF BarrierInv
    <3>2. CASE e.kind = "reset"
      <4> DEFINE I == link.in
                 m == Message("A", e.id)
      <4>1. I \in Seq(Message_) /\ link'.in = Append(I, m)
        BY <1>1, <1>4, <3>2 DEF Link_
      <4>2. /\ Len(I) \in Nat /\ DOMAIN I = 1..Len(I) /\ DOMAIN Append(I, m) = 1..(Len(I) + 1)
            /\ Append(I, m)[Len(I) + 1] = m /\ \A k \in 1..Len(I) : Append(I, m)[k] = I[k]
        BY <4>1
      <4>3. m.id \in qemu'.resets
        BY <1>7, <3>2 DEF Message
      <4>4. \A k \in DOMAIN I : I[k].kind = "A" => I[k].id \in qemu'.resets \cup {0}
        BY <2>1, <2>3 DEF BarrierInv
      <4> HIDE DEF I, m
      <4>5. \A i \in 1..(Len(I) + 1) : i \in 1..Len(I) \/ i = Len(I) + 1
        BY <4>2
      <4>6. QED
        BY <4>1, <4>2, <4>3, <4>4, <4>5
    <3>3. QED
      BY <3>1, <3>2
  <2>5. ack.id \in qemu'.resets \cup {0} /\ barrier.ok \subseteq qemu'.resets
    BY <2>1, <2>3 DEF BarrierInv
  <2>6. Below(queue'.events, barrier'.next) /\ Below(worker'.partial, barrier'.next) /\ Below(link'.out, barrier'.next)
    BY <1>2, <1>4, <2>1, <2>2 DEF BarrierInv
  <2>7. QED
    BY <1>2, <2>1, <2>3, <2>4, <2>5, <2>6 DEF BarrierInv
<1>14. QED
  BY <1>10, <1>11, <1>12, <1>13 DEF InputInv

LEMMA FillFlows ==
  ASSUME Typed, LinkInv, InputInv, Fill
  PROVE  InputInv'
<1>1. /\ queue \in Queue_ /\ worker \in Worker_ /\ queue.events \in Seq(Event_) /\ link.out \in Seq(Event_)
  BY StreamTyped DEF Typed, InputTypes, ServerTypes, Queue_, Worker_
<1>2. UNCHANGED <<link, qemu, host, barrier, ack>> /\ worker.pc = "write" /\ worker.partial = <<>>
  BY DEF Fill
<1>3. CASE queue.events = <<>>
  <2>1. UNCHANGED queue /\ worker'.pc = "call" /\ worker'.partial = worker.partial
    BY <1>1, <1>3 DEF Fill, Goto, Worker_
  <2>2. Up' => Up
    BY <1>2 DEF Up
  <2>3. QED
    BY <1>2, <2>1, <2>2, ElsewhereFlows
<1>4. CASE queue.events # <<>>
  <2> DEFINE Q == queue.events
             h == <<Q[1]>>
             R == Tail(Q)
  <2>1. /\ Q = h \o R /\ Head(Q) = Q[1] /\ Q[1] \in Event_ /\ R \in Seq(Event_) /\ h \in Seq(Event_)
    BY <1>1, <1>4, HeadThenTail
  <2>2. /\ worker'.pc = "write" /\ worker'.partial = h /\ queue'.events = R
        /\ queue'.connected = queue.connected /\ queue'.capture = queue.capture
    BY <1>1, <1>2, <1>4, <2>1 DEF Fill, Queue_, Worker_
  <2>3. Stream' = Stream
    <3>1. Stream = link.out \o (h \o R)
      <4>1. link.out \o <<>> = link.out
        BY <1>1, ConcatEmptySeq
      <4>2. Stream = (link.out \o <<>>) \o Q
        BY <1>2 DEF Stream
      <4> HIDE DEF Q, h, R
      <4>3. QED
        BY <2>1, <4>1, <4>2
    <3>2. Stream' = (link.out \o h) \o R
      <4> HIDE DEF Q, h, R
      <4>1. QED
        BY <1>2, <2>2 DEF Stream
    <3>3. (link.out \o h) \o R = link.out \o (h \o R)
      <4> DEFINE O == link.out
      <4>1. O \in Seq(Event_) /\ h \in Seq(Event_) /\ R \in Seq(Event_)
        BY <1>1, <2>1
      <4> HIDE DEF O, h, R
      <4>2. (O \o h) \o R = O \o (h \o R)
        BY <4>1, ConcatAssociative
      <4>3. QED
        BY <4>2 DEF O
    <3> HIDE DEF Q, h, R
    <3>4. QED
      BY <3>1, <3>2, <3>3
  <2>4. \A i \in DOMAIN R : i + 1 \in DOMAIN Q /\ R[i] = Q[i + 1]
    BY <1>1, <1>4
  <2>5. FlowInv /\ RestoreInv /\ BarrierInv /\ qemu'.faithful
    BY <1>2 DEF InputInv
  <2>6. queue.capture = "unset" => Among(R, CaptureKinds) = {}
    <3> HIDE DEF Q, R, h
    <3>1. queue.capture = "unset" => Among(Q, CaptureKinds) = {}
      BY <2>5 DEF RestoreInv, Q
    <3>2. QED
      BY <2>4, <3>1 DEF Among
  <2>7. FlowInv' /\ RestoreInv'
    <3>1. (Live' => Live) /\ worker'.pc # "refill" /\ worker.pc # "refill"
      BY <1>2, <2>2 DEF Live, Up
    <3> HIDE DEF Q, R, h
    <3>2. QED
      BY <1>2, <2>2, <2>3, <2>5, <2>6, <3>1, CarriedFlows
  <2>8. BarrierInv'
    <3>1. Below(Q, barrier.next) /\ Below(link.out, barrier.next)
      BY <2>5 DEF BarrierInv
    <3>2. 1 \in DOMAIN Q /\ Q[1].id < barrier.next
      <4>1. 1 \in DOMAIN Q
        BY <1>1, <1>4
      <4>2. QED
        BY <3>1, <4>1 DEF Below
    <3>3. Below(h, barrier.next)
      BY <3>2 DEF Below
    <3> HIDE DEF Q, R, h
    <3>4. Below(R, barrier.next)
      BY <2>4, <3>1 DEF Below
    <3>5. QED
      BY <1>2, <2>2, <2>5, <3>1, <3>3, <3>4 DEF BarrierInv
  <2>9. QED
    BY <2>5, <2>7, <2>8 DEF InputInv
<1>5. QED
  BY <1>3, <1>4

LEMMA WriteFlows ==
  ASSUME Typed, LinkInv, InputInv, Write
  PROVE  InputInv'
<1>1. /\ worker \in Worker_ /\ link \in Link_ /\ queue.events \in Seq(Event_) /\ link.out \in Seq(Event_)
      /\ worker.partial \in Seq(Event_)
  BY StreamTyped DEF Typed, InputTypes, ServerTypes, Link_, Worker_
<1>2. UNCHANGED <<queue, qemu, host, barrier, ack>> /\ worker.pc = "write"
  BY DEF Write, input
<1>3. CASE UNCHANGED link /\ worker'.pc \in {"drop", "call"} /\ worker'.partial = worker.partial
  <2>1. Up' => Up
    BY <1>3 DEF Up
  <2>2. QED
    BY <1>2, <1>3, <2>1, ElsewhereFlows
<1>4. CASE /\ link' = [link EXCEPT !.out = @ \o worker.partial]
           /\ worker' = [worker EXCEPT !.partial = <<>>]
  <2> DEFINE O == link.out \o worker.partial
  <2>1. O \in Seq(Event_) /\ <<>> \in Seq(Event_) /\ O \o <<>> = O
    <3>1. O \in Seq(Event_)
      BY <1>1, ConcatProperties
    <3>2. QED
      BY <3>1, ConcatEmptySeq
  <2>2. /\ link'.out = O /\ link'.state = link.state /\ link'.gone = link.gone /\ link'.in = link.in
        /\ worker'.pc = "write" /\ worker'.partial = <<>>
    BY <1>1, <1>2, <1>4 DEF Link_, Worker_
  <2>3. Stream' = Stream
    <3>1. Stream' = (O \o <<>>) \o queue.events
      <4> HIDE DEF O
      <4>1. QED
        BY <1>2, <2>2 DEF Stream
    <3>2. Stream = O \o queue.events
      BY DEF Stream
    <3> HIDE DEF O
    <3>3. QED
      BY <2>1, <3>1, <3>2
  <2>4. FlowInv /\ RestoreInv /\ BarrierInv /\ qemu'.faithful
    BY <1>2 DEF InputInv
  <2>5. FlowInv' /\ RestoreInv'
    <3>1. (Live' => Live) /\ worker'.pc # "refill" /\ worker.pc # "refill"
      BY <1>2, <2>2 DEF Live, Up
    <3>2. queue.capture = "unset" => Among(queue'.events, CaptureKinds) = {}
      BY <1>2, <2>4 DEF RestoreInv
    <3>3. QED
      BY <1>2, <2>3, <2>4, <3>1, <3>2, CarriedFlows
  <2>6. BarrierInv'
    <3> DEFINE A == link.out
               P == worker.partial
    <3>1. Below(A, barrier.next) /\ Below(P, barrier.next)
      BY <2>4 DEF BarrierInv
    <3>2. A \in Seq(Event_) /\ P \in Seq(Event_)
      BY <1>1
    <3> HIDE DEF A, P
    <3>3. ASSUME NEW i \in DOMAIN (A \o P) PROVE (A \o P)[i].id < barrier.next
      <4>1. /\ A \o P \in Seq(Event_) /\ Len(A \o P) = Len(A) + Len(P)
            /\ \A k \in 1..(Len(A) + Len(P)) : (A \o P)[k] = IF k <= Len(A) THEN A[k] ELSE P[k - Len(A)]
        BY <3>2, ConcatProperties
      <4>2. DOMAIN A = 1..Len(A) /\ DOMAIN P = 1..Len(P) /\ Len(A) \in Nat /\ Len(P) \in Nat
        BY <3>2
      <4>3. i \in 1..(Len(A) + Len(P))
        <5> DEFINE X == A \o P
        <5>1. X \in Seq(Event_) /\ Len(X) = Len(A) + Len(P) /\ i \in DOMAIN X
          BY <3>3, <4>1
        <5> HIDE DEF X
        <5>2. DOMAIN X = 1..Len(X)
          BY <5>1
        <5>3. QED
          BY <5>1, <5>2
      <4>4. CASE i <= Len(A)
        <5>1. i \in DOMAIN A /\ (A \o P)[i] = A[i]
          BY <4>1, <4>2, <4>3, <4>4
        <5>2. QED
          BY <3>1, <5>1 DEF Below
      <4>5. CASE ~(i <= Len(A))
        <5>1. i - Len(A) \in DOMAIN P /\ (A \o P)[i] = P[i - Len(A)]
          BY <4>1, <4>2, <4>3, <4>5
        <5>2. QED
          BY <3>1, <5>1 DEF Below
      <4>6. QED
        BY <4>4, <4>5
    <3>4. Below(O, barrier.next)
      BY <3>3 DEF Below, A, P
    <3>5. Below(worker'.partial, barrier.next)
      BY <2>2 DEF Below
    <3> HIDE DEF O
    <3>6. QED
      BY <1>2, <2>2, <2>4, <3>4, <3>5 DEF BarrierInv
  <2>7. QED
    BY <2>4, <2>5, <2>6 DEF InputInv
<1>5. QED
  <2>1. CASE link.gone \/ Len(link.out) = Room
    BY <1>1, <1>3, <2>1 DEF Write, Goto, Worker_
  <2>2. CASE ~(link.gone \/ Len(link.out) = Room)
    BY <1>4, <2>2 DEF Write
  <2>3. QED
    BY <2>1, <2>2

(* What leaves nobody connected. *)
LEMMA LeavingFlows ==
  ASSUME Typed, LinkInv, InputInv, Connect \/ Leave \/ DropClient \/ Clear \/ Exit \/ ExitAnnounce
  PROVE  InputInv'
<1>1. /\ queue \in Queue_ /\ worker \in Worker_ /\ link \in Link_ /\ qemu \in Qemu_ /\ ack \in Ack_
  BY DEF Typed, InputTypes, ServerTypes, Queue_, Worker_, Link_, Qemu_, Ack_
<1>2. FlowInv /\ RestoreInv /\ BarrierInv /\ qemu.faithful
  BY DEF InputInv
<1>3. UNCHANGED <<host, barrier>> /\ queue'.capture = queue.capture /\ qemu'.resets = qemu.resets
      /\ qemu'.faithful /\ ack'.id = ack.id
  <2>1. CASE Connect
    BY <1>1, <1>2, <2>1 DEF Connect, input, Qemu_
  <2>2. CASE Leave
    BY <1>1, <2>2 DEF Leave, input, NoQemu
  <2>3. CASE DropClient
    BY <1>2, <2>3 DEF DropClient, input
  <2>4. CASE Clear \/ Exit
    BY <1>1, <1>2, <2>4 DEF Clear, Exit, Queue_
  <2>5. CASE ExitAnnounce
    BY <1>1, <1>2, <2>5 DEF ExitAnnounce, Announce, Ack_
  <2>6. QED
    BY <2>1, <2>2, <2>3, <2>4, <2>5
<1>4. /\ queue'.events = queue.events \/ queue'.events = <<>>
      /\ worker'.partial = worker.partial \/ worker'.partial = <<>>
      /\ link'.out = link.out \/ link'.out = <<>>
      /\ link'.in = link.in \/ link'.in = <<>>
  <2>1. CASE Connect
    BY <1>1, <2>1 DEF Connect, input, Link_
  <2>2. CASE Leave
    BY <1>1, <2>2 DEF Leave, input, Link_
  <2>3. CASE DropClient
    BY <1>1, <2>3 DEF DropClient, NoLink, input, Worker_
  <2>4. CASE Clear
    BY <1>1, <2>4 DEF Clear, Change, Queue_, Worker_
  <2>5. CASE Exit
    BY <1>1, <2>5 DEF Exit, Goto, Queue_, Worker_
  <2>6. CASE ExitAnnounce
    BY <1>1, <2>6 DEF ExitAnnounce, Goto, NoLink, Worker_
  <2>7. QED
    BY <2>1, <2>2, <2>3, <2>4, <2>5, <2>6
<1>5. FlowInv' /\ RestoreInv'
  <2>1. CASE Exit
    <3>1. /\ worker.pc = "exit" /\ worker'.pc = "exit_announce" /\ worker'.partial = worker.partial
          /\ UNCHANGED <<link, qemu>> /\ queue'.events = queue.events /\ ~queue'.connected
      BY <1>1, <2>1 DEF Exit, Goto, Worker_, Queue_
    <3>2. Stream' = Stream /\ (Live' => Live)
      BY <3>1 DEF Stream, Live, Up
    <3>3. queue.capture = "unset" => Among(queue'.events, CaptureKinds) = {}
      BY <1>2, <3>1 DEF RestoreInv
    <3>4. QED
      BY <1>2, <1>3, <3>1, <3>2, <3>3, CarriedFlows
  <2>2. CASE Connect \/ Leave \/ DropClient \/ Clear \/ ExitAnnounce
    <3>1. ~Live' /\ worker'.pc # "refill"
      <4>1. CASE Connect
        <5>1. link.state = "none" /\ link'.state = "asking" /\ worker' = worker
          BY <1>1, <4>1 DEF Connect, Link_
        <5>2. QED
          BY <5>1 DEF LinkInv, Live, Up
      <4>2. CASE Leave
        <5>1. link.state = "up" /\ link'.gone /\ worker' = worker
          BY <1>1, <4>2 DEF Leave, Up, Link_
        <5>2. QED
          BY <5>1 DEF LinkInv, Live, Up
      <4>3. CASE DropClient
        <5>1. link'.state = "none" /\ worker'.pc = "announce_gone"
          BY <1>1, <4>3 DEF DropClient, NoLink, Worker_
        <5>2. QED
          BY <5>1 DEF Live, Up
      <4>4. CASE Clear
        <5>1. worker.pc = "clear" /\ link' = link /\ worker'.pc = "call"
          BY <1>1, <4>4 DEF Clear, Change, Worker_
        <5>2. QED
          BY <5>1 DEF LinkInv, Live, Up
      <4>5. CASE ExitAnnounce
        <5>1. link'.state = "none" /\ worker'.pc = "gone"
          BY <1>1, <4>5 DEF ExitAnnounce, NoLink, Goto, Worker_
        <5>2. QED
          BY <5>1 DEF Live, Up
      <4>6. QED
        BY <2>2, <4>1, <4>2, <4>3, <4>4, <4>5
    <3>2. qemu'.expected = "unset" \/ (qemu'.expected = qemu.expected /\ qemu'.pressed = qemu.pressed)
      BY <1>1, <2>2 DEF Connect, Leave, DropClient, Clear, ExitAnnounce, NoQemu, Qemu_
    <3>3. RestoreInv' /\ FlowInv'
      BY <1>2, <1>3, <1>4, <3>1, <3>2, DeadFlows
    <3>4. QED
      BY <3>3
  <2>3. QED
    BY <2>1, <2>2
<1>6. BarrierInv'
  <2>1. Below(<<>>, barrier.next)
    BY DEF Below
  <2>2. /\ Below(queue'.events, barrier.next) /\ Below(worker'.partial, barrier.next) /\ Below(link'.out, barrier.next)
    BY <1>2, <1>4, <2>1 DEF BarrierInv
  <2>3. \A i \in DOMAIN link'.in : link'.in[i].kind = "A" => link'.in[i].id \in qemu.resets \cup {0}
    <3>1. CASE link'.in = link.in
      BY <1>2, <3>1 DEF BarrierInv
    <3>2. CASE link'.in = <<>>
      BY <3>2
    <3>3. QED
      BY <1>4, <3>1, <3>2
  <2>4. QED
    BY <1>2, <1>3, <2>2, <2>3 DEF BarrierInv
<1>7. QED
  BY <1>3, <1>5, <1>6 DEF InputInv

LEMMA InputStarts == Init => InputInv
<1> SUFFICES ASSUME Init PROVE InputInv
  OBVIOUS
<1>1. /\ queue.events = <<>> /\ queue.capture = "unset" /\ ~queue.connected /\ worker.pc = "top"
      /\ worker.partial = <<>> /\ link.state = "none" /\ link.out = <<>> /\ link.in = <<>>
      /\ qemu.capture = "unset" /\ qemu.expected = "unset" /\ qemu.resets = {} /\ qemu.faithful
      /\ ack.id = 0 /\ barrier = [next |-> 1, waiting |-> 0, ok |-> {}]
  BY DEF Init, InputInit, NoLink, NoQemu
<1>2. ~Live
  BY <1>1 DEF Live, Up
<1>3. FlowInv
  BY <1>2 DEF FlowInv
<1>4. RestoreInv
  BY <1>1, <1>2 DEF RestoreInv, Among
<1>5. BarrierInv
  BY <1>1 DEF BarrierInv, Below
<1>6. QED
  BY <1>1, <1>3, <1>4, <1>5 DEF InputInv

LEMMA InputStep ==
  ASSUME Typed, LinkInv, InputInv, [Next]_vars
  PROVE  InputInv'
BY TrafficFlows, RefillFlows, AcceptFlows, QemuElsewhere, ProgramElsewhere, WorkerElsewhere, ReadElsewhere,
   ConsumeFlows, FillFlows, WriteFlows, LeavingFlows
   DEF Next, Qemu, Worker, Program

LEMMA InputFollows ==
  ASSUME Typed, LinkInv, InputInv
  PROVE  InputFaithful
<1>1. FlowInv /\ RestoreInv /\ BarrierInv /\ RoutedInOrder
  BY DEF InputInv, RoutedInOrder
<1>2. NoStuckButton
  <2> SUFFICES ASSUME Up, DownAfter(qemu.down, Stream) PROVE host.down
    BY DEF NoStuckButton
  <2>1. ButtonFlow(Stream, qemu.down, host.down) /\ ButtonKinds = {"btn", "reset"}
    BY <1>1 DEF FlowInv, Live, ButtonKinds
  <2>2. CASE Among(Stream, ButtonKinds) = {}
    BY <2>1, <2>2 DEF DownAfter, ButtonFlow
  <2>3. CASE Among(Stream, ButtonKinds) # {}
    <3>1. PICK i \in Last(Stream, ButtonKinds) : Stream[i].kind = "btn" /\ Stream[i].value = 1
      BY <2>1, <2>3 DEF DownAfter
    <3>2. i \in Among(Stream, ButtonKinds) /\ \A j \in Among(Stream, ButtonKinds) : j <= i
      BY <3>1 DEF Last
    <3>3. QED
      BY <2>1, <3>1, <3>2 DEF ButtonFlow
  <2>4. QED
    BY <2>2, <2>3
<1>3. RoutingRestored
  BY <1>1 DEF RestoreInv, RoutingRestored
<1>4. RoutingKnown
  <2> SUFFICES ASSUME Up, queue.connected, Stream = <<>>, ~host.overflowed PROVE qemu.capture = queue.capture
    BY DEF RoutingKnown
  <2>1. Live /\ worker.pc # "refill"
    BY DEF Live, LinkInv, Up
  <2>2. RouteFlow(Stream, queue.capture, qemu.capture)
    BY <1>1, <2>1 DEF FlowInv, Routed
  <2>3. Among(Stream, CaptureKinds) = {}
    BY DEF Among
  <2>4. QED
    BY <2>2, <2>3 DEF RouteFlow
<1>5. BarrierHonest
  BY <1>1 DEF BarrierInv, BarrierHonest
<1>6. QED
  BY <1>1, <1>2, <1>3, <1>4, <1>5 DEF InputFaithful

(* QEMU ends up holding what the user holds, and a barrier is told of its own reset. *)
THEOREM InputCorrect == Spec => []InputFaithful
<1> DEFINE IInv == ServerInv /\ InputInv
<1>1. Init => IInv
  BY ServerInit, InputStarts
<1>2. IInv /\ [Next]_vars => IInv'
  BY ServerStep, InputStep DEF ServerInv
<1>3. IInv => InputFaithful
  BY InputFollows DEF ServerInv
<1>4. QED
  BY <1>1, <1>2, <1>3, PTL DEF Spec
=============================================================================
