----------------------------- MODULE InputQueue -----------------------------
(***************************************************************************)
(* Input events on their way to QEMU, src/shmem/input.rs: the bounded      *)
(* queue with coalescing and overflow, retained host state, and the reset  *)
(* barrier a caller waits for.                                             *)
(***************************************************************************)
EXTENDS Integers, Sequences

CONSTANTS Capacity,      \* of the queue
          MaxSends,      \* bound on events sent
          MaxSets,       \* bound on changes of capture and refresh rate
          MaxBarriers    \* bound on reset_and_wait

ASSUME InputAssumption == Capacity \in Nat \ {0, 1} /\ {MaxSends, MaxSets, MaxBarriers} \subseteq Nat

VARIABLES queue,         \* struct InputQueue
          ack,           \* acknowledgments: last barrier and connected
          wake,          \* a byte waits in the wake socket
          barrier,       \* next_barrier, the waiting call, what the last one was told
          host           \* history: events and settings sent, motion sent, button down, overflowed

input == <<queue, ack, wake, barrier, host>>

InputInit ==
    /\ queue = [events |-> <<>>, connected |-> FALSE, refresh |-> 0, capture |-> "unset"]
    /\ ack = [id |-> 0, connected |-> FALSE]
    /\ wake = FALSE
    /\ barrier = [next |-> 1, waiting |-> 0, ok |-> {}]
    /\ host = [sent |-> 0, sets |-> 0, moved |-> 0, down |-> FALSE, overflowed |-> FALSE]

(* An event: its motion, button state, refresh rate or capture, a barrier    *)
(* id, and the motion sent before it.                                        *)
Event(kind, value, id) == [kind |-> kind, value |-> value, id |-> id, moved |-> host.moved]
ResetEvent(id) == Event("reset", 0, id)

(* InputQueue::push.  Consecutive motion is merged; an overflow discards     *)
(* everything and resets the emulator before the new event.                  *)
Merges(tail, e) == tail.kind = e.kind /\ e.kind \in {"rel", "abs"}

Overflows(events, e) == Len(events) >= Capacity

(* Faulty variant: the oldest event makes room.                              *)
PushedOver(events, e) ==
    IF Overflows(events, e) THEN Append(Tail(events), e) ELSE Append(events, e)

PushedOn(events, e) ==
    LET n == Len(events)
    IN IF n > 0 /\ Merges(events[n], e)
         THEN [events EXCEPT ![n] = [e EXCEPT !.value = IF e.kind = "rel" THEN @ + events[n].value
                                                        ELSE @]]
       ELSE IF Overflows(events, e) THEN <<ResetEvent(0), e>>
       ELSE Append(events, e)

Lost(e) == /\ Overflows(queue.events, e)
           /\ ~(queue.events # <<>> /\ Merges(queue.events[Len(queue.events)], e))

(* InputSender::send, with the wake it decides on.  The faulty variant wakes *)
(* only for the first event ever.                                            *)
WakesFirst(events) == wake \/ host.sent = 0
Wakes(events) == wake \/ events = <<>>

Send(e) ==
    IF ~queue.connected THEN UNCHANGED <<queue, wake, host>>
    ELSE /\ queue' = [queue EXCEPT !.events = PushedOn(@, e)]
         /\ wake' = Wakes(queue.events)
         /\ host' = [host EXCEPT !.sent = @ + 1,
                                 !.moved = IF e.kind = "rel" THEN @ + e.value ELSE @,
                                 !.down = IF e.kind = "btn" THEN e.value = 1 ELSE @,
                                 !.overflowed = @ \/ Lost(e)]

SendMotion(kind) ==
    /\ host.sent < MaxSends /\ Send(Event(kind, 1, 0)) /\ UNCHANGED <<ack, barrier>>
SendButton ==
    /\ host.sent < MaxSends /\ Send(Event("btn", IF host.down THEN 0 ELSE 1, 0))
    /\ UNCHANGED <<ack, barrier>>

SetHost(q, e) ==
    /\ host.sets < MaxSets
    /\ queue' = IF queue.connected THEN [q EXCEPT !.events = PushedOn(@, e)] ELSE q
    /\ host' = [host EXCEPT !.sets = @ + 1, !.overflowed = @ \/ (queue.connected /\ Lost(e))]
    /\ wake' = TRUE
    /\ UNCHANGED <<ack, barrier>>

SetMouseCapture == \E captured \in {"abs", "rel"} :
    SetHost([queue EXCEPT !.capture = captured], Event("capture", captured, 0))
SetHostRefresh == \E rate \in 1..2 :
    /\ rate # queue.refresh
    /\ SetHost([queue EXCEPT !.refresh = rate], Event("refresh", rate, 0))

(* connection_changed, its part under the queue lock and its notification.   *)
CaptureFirst(events, e) == <<e>> \o events

Reconnected ==
    LET e == IF queue.refresh = 0 THEN queue.events
             ELSE PushedOn(queue.events, Event("refresh", queue.refresh, 0))
        f == IF Len(e) >= Capacity THEN <<ResetEvent(0)>> ELSE e
    IN queue' = IF queue.capture = "unset" THEN [queue EXCEPT !.events = e]
                ELSE [queue EXCEPT !.events = CaptureFirst(f, Event("capture", queue.capture, 0))]

Announce(connected) == ack' = [ack EXCEPT !.connected = connected]

(* acknowledge: only barriers carry an id.                                   *)
Acknowledge(id) == ack' = IF id = 0 THEN ack ELSE [ack EXCEPT !.id = id]

(* reset_and_wait.                                                           *)
ResetAndWait ==
    /\ barrier.waiting = 0 /\ barrier.next <= MaxBarriers
    /\ Send(ResetEvent(barrier.next))
    /\ barrier' = [barrier EXCEPT !.waiting = barrier.next, !.next = @ + 1]
    /\ UNCHANGED ack

Answered == ack.id >= barrier.waiting

WaitEnds == \E timed_out \in BOOLEAN :
    /\ barrier.waiting # 0
    /\ ~ack.connected \/ Answered \/ timed_out
    /\ barrier' = [barrier EXCEPT
         !.waiting = 0,
         !.ok = IF ack.connected /\ (~timed_out \/ Answered) THEN @ \union {barrier.waiting} ELSE @]
    /\ UNCHANGED <<queue, ack, wake, host>>
=============================================================================
