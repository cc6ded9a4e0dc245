---------------------------- MODULE LeaseContract ----------------------------
(***************************************************************************)
(* What every exchange of buffers of this system promises: a buffer is     *)
(* written by its producer, then read by its consumer, then given back;    *)
(* the producer writes it again only after the consumer returned it and    *)
(* the producer learnt of that.                                            *)
(***************************************************************************)
CONSTANT Buffer
VARIABLE holder   \* Buffer -> who may touch it

LeaseInit == holder = [b \in Buffer |-> "free"]

(* A producer may give up what it wrote, or write to a consumer that is gone. *)
Handover == {<<"free", "written">>, <<"written", "read">>, <<"read", "returned">>,
             <<"returned", "free">>, <<"written", "free">>, <<"written", "returned">>}

LeaseNext == \A b \in Buffer : \/ holder'[b] = holder[b]
                               \/ <<holder[b], holder'[b]>> \in Handover

LeaseSpec == LeaseInit /\ [][LeaseNext]_holder
=============================================================================
