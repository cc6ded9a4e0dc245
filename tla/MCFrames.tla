------------------------------ MODULE MCFrames ------------------------------
(***************************************************************************)
(* Small instances of image publication for TLC.                           *)
(***************************************************************************)
EXTENDS Frames, TLC

CONSTANTS d1, d2, d3, d4

OneDrawable == {d1}
FourNames   == {d1, d2, d3, d4}

(* Two guests in one run: one drawable, retained images and desktop records  *)
(* of every kind; or one drawable after the other, each with a new name,     *)
(* whose frames are shown and whose drops are the only records.              *)
Presented == {slots[i].image : i \in {j \in Index : slots[j].generation # 0}}
OnlyDrops == /\ stream.epoch = 0 /\ desktop.next_epoch = 1
             /\ \A k \in DOMAIN output.items :
                  ~output.items[k].slot => output.items[k].op.kind = "drop"
NewNames == LET name == <<d1, d2, d3, d4>>
            IN \A k \in DOMAIN name : drawables[name[k]].live => k = next_epoch
TwoGuests ==
    /\ NewNames
    /\ \/ next_epoch <= 1 /\ Presented \subseteq {"retained"}
       \/ OnlyDrops /\ Presented \subseteq {"frame"}
=============================================================================
