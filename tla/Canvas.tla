------------------------------- MODULE Canvas -------------------------------
(***************************************************************************)
(* The renderer's desktop canvas, src/presentation/desktop.rs: what it     *)
(* asks of a batch before it draws it.  Sizes, rectangles and the pixel    *)
(* budget are left out, a batch has one operation, as transport/desktop.rs *)
(* makes them.                                                             *)
(***************************************************************************)
EXTENDS Naturals

VARIABLE canvas   \* State: epoch and sequence of the last batch, mixed

CanvasInit == canvas = [epoch |-> 0, sequence |-> 0, mixed |-> FALSE]

Starts(op) == op.kind \in {"seed", "reset"}

Validates(op) ==
    IF Starts(op) THEN op.epoch > canvas.epoch /\ op.sequence = 1
    ELSE canvas.mixed /\ op.epoch = canvas.epoch /\ op.sequence = canvas.sequence + 1

(* A batch that is refused changes nothing.                                  *)
Apply(op) ==
    canvas' = IF ~Validates(op) THEN canvas
              ELSE [epoch |-> op.epoch, sequence |-> op.sequence,
                    mixed |-> CASE op.kind = "seed" -> TRUE
                                [] op.kind \in {"return", "reset"} -> FALSE
                                [] OTHER -> canvas.mixed]
=============================================================================
