------------------------------ MODULE PixelImage ------------------------------
(***************************************************************************)
(* An image the guest sends in fragments,                                  *)
(* crates/dreamgpu-host/src/pixel_image.rs: assembled under one identity,  *)
(* charged against a budget, drawn once when whole.  The pixels are units  *)
(* numbered from 0; a fragment carries n of them from "at" on.             *)
(***************************************************************************)
EXTENDS Integers, Sequences, FiniteSets

CONSTANT ImageLimit   \* LIMIT, in units of memory

ASSUME ImageAssumption == ImageLimit \in Nat

(* Flags of a fragment.                                                      *)
Only == {"first", "last"}
Fragment(id, total, at, n, flags) ==
    [kind |-> "image", id |-> id, total |-> total, at |-> at, n |-> n, flags |-> flags]

EmptyImage(last) == [active |-> FALSE, total |-> 0, received |-> 0, id |-> 0, last_id |-> last]

(* validate.                                                                 *)
ValidFragment(f) ==
    /\ f.id # 0 /\ f.at <= f.total
    /\ f.flags = {"abort"} => f.n = 0
    /\ "abort" \notin f.flags =>
         /\ f.n <= f.total - f.at
         /\ "first" \in f.flags => f.at = 0
         /\ "last" \in f.flags => f.at + f.n = f.total
         /\ f.n = 0 => (f.total = 0 /\ f.flags = Only)

(* What a call works on: the image, the bytes charged, what it drew and the  *)
(* error it returns.                                                         *)
Released(w) ==
    [w EXCEPT !.image = EmptyImage(@.last_id),
              !.bytes = @ - (IF w.image.active THEN w.image.total ELSE 0)]
Fail(w, code) == [w EXCEPT !.error = code]

(* interleave: any other command ends an image under way.                    *)
Interleaved(w) == IF w.image.active THEN Fail(Released(w), "context") ELSE w

(* stream.                                                                   *)
Admitted(w, f) == ~w.image.active /\ f.id > w.image.last_id
Continues(w, f) == w.image.total = f.total /\ w.image.received = f.at

Opened(w, f) ==
    [w EXCEPT !.bytes = @ + f.total,
              !.image = [active |-> TRUE, total |-> f.total, received |-> 0, id |-> f.id,
                         last_id |-> f.id]]
Taken(w, f) ==
    LET v == [w EXCEPT !.image.received = @ + f.n]
        drawn == [id |-> v.image.id, total |-> v.image.total, received |-> v.image.received]
    IN IF "abort" \in f.flags THEN Released(w)
       ELSE IF "last" \in f.flags THEN [Released(v) EXCEPT !.drawn = Append(@, drawn)]
       ELSE v

Streamed(w, f, refused) ==
    LET mine == w.image.active /\ w.image.id = f.id
        first == "first" \in f.flags
    IN IF ~ValidFragment(f) THEN Fail(IF mine /\ ~first THEN Released(w) ELSE w, "batch")
       ELSE IF first
         THEN IF ~Admitted(w, f) THEN Fail(w, "context")
              ELSE IF w.bytes + f.total > ImageLimit \/ (f.total # 0 /\ refused)
                THEN Fail(w, "limit")
              ELSE Taken(Opened(w, f), f)
       ELSE IF ~mine THEN Fail(w, "context")
       ELSE IF ~Continues(w, f) THEN Fail(Released(w), "batch")
       ELSE Taken(w, f)
=============================================================================
