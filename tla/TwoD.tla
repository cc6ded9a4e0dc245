-------------------------------- MODULE TwoD --------------------------------
(***************************************************************************)
(* The 2D engine, crates/dreamgpu-host/src/lib.rs: a validated batch of    *)
(* fills, copies and inversions of VRAM is executed in slices of a budget, *)
(* and its progress may be saved and restored on another host in between   *)
(* (device.rs, dreamgpu_device_restore).                                   *)
(*                                                                         *)
(* A byte of VRAM holds a number; the transfer of one chunk is QEMU's, and *)
(* a copying one is a memmove.                                             *)
(***************************************************************************)
EXTENDS Integers, Sequences, FiniteSets, FiniteSetsExt, SequencesExt

CONSTANTS Vram,      \* bytes of VRAM
          Pitch,     \* the strides of the batches
          Quantum,   \* ROW_QUANTUM
          Budgets    \* budgets of a slice

ASSUME TwoDAssumption == {Vram, Pitch, Quantum} \union Budgets \subseteq Nat \ {0}

VARIABLES batch,      \* the commands, a DMA snapshot
          vram,       \* offset -> byte
          progress,   \* command, row and column, migrated
          whole       \* what VRAM holds once the commands are done one after the other

twoDVars == <<batch, vram, progress, whole>>

Offsets == 0..(Vram - 1)
Painted(b) == -1
Inverted(b) == 0 - b

-----------------------------------------------------------------------------
(* Command::rect and validate.                                               *)

RowBytes(c) == c.width * c.bpp
RectFits(c, offset, stride) ==
    /\ RowBytes(c) <= stride /\ offset % c.bpp = 0 /\ stride % c.bpp = 0
    /\ offset + (c.height - 1) * stride + RowBytes(c) <= Vram
ValidBatch(c) == RectFits(c, c.dst, c.ds) /\ (c.op = "copy" => RectFits(c, c.src, c.ds))

Commands == {c \in [op : {"fill", "copy", "invert"}, bpp : {1, 2}, src : Offsets, dst : Offsets,
                    ds : Pitch..Pitch, width : 1..Pitch, height : 1..3] :
                ValidBatch(c) /\ (c.op # "copy" => c.src = 0)}
Second == {c \in Commands : c.op # "fill" /\ c.bpp = 1 /\ c.dst = 1 /\ c.height = 2}

(* The command as one step: it reads all of its source before it writes.     *)
Target(c) == {c.dst + y * c.ds + x : y \in 0..(c.height - 1), x \in 0..(RowBytes(c) - 1)}
Done(c, v) == [o \in Offsets |->
    IF o \notin Target(c) THEN v[o]
    ELSE CASE c.op = "fill" -> Painted(v[o])
           [] c.op = "copy" -> v[c.src + (o - c.dst)]
           [] c.op = "invert" -> Inverted(v[o])]

Batches == {<<c>> : c \in Commands} \union {<<c, d>> : c \in Commands, d \in Second}

TwoDInit ==
    /\ batch \in Batches
    /\ vram = [o \in Offsets |-> o + 2]
    /\ progress = [command |-> 0, row |-> 0, column |-> 0]
    /\ whole = FoldLeft(LAMBDA v, c : Done(c, v), vram, batch)

-----------------------------------------------------------------------------
(* A copy towards higher addresses starts at its last row and column.  The   *)
(* faulty variant reverses the rows only when the rectangle moves down.      *)
BackwardsRows(c) == c.op = "copy" /\ c.dst >= c.src + c.ds
Backwards(c) == c.op = "copy" /\ c.dst > c.src

(* execute's loop from a state s of VRAM, progress, bytes left and chunks.   *)
Chunk(c, s, n) ==
    LET y == IF Backwards(c) THEN c.height - 1 - s.at.row ELSE s.at.row
        x == IF Backwards(c) THEN RowBytes(c) - s.at.column - n ELSE s.at.column
    IN Done([c EXCEPT !.src = @ + y * c.ds + x, !.dst = @ + y * c.ds + x,
                      !.height = 1, !.width = n \div c.bpp], s.vram)

Advanced(c, at, n) ==
    IF at.column + n < RowBytes(c) THEN [at EXCEPT !.column = @ + n]
    ELSE IF at.row + 1 < c.height THEN [at EXCEPT !.row = @ + 1, !.column = 0]
    ELSE [command |-> at.command + 1, row |-> 0, column |-> 0]

Finished(at) == at.command = Len(batch)
LoopStep(s) ==
    IF s.stopped \/ Finished(s.at) \/ s.left = 0 THEN s
    ELSE LET c == batch[s.at.command + 1]
             room == Min({RowBytes(c) - s.at.column, s.left})
             n == room - (room % c.bpp)
         IN IF n = 0 THEN [s EXCEPT !.stopped = TRUE]
            ELSE [s EXCEPT !.vram = Chunk(c, s, n), !.at = Advanced(c, s.at, n), !.left = @ - n]

Execute == \E budget \in Budgets :
    LET end == FoldLeft(LAMBDA s, k : LoopStep(s),
                        [vram |-> vram, at |-> progress, left |-> budget, stopped |-> FALSE],
                        [k \in 1..Quantum |-> k])
    IN /\ ~Finished(progress)
       /\ vram' = end.vram /\ progress' = end.at
       /\ UNCHANGED <<batch, whole>>

TwoDNext == Execute

-----------------------------------------------------------------------------
TwoDTypeOK ==
    /\ Len(batch) \in 1..2 /\ \A k \in DOMAIN batch : batch[k] \in Commands
    /\ vram \in [Offsets -> Int]
    /\ progress \in [command : 0..2, row : 0..2, column : 0..Pitch]

(* Whatever the budgets of its slices, a batch does what its commands do one *)
(* after the other, each at once: overlapping copies are moves.              *)
SlicesCompose == Finished(progress) => vram = whole

(* lib.rs 179-196, device.rs 171-189: between two slices the progress is     *)
(* always one that execute and a migration's restore accept.                 *)
ProgressRestores == Finished(progress) \/
    LET c == batch[progress.command + 1]
    IN /\ progress.row < c.height
       /\ progress.column < RowBytes(c) /\ progress.column % c.bpp = 0

(* What the caller that slices the work, and migrates between, relies on.    *)
SlicesSound == SlicesCompose /\ ProgressRestores
=============================================================================
