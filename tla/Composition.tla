----------------------------- MODULE Composition -----------------------------
(***************************************************************************)
(* Composition of the desktop on the host,                                 *)
(* crates/dreamgpu-host/src/composition.rs: desktop commands take the      *)
(* scanout from the guest's VRAM (seed), draw it on the GPU, and give it   *)
(* back (return), as packets numbered within an epoch.                     *)
(*                                                                         *)
(* The callbacks are the platform's: a capture, a readback or a queue      *)
(* sends its packet or refuses it; a refusal as of another generation      *)
(* means that a reset is on its way (submission.rs 310-324).               *)
(***************************************************************************)
EXTENDS Integers, Sequences, FiniteSets

CONSTANTS Regions,       \* the desktop's regions
          Modes,         \* its sizes and formats
          MaxDesktops,   \* bound on epochs
          MaxPackets     \* bound on packets of an epoch

ASSUME CompositionAssumption == MaxDesktops \in Nat \ {0} /\ MaxPackets \in Nat \ {0}

VARIABLES desk,      \* State
          gpuOnly,   \* regions whose newest pixels only the GPU has
          sent,      \* the last packet on the wire: epoch and sequence
          engine     \* "runs", "resets": a batch was refused as stale, or "failed"

compositionVars == <<desk, gpuOnly, sent, engine>>

CompositionInit ==
    /\ desk = [epoch |-> 0, sequence |-> 0, mode |-> "none", active |-> FALSE, coherent |-> FALSE]
    /\ gpuOnly = {} /\ sent = [epoch |-> 0, sequence |-> 0] /\ engine = "runs"

Results == {"sent", "stale", "refused"}

(* A command of the desktop takes the next number, a seed the first of the   *)
(* next epoch; rollback gives it back.  The faulty variant does not.         *)
Numbered == [desk EXCEPT !.sequence = @ + 1]
Seeded(mode) == [desk EXCEPT !.epoch = @ + 1, !.sequence = 1, !.mode = mode]
RollbackNot(d) == d
Rollback(d) == [d EXCEPT !.sequence = @ - 1]

OnWire(d, result) ==
    sent' = IF result = "sent" THEN [epoch |-> d.epoch, sequence |-> d.sequence] ELSE sent
Ends(result) ==
    engine' = CASE result = "stale" -> "resets" [] result = "refused" -> "failed" [] OTHER -> engine

Admits(mode) == desk.active /\ desk.mode = mode

-----------------------------------------------------------------------------
(* Captures of VRAM.  A capture that is refused for another reason than a    *)
(* reset leaves the engine running: its command is undone.                   *)
Captured(d, result, then) ==
    /\ desk' = IF result = "sent" THEN then ELSE Rollback(d)
    /\ OnWire(d, result)
    /\ engine' = IF result = "stale" THEN "resets" ELSE engine

Seed == \E mode \in Modes, result \in Results :
    /\ ~desk.active /\ desk.epoch < MaxDesktops
    /\ Captured(Seeded(mode), result, [Seeded(mode) EXCEPT !.active = TRUE, !.coherent = TRUE])
    /\ gpuOnly' = IF result = "sent" THEN {} ELSE gpuOnly

Patch == \E mode \in Modes, at \in SUBSET Regions, result \in Results :
    /\ Admits(mode)
    /\ Captured(Numbered, result, Numbered)
    /\ gpuOnly' = IF result = "sent" THEN gpuOnly \ at ELSE gpuOnly

Return == \E mode \in Modes, result \in Results :
    /\ Admits(mode) /\ desk.coherent
    /\ Captured(Numbered, result, [Numbered EXCEPT !.active = FALSE, !.coherent = FALSE])
    /\ UNCHANGED gpuOnly

(* Fill, Copy, and Blit of a retained image: drawn on the GPU.  A packet     *)
(* that is refused still ends the coherence.                                 *)
DrawDesktop == \E mode \in Modes, at \in SUBSET Regions, result \in Results :
    /\ Admits(mode)
    /\ desk' = [Numbered EXCEPT !.coherent = FALSE]
    /\ gpuOnly' = IF result = "sent" THEN gpuOnly \union at ELSE gpuOnly
    /\ OnWire(Numbered, result) /\ Ends(result)

(* Readback of a rectangle; only that of the whole makes the desktop         *)
(* coherent.                                                                 *)
CoherentAfter(at) == desk.coherent \/ at = Regions
Readback == \E mode \in Modes, at \in SUBSET Regions, result \in Results :
    /\ Admits(mode)
    /\ desk' = [Numbered EXCEPT !.coherent = IF result = "sent" THEN CoherentAfter(at) ELSE @]
    /\ gpuOnly' = IF result = "sent" THEN gpuOnly \ at ELSE gpuOnly
    /\ OnWire(Numbered, result) /\ Ends(result)

(* A detached discard has no number and leaves the desktop as it is.         *)
Discard == \E result \in Results : Ends(result) /\ UNCHANGED <<desk, gpuOnly, sent>>

(* The reset of the domain: the guest starts again from its VRAM.            *)
ResetDesktop ==
    /\ engine # "failed" /\ engine' = "runs"
    /\ desk' = [desk EXCEPT !.active = FALSE, !.coherent = FALSE]
    /\ gpuOnly' = {} /\ UNCHANGED sent

CompositionNext ==
    \/ engine = "runs" /\ (Seed \/ Discard)
    \/ engine = "runs" /\ desk.sequence < MaxPackets /\ (Patch \/ Return \/ DrawDesktop \/ Readback)
    \/ ResetDesktop

-----------------------------------------------------------------------------
CompositionTypeOK ==
    /\ desk \in [epoch : 0..MaxDesktops, sequence : 0..MaxPackets, mode : Modes \union {"none"},
                 active : BOOLEAN, coherent : BOOLEAN]
    /\ gpuOnly \subseteq Regions
    /\ sent \in [epoch : 0..MaxDesktops, sequence : 0..MaxPackets]
    /\ engine \in {"runs", "resets", "failed"}

(* Within an epoch the wire has every number once and in order, and an epoch *)
(* starts at its seed, whichever captures, draws or readbacks are refused:   *)
(* what the receiver of transport/desktop.rs 195-217 insists on.             *)
WireConsecutive == [][sent' # sent =>
    \/ sent'.epoch = sent.epoch /\ sent'.sequence = sent.sequence + 1
    \/ sent'.epoch > sent.epoch /\ sent'.sequence = 1]_compositionVars

(* A desktop that calls itself coherent, and so may be returned to VRAM, has *)
(* no pixels that only the GPU has.                                          *)
CoherentIsWhole == desk.coherent => gpuOnly = {}

(* What the SDK and the guest's VRAM rely on.                                *)
DesktopSound == []CoherentIsWhole /\ WireConsecutive
=============================================================================
