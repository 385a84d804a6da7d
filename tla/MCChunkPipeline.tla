--------------------------- MODULE MCChunkPipeline ---------------------------
(***************************************************************************)
(* An instance of the chunk pipeline for TLC.                              *)
(***************************************************************************)
EXTENDS ChunkPipeline, TLC

CONSTANTS a1, s1, s2

(* One chunk that can be split twice, or two that can be split once, like its halves. *)
OneAudio == a1 :> 64
TwoSettings == s1 :> 64 @@ s2 :> 32

Plain == [segments |-> "clean", words |-> TRUE, truncated |-> FALSE, error |-> FALSE, retryable |-> FALSE]
Quiet == [Plain EXCEPT !.segments = "none", !.words = FALSE]
Mumbled == [Plain EXCEPT !.segments = "none"]
Looped == [Plain EXCEPT !.segments = "repeated"]
Spilled == [Plain EXCEPT !.segments = "outside"]
CutOff == [Quiet EXCEPT !.truncated = TRUE]
Broken == [Quiet EXCEPT !.error = TRUE]
OutOfMemory == [Broken EXCEPT !.retryable = TRUE]

OneOfEachKind == {Plain, Quiet, Mumbled, Looped, Spilled, CutOff, Broken, OutOfMemory}

(* Processes differ by nothing, and the run checks no liveness. *)
ProcessSymmetry == Permutations(Processes)
=============================================================================
