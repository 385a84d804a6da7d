----------------------------- MODULE MCJobQueue -----------------------------
(* Small instances of JobQueue for TLC. *)
EXTENDS JobQueueRefinement, TLC

CONSTANTS j1, j2, f1, w1, w2, shared_id

(* All jobs are about one file; j1 comes first in the sort. *)
OneFile == [j \in Jobs |-> f1]
FirstJobFirst == [j \in Jobs |-> IF j = j1 THEN 1 ELSE 2]

(* Each process has its own ID, or two machines share one by mistake. *)
OwnIds == [w \in Workers |-> w]
SharedId == [w \in Workers |-> shared_id]

(* Workers differ by nothing, and no liveness run uses this. *)
WorkerSymmetry == Permutations(Workers)
=============================================================================
