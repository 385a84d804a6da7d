------------------------- MODULE JobQueueRefinement -------------------------
(* The queue of JobQueue keeps the promises of QueueContract. *)
EXTENDS JobQueue

(* How far a job has come, read from its document. *)
StateOf(j) ==
  CASE job[j].status = "pending" -> "waiting"
    [] job[j].status = "processing" -> "running"
    [] job[j].status = "failed" -> "failed"
    [] job[j].status = "cancelled" -> "cancelled"
    [] job[j].status = "completed" /\ job[j].result # 0 -> "published"
    [] job[j].status = "completed" /\ job[j].result = 0 /\ job[j].stage = "no_speech" -> "silent"
    [] OTHER -> "hollow"

Contract == INSTANCE QueueContract WITH
  state <- [j \in Jobs |-> StateOf(j)],
  covered <- {m.job : m \in medias},
  mark <- [f \in Files |-> file[f].subtitle]

(***************************************************************************)
(* Seen through StateOf, every step of any worker, of the admin or of time *)
(* is one step of the contract, on one job, or changes nothing in it.      *)
(***************************************************************************)
KeepsContract == Contract!ContractSpec
=============================================================================
