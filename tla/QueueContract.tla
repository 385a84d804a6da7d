---------------------------- MODULE QueueContract ----------------------------
(***************************************************************************)
(* What the production queue promises, with no word of workers, leases,    *)
(* tokens, uploads or failed calls: each job waits, runs and ends in one   *)
(* of a few ways, and the media of a job and the mark of its file appear   *)
(* exactly when the job ends that way.  A takeover of a running job by     *)
(* another worker is invisible here.                                       *)
(***************************************************************************)
CONSTANTS Jobs, Files, FileOf

VARIABLES
  state,     \* how far each job has come
  covered,   \* the jobs that have a media document
  mark       \* the subtitleProcessingStatus of each file

contractVars == <<state, covered, mark>>

ContractInit ==
  /\ state \in [Jobs -> {"waiting", "cancelled"}]
  /\ covered = {}
  /\ mark = [f \in Files |-> "none"]

Move(j, from, to) == /\ state[j] \in from
                     /\ state' = [state EXCEPT ![j] = to]

(* The job is claimed, or given back by a worker that shuts down. *)
Begin(j) == Move(j, {"waiting"}, "running") /\ UNCHANGED <<covered, mark>>
GiveBack(j) == Move(j, {"running"}, "waiting") /\ UNCHANGED <<covered, mark>>

(* Its subtitles are published: one media, one mark, all at once. *)
Publish(j) == /\ Move(j, {"running"}, "published")
              /\ j \notin covered
              /\ covered' = covered \cup {j}
              /\ mark' = [mark EXCEPT ![FileOf[j]] = "completed"]

(* Nobody speaks: the file is marked, and there is no media. *)
Silence(j) == /\ Move(j, {"running"}, "silent")
              /\ mark' = [mark EXCEPT ![FileOf[j]] = "no_speech"]
              /\ UNCHANGED covered

(* The run fails, or a shutdown races its settlement. *)
GiveUp(j) == Move(j, {"running"}, "failed") /\ UNCHANGED <<covered, mark>>
Hollow(j) == Move(j, {"running"}, "hollow") /\ UNCHANGED <<covered, mark>>

(* The admin cancels or retries it. *)
Cancel(j) == Move(j, {"waiting", "running"}, "cancelled") /\ UNCHANGED <<covered, mark>>
Retry(j) == Move(j, {"failed", "cancelled"}, "waiting") /\ UNCHANGED <<covered, mark>>

ContractNext ==
  \E j \in Jobs : \/ Begin(j) \/ GiveBack(j) \/ Publish(j) \/ Silence(j)
                  \/ GiveUp(j) \/ Hollow(j) \/ Cancel(j) \/ Retry(j)

ContractSpec == ContractInit /\ [][ContractNext]_contractVars
=============================================================================
