----------------------------- MODULE MCRunTiming -----------------------------
(***************************************************************************)
(* An instance of the lease of a run and of the call to the model that it  *)
(* waits in, for TLC.  A cancelled context ends both; they share no other  *)
(* state, so each of them is explored while the other rests.               *)
(***************************************************************************)
EXTENDS LeaseTiming, MossPipe

(* The run is over. *)
LeaseRests ==
  /\ at = "over" /\ timer = 0
  /\ lease = LeaseLength /\ owned = TRUE /\ gone = 0
  /\ watcher = "wait" /\ tick = Interval /\ ticked = FALSE /\ age = 0

(* The model was closed. *)
PipeRests ==
  /\ exchange = "closed" /\ io = "done" /\ reply = Failed
  /\ call = MaxCalls /\ got = Failed /\ cancelled = TRUE
  /\ server = "dead" /\ serving = 0
  /\ stdin = <<>> /\ stdout = <<>>

RunInit ==
  \/ Init /\ PipeRests
  \/ LeaseRests /\ PipeInit

RunNext ==
  \/ Next /\ UNCHANGED pipeVars
  \/ PipeNext /\ UNCHANGED vars

RunSpec == RunInit /\ [][RunNext]_<<vars, pipeVars>> /\ PipeFairness
=============================================================================
