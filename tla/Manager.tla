------------------------------- MODULE Manager -------------------------------
(***************************************************************************)
(* The dashboard manager of one process: the loop that owns the MOSS model,*)
(* the handlers that submit retries and tests, the goroutine that copies   *)
(* the model's log, and the heartbeat.  They share m.state under m.mu, the *)
(* channel m.actions and the signal m.changed.                             *)
(*                                                                         *)
(* Every critical section of m.mu is one action, guarded by Free; only     *)
(* submit can block inside of its own, on a full channel of actions.       *)
(***************************************************************************)
EXTENDS Sequences, Naturals

CONSTANT Requests    \* what clients submit: "retry" (POST /api/retry), "test" (/api/test)

ASSUME RequestsAssumption == Requests \subseteq {"retry", "test"}

VARIABLES
  phase, ready,   \* m.state.Phase and m.state.Ready
  claiming,       \* m.claiming
  actions,        \* the channel of actions, of capacity one
  sending,        \* the request whose submit holds m.mu and waits to send, or "none"
  changed,        \* the channel m.changed, of capacity one
  owing,          \* the loop has updated the state and not signalled it yet
  loop, after,    \* where m.run is, and where it goes after closing the runner
  runner,         \* runner # nil
  child,          \* the MOSS process
  pending,        \* its stderr has something that is not in the log yet
  stopping,       \* the context of the process is cancelled
  heartbeat,      \* where m.heartbeat is
  snap,           \* the worker status it is about to publish
  published       \* the status of its last publication, or "failed"

state == <<phase, ready, claiming>>
channel == <<actions, sending>>
signal == <<changed, owing>>
model == <<runner, child, pending>>
beat == <<heartbeat, snap, published>>
vars == <<state, channel, signal, loop, after, model, stopping, beat>>

Phases == {"checking", "installing", "ready", "busy", "error", "offline"}
Afters == {"reset", "select", "unclaim", "offline"}
LoopPlaces == Afters \cup
  {"install", "bootstrap", "loading", "unavailable", "test", "testPing", "ping",
   "claim", "job", "jobPing", "kill", "reap", "done"}

(* heartbeatFields *)
Statuses == {"paused", "idle", "busy", "offline"}
Status ==
  IF phase = "offline" THEN "offline"
  ELSE IF ready /\ phase = "ready" THEN "idle"
  ELSE IF ready /\ phase = "busy" THEN "busy" ELSE "paused"

TypeOK ==
  /\ phase \in Phases /\ ready \in BOOLEAN /\ claiming \in BOOLEAN
  /\ actions \in {<<>>} \cup {<<r>> : r \in Requests}
  /\ sending \in Requests \cup {"none"}
  /\ changed \in BOOLEAN /\ owing \in BOOLEAN
  /\ loop \in LoopPlaces /\ after \in Afters
  /\ runner \in BOOLEAN
  /\ child \in {"none", "running", "killed"}
  /\ pending \in BOOLEAN
  /\ stopping \in BOOLEAN
  /\ heartbeat \in {"start", "select", "publish", "last", "report", "reportLast", "done"}
  /\ snap \in Statuses /\ published \in Statuses \cup {"failed"}

Init ==
  /\ phase = "checking" /\ ready = FALSE /\ claiming = FALSE
  /\ actions = <<>> /\ sending = "none" /\ changed = FALSE /\ owing = FALSE
  /\ loop = "install" /\ after = "reset"
  /\ runner = FALSE /\ child = "none" /\ pending = FALSE
  /\ stopping = FALSE
  /\ heartbeat = "start" /\ snap = "paused" /\ published = "failed"

(* m.mu is free. *)
Free == sending = "none"

(* m.update sets the state under m.mu; the signal follows when m.mu is free again. *)
Update(p, r) ==
  /\ Free
  /\ phase' = p /\ ready' = r /\ owing' = TRUE
  /\ UNCHANGED <<claiming, channel, changed, beat, stopping>>

(* m.changed is of capacity one, and a signal that finds it full is dropped. *)
Signal ==
  /\ owing
  /\ owing' = FALSE /\ changed' = TRUE
  /\ UNCHANGED <<state, channel, loop, after, model, beat, stopping>>

Step(from, to) == loop = from /\ loop' = to

(* The loop goes on, calling m.update or the log with the same state. *)
Quietly(from, to) ==
  /\ Step(from, to)
  /\ Update(phase, ready)
  /\ UNCHANGED <<after, model>>

-----------------------------------------------------------------------------
(* The log. *)

(* The model, or a command of the setup, writes to its stderr. *)
Output ==
  /\ child = "running" /\ ~pending
  /\ pending' = TRUE
  /\ UNCHANGED <<state, channel, signal, loop, after, runner, child, stopping, beat>>

(* The goroutine of exec.Cmd copies it to the log, m.Write. *)
WriteLog ==
  /\ pending /\ Free
  /\ pending' = FALSE
  /\ UNCHANGED <<state, channel, signal, loop, after, runner, child, stopping, beat>>

-----------------------------------------------------------------------------
(* Requests. *)

Accept(r) ==
  /\ IF actions = <<>>
       THEN actions' = <<r>> /\ changed' = TRUE /\ UNCHANGED sending
       ELSE sending' = r /\ UNCHANGED <<actions, changed>>
  /\ UNCHANGED <<claiming, owing, loop, after, model, stopping, beat>>

SubmitRetry ==
  /\ "retry" \in Requests /\ Free
  /\ phase = "error"
  /\ phase' = "checking" /\ ready' = FALSE
  /\ Accept("retry")

SubmitTest ==
  /\ "test" \in Requests /\ Free
  /\ phase = "ready" /\ ready /\ ~claiming
  /\ phase' = "busy" /\ UNCHANGED ready
  /\ Accept("test")

(* A blocked submit sends its request and releases m.mu. *)
Send ==
  /\ sending # "none" /\ actions = <<>>
  /\ actions' = <<sending>> /\ sending' = "none" /\ changed' = TRUE
  /\ UNCHANGED <<state, owing, loop, after, model, stopping, beat>>

-----------------------------------------------------------------------------
(* The loop: closing and installing the model. *)

(* Mutant: the loop exits without closing the runner. *)
ExitWithoutClosing(from, next) ==
  /\ loop = from
  /\ IF runner /\ next # "offline"
       THEN loop' = "kill" /\ after' = next ELSE loop' = next /\ UNCHANGED after
  /\ UNCHANGED <<state, channel, signal, model, stopping, beat>>

CloseThen(from, next) ==
  /\ loop = from
  /\ IF runner THEN loop' = "kill" /\ after' = next ELSE loop' = next /\ UNCHANGED after
  /\ UNCHANGED <<state, channel, signal, model, stopping, beat>>

(* runner.Close kills the process, then waits for the copy of its log. *)
Kill ==
  /\ Step("kill", "reap")
  /\ child' = "killed"
  /\ UNCHANGED <<state, channel, signal, after, runner, pending, stopping, beat>>

Reap ==
  /\ Step("reap", after)
  /\ ~pending
  /\ child' = "none" /\ runner' = FALSE
  /\ UNCHANGED <<state, channel, signal, after, pending, stopping, beat>>

Reset ==
  /\ Step("reset", "bootstrap") /\ Update("checking", FALSE)
  /\ UNCHANGED <<after, model>>

(* The setup reports a step, runs its command or starts the model. *)
Bootstrap ==
  /\ Step("bootstrap", "loading") /\ Update("installing", ready)
  /\ child' = "running"
  /\ UNCHANGED <<after, runner, pending>>

Loaded ==
  /\ Step("loading", "select") /\ Update("ready", TRUE)
  /\ runner' = TRUE
  /\ UNCHANGED <<after, child, pending>>

(* The setup fails; what it started is killed and its log copied. *)
SetupFails ==
  /\ loop \in {"bootstrap", "loading"} /\ loop' = "select"
  /\ ~pending /\ child' = "none"
  /\ Update("error", FALSE)
  /\ UNCHANGED <<after, runner, pending>>

-----------------------------------------------------------------------------
(* The loop: its select, tests and production jobs. *)

Exit == stopping /\ CloseThen("select", "offline")

TakeAction ==
  /\ loop = "select" /\ actions # <<>>
  /\ actions' = <<>>
  /\ loop' = IF actions[1] = "retry" THEN "install" ELSE IF runner THEN "test" ELSE "unavailable"
  /\ UNCHANGED <<state, sending, signal, after, model, stopping, beat>>

Install == CloseThen("install", "reset")

Unavailable ==
  /\ Step("unavailable", "select") /\ Update("error", FALSE)
  /\ UNCHANGED <<after, model>>

Tick ==
  /\ Step("select", "ping") /\ runner
  /\ UNCHANGED <<state, channel, signal, after, model, stopping, beat>>

TestEnds ==
  \/ ~stopping /\ Quietly("test", "testPing")
  \/ stopping /\ Free /\ CloseThen("test", "offline")

JobEnds == Quietly("job", IF stopping THEN "unclaim" ELSE "jobPing")

(* m.fail, and the runner is closed. *)
PingFails ==
  /\ loop \in {"ping", "testPing", "jobPing"} /\ loop' = "kill"
  /\ after' = IF loop = "jobPing" THEN "unclaim" ELSE "select"
  /\ Update("error", FALSE)
  /\ UNCHANGED model

(* Mutant: the phase stays busy. *)
PingStaysBusy ==
  /\ loop \in {"testPing", "jobPing"}
  /\ loop' = IF loop = "jobPing" THEN "unclaim" ELSE "select"
  /\ Update(phase, TRUE)
  /\ UNCHANGED <<after, model>>

(* A test or a job is over. *)
PingAfterWork ==
  /\ loop \in {"testPing", "jobPing"}
  /\ loop' = IF loop = "jobPing" THEN "unclaim" ELSE "select"
  /\ Update("ready", TRUE)
  /\ UNCHANGED <<after, model>>

(* The loop claims a job only when no test was accepted. *)
PingAtTick ==
  /\ Free
  /\ loop = "ping" /\ loop' = IF phase = "ready" THEN "claim" ELSE "select"
  /\ claiming' = (phase = "ready")
  /\ UNCHANGED <<phase, ready, channel, signal, after, model, stopping, beat>>

ClaimNothing == Quietly("claim", "unclaim")

ClaimJob ==
  /\ Step("claim", "job") /\ Update("busy", ready)
  /\ UNCHANGED <<after, model>>

Unclaim ==
  /\ Step("unclaim", "select") /\ Free
  /\ claiming' = FALSE
  /\ UNCHANGED <<phase, ready, channel, signal, after, model, stopping, beat>>

Offline ==
  /\ Step("offline", "done") /\ Update("offline", FALSE)
  /\ UNCHANGED <<after, model>>

Loop ==
  \/ Signal
  \/ /\ ~owing
     /\ \/ Install \/ Kill \/ Reap \/ Reset \/ Bootstrap \/ Loaded \/ SetupFails
        \/ Exit \/ TakeAction \/ Unavailable \/ Tick \/ TestEnds \/ JobEnds
        \/ PingFails \/ PingAfterWork \/ PingAtTick
        \/ ClaimNothing \/ ClaimJob \/ Unclaim \/ Offline

-----------------------------------------------------------------------------
(* The heartbeat. *)

HeartbeatOnly == UNCHANGED <<state, channel, owing, loop, after, model, stopping>>

(* Mutant: the signal is cleared after the snapshot, when the status is out. *)
PublishThenClear(ok) ==
  /\ heartbeat \in {"publish", "last"}
  /\ published' = IF ok THEN snap ELSE "failed"
  /\ heartbeat' = IF heartbeat = "last" THEN "reportLast" ELSE "report"
  /\ changed' = FALSE
  /\ UNCHANGED snap /\ HeartbeatOnly

(* At the start, for a signal, or every 15 seconds. *)
Snapshot ==
  /\ heartbeat \in {"start", "select"} /\ Free
  /\ snap' = Status
  /\ heartbeat' = "publish"
  /\ changed' \in {changed} \cup (IF heartbeat = "select" THEN {FALSE} ELSE {})
  /\ UNCHANGED published /\ HeartbeatOnly

(* Mutant: the last status is the one of the state. *)
SnapshotLastAsIs ==
  /\ heartbeat = "select" /\ stopping /\ Free
  /\ snap' = Status
  /\ heartbeat' = "last"
  /\ UNCHANGED <<changed, published>> /\ HeartbeatOnly

SnapshotLast ==
  /\ heartbeat = "select" /\ stopping /\ Free
  /\ snap' = "offline"
  /\ heartbeat' = "last"
  /\ UNCHANGED <<changed, published>> /\ HeartbeatOnly

Publish(ok) ==
  /\ heartbeat \in {"publish", "last"}
  /\ published' = IF ok THEN snap ELSE "failed"
  /\ heartbeat' = IF heartbeat = "last" THEN "reportLast" ELSE "report"
  /\ UNCHANGED <<changed, snap>> /\ HeartbeatOnly

(* Mutant: it goes on after the last one. *)
ReportAndContinue ==
  /\ heartbeat \in {"report", "reportLast"} /\ Free
  /\ heartbeat' = "select"
  /\ UNCHANGED <<changed, snap, published>> /\ HeartbeatOnly

(* It stores and logs how the publication went, under m.mu. *)
Report ==
  /\ heartbeat \in {"report", "reportLast"} /\ Free
  /\ heartbeat' = IF heartbeat = "report" THEN "select" ELSE "done"
  /\ UNCHANGED <<changed, snap, published>> /\ HeartbeatOnly

Heartbeat == Snapshot \/ SnapshotLast \/ (\E ok \in BOOLEAN : Publish(ok)) \/ Report

(* The sampler of the machine's metrics signals every 3 seconds. *)
Sample ==
  /\ ~stopping
  /\ changed' = TRUE
  /\ UNCHANGED <<state, channel, owing, loop, after, model, stopping, beat>>

(* SIGTERM, SIGINT, or the dashboard's listener fails. *)
Stop ==
  /\ ~stopping
  /\ stopping' = TRUE
  /\ UNCHANGED <<state, channel, signal, loop, after, model, beat>>

Next ==
  \/ Loop \/ Heartbeat \/ Output \/ WriteLog
  \/ SubmitRetry \/ SubmitTest \/ Send \/ Sample \/ Stop

Spec == Init /\ [][Next]_vars

(* Goroutines run; a select with several ready cases takes each at some time. *)
FairSpec ==
  /\ Spec
  /\ WF_vars(Loop) /\ SF_vars(~owing /\ Exit) /\ SF_vars(~owing /\ TakeAction)
  /\ WF_vars(Heartbeat) /\ SF_vars(SnapshotLast)
  /\ WF_vars(WriteLog) /\ WF_vars(Send)

-----------------------------------------------------------------------------
(* Properties. *)

(***************************************************************************)
(* When the loop waits and nothing is submitted, the phase tells whether   *)
(* there is a model: it is never left busy, checking or installing, where  *)
(* neither a retry nor a test would be accepted any more.                  *)
(***************************************************************************)
IdleIsReadyOrError ==
  loop = "select" /\ actions = <<>> /\ Free /\ ~stopping =>
    /\ ~claiming
    /\ phase = IF runner THEN "ready" ELSE "error"
    /\ ready = runner

(***************************************************************************)
(* No signal is lost: a heartbeat that waits, and is not signalled, has    *)
(* published the state as it is, unless the one who changed it is about to *)
(* signal.                                                                 *)
(***************************************************************************)
HeartbeatIsCurrent ==
  heartbeat = "select" /\ ~changed /\ ~owing /\ Free => published \in {Status, "failed"}

(* The last publication of a process says offline. *)
LastSaysOffline == heartbeat = "done" => published \in {"offline", "failed"}

(* A loop that is done left no model process behind, and its log is complete. *)
NoModelLeft == loop = "done" => child = "none" /\ ~pending

(***************************************************************************)
(* heartbeat.go, line 90: the log writer takes m.mu too.  A submit that    *)
(* holds it never waits for a loop that waits for the log.                 *)
(***************************************************************************)
LogIsNotAwaitedUnderLock == sending # "none" => ~(loop = "reap" /\ pending)

(* A submit holds m.mu and waits for a loop that cannot go on without it. *)
Wedged == sending # "none" /\ actions # <<>> /\ ~ENABLED Loop

(***************************************************************************)
(* A signalled process ends its loop and its heartbeat, whatever is        *)
(* submitted or under way; nothing but Wedged can keep it from that.       *)
(***************************************************************************)
Stops == stopping ~> Wedged \/ (loop = "done" /\ heartbeat = "done")
=============================================================================
