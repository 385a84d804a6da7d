---------------------------- MODULE ManagerProofs ----------------------------
(***************************************************************************)
(* Theorems about the dashboard manager, for every set of requests: its    *)
(* heartbeat loses no change and ends offline, its loop ends without a     *)
(* model process, and where it waits the phase tells whether there is one. *)
(***************************************************************************)
EXTENDS Manager, TLAPS

LEMMA TypeInit == Init => TypeOK
BY DEF Init, TypeOK, Phases, LoopPlaces, Afters, Statuses

(* What m.update leaves well typed. *)
LEMMA UpdateTypes ==
  ASSUME TypeOK, NEW p \in Phases, NEW r \in BOOLEAN, Update(p, r)
  PROVE  /\ phase' \in Phases /\ ready' \in BOOLEAN /\ claiming' \in BOOLEAN
         /\ actions' \in {<<>>} \cup {<<q>> : q \in Requests}
         /\ sending' \in Requests \cup {"none"}
         /\ changed' \in BOOLEAN /\ owing' \in BOOLEAN /\ stopping' \in BOOLEAN
         /\ heartbeat' = heartbeat /\ snap' = snap /\ published' = published
BY DEF Update, TypeOK, channel, beat

(* A submitted request is in the channel, or waits to be sent. *)
LEMMA AcceptTypes ==
  ASSUME TypeOK, NEW r \in Requests, Accept(r)
  PROVE  /\ actions' \in {<<>>} \cup {<<q>> : q \in Requests}
         /\ sending' \in Requests \cup {"none"} /\ changed' \in BOOLEAN
         /\ UNCHANGED <<claiming, owing, loop, after, model, stopping, beat>>
<1>1. CASE actions = <<>>
  BY <1>1 DEF Accept, TypeOK
<1>2. CASE actions # <<>>
  BY <1>2 DEF Accept, TypeOK
<1> QED BY <1>1, <1>2

LEMMA TypeStep == TypeOK /\ [Next]_vars => TypeOK'
<1> SUFFICES ASSUME TypeOK, [Next]_vars PROVE TypeOK'
  OBVIOUS
<1>1. CASE Loop
  <2> USE DEF LoopPlaces, Afters, Step
  <2>1. ASSUME NEW from, NEW to \in Afters, CloseThen(from, to) PROVE TypeOK'
    BY <2>1 DEF CloseThen, TypeOK, beat, channel, signal, state, model
  <2>18. CASE Signal
    <3>1. owing' \in BOOLEAN /\ changed' \in BOOLEAN
      BY <2>18 DEF Signal
    <3>2. UNCHANGED <<state, channel, loop, after, model, beat, stopping>>
      BY <2>18 DEF Signal
    <3> QED BY <3>1, <3>2 DEF TypeOK, state, channel, model, beat
  <2>2. CASE Install \/ Exit \/ (TestEnds /\ stopping)
    <3>1. CASE Install
      BY <2>1, <3>1 DEF Install
    <3>2. CASE Exit
      BY <2>1, <3>2 DEF Exit
    <3>3. CASE TestEnds /\ stopping
      BY <2>1, <3>3 DEF TestEnds
    <3> QED BY <2>2, <3>1, <3>2, <3>3
  <2>3. CASE Kill \/ Reap
    <3>1. runner' \in BOOLEAN
      BY <2>3 DEF Kill, Reap, TypeOK
    <3>2. loop' \in LoopPlaces /\ child' \in {"none", "running", "killed"}
      BY <2>3 DEF Kill, Reap, TypeOK
    <3>3. UNCHANGED <<state, channel, signal, after, pending, stopping, beat>>
      BY <2>3 DEF Kill, Reap
    <3> QED BY <3>1, <3>2, <3>3 DEF TypeOK, beat, channel, signal, state
  <2>4. CASE Reset
    BY <2>4, UpdateTypes DEF Reset, TypeOK, Phases, model
  <2>5. CASE Bootstrap
    BY <2>5, UpdateTypes DEF Bootstrap, TypeOK, Phases
  <2>6. CASE Loaded
    BY <2>6, UpdateTypes DEF Loaded, TypeOK, Phases
  <2>7. CASE SetupFails
    BY <2>7, UpdateTypes DEF SetupFails, TypeOK, Phases
  <2>8. CASE TakeAction
    BY <2>8 DEF TakeAction, TypeOK, beat, signal, state, model
  <2>9. CASE Unavailable \/ Offline
    <3>1. CASE Unavailable
      BY <3>1, UpdateTypes DEF Unavailable, TypeOK, Phases, model
    <3>2. CASE Offline
      BY <3>2, UpdateTypes DEF Offline, TypeOK, Phases, model
    <3> QED BY <2>9, <3>1, <3>2
  <2>10. CASE Tick
    <3>1. loop' \in LoopPlaces
      BY <2>10 DEF Tick
    <3>2. UNCHANGED <<state, channel, signal, after, model, stopping, beat>>
      BY <2>10 DEF Tick
    <3> QED BY <3>1, <3>2 DEF TypeOK, beat, channel, signal, state, model
  <2>11. CASE Unclaim
    <3>1. claiming' \in BOOLEAN
      BY <2>11 DEF Unclaim
    <3>2. UNCHANGED <<phase, ready, channel, signal, after, model, stopping, beat>>
      BY <2>11 DEF Unclaim
    <3> QED BY <2>11, <3>1, <3>2 DEF Unclaim, TypeOK, beat, channel, signal, model
  <2>12. ASSUME NEW from, NEW to \in LoopPlaces, Quietly(from, to) PROVE TypeOK'
    <3>1. Update(phase, ready) /\ phase \in Phases /\ ready \in BOOLEAN
      BY <2>12 DEF Quietly, TypeOK
    <3> QED BY <2>12, <3>1, UpdateTypes DEF Quietly, TypeOK, model
  <2>13. CASE (TestEnds /\ ~stopping) \/ JobEnds \/ ClaimNothing
    BY <2>12, <2>13 DEF TestEnds, JobEnds, ClaimNothing
  <2>14. CASE ClaimJob
    <3>1. Update("busy", ready) /\ ready \in BOOLEAN
      BY <2>14 DEF ClaimJob, TypeOK
    <3> QED BY <2>14, <3>1, UpdateTypes DEF ClaimJob, TypeOK, Phases, model
  <2>15. CASE PingFails \/ PingAfterWork
    <3>1. CASE PingFails
      BY <3>1, UpdateTypes DEF PingFails, TypeOK, Phases, model
    <3>2. CASE PingAfterWork
      <4>1. loop' \in LoopPlaces /\ Update("ready", TRUE) /\ UNCHANGED <<after, model>>
        BY <3>2 DEF PingAfterWork
      <4> QED BY <4>1, UpdateTypes DEF TypeOK, Phases, model
    <3> QED BY <2>15, <3>1, <3>2
  <2>16. CASE PingAtTick
    BY <2>16 DEF PingAtTick, TypeOK, beat, channel, signal, model
  <2>17. CASE TestEnds
    <3>1. CASE stopping
      BY <2>2, <2>17, <3>1
    <3>2. CASE ~stopping
      BY <2>13, <2>17, <3>2
    <3> QED BY <3>1, <3>2
  <2> QED BY <1>1, <2>2, <2>3, <2>4, <2>5, <2>6, <2>7, <2>8, <2>9, <2>10, <2>11, <2>13, <2>14,
             <2>15, <2>16, <2>17, <2>18 DEF Loop
<1>2. CASE Heartbeat
  <2> USE DEF TypeOK
  <2>1. CASE Snapshot
    <3>1. snap' \in Statuses
      BY <2>1 DEF Snapshot, Status, Statuses
    <3>2. changed' \in BOOLEAN /\ heartbeat' = "publish" /\ published' = published
      BY <2>1 DEF Snapshot
    <3> QED BY <2>1, <3>1, <3>2 DEF Snapshot, HeartbeatOnly, state, channel, model
  <2>2. CASE SnapshotLast
    BY <2>2 DEF SnapshotLast, HeartbeatOnly, Statuses, state, channel, model
  <2>3. ASSUME NEW succeeds \in BOOLEAN, Publish(succeeds) PROVE TypeOK'
    BY <2>3 DEF Publish, HeartbeatOnly, state, channel, model
  <2>4. CASE Report
    BY <2>4 DEF Report, HeartbeatOnly, state, channel, model
  <2> QED BY <1>2, <2>1, <2>2, <2>3, <2>4 DEF Heartbeat
<1>3. CASE SubmitRetry
  <2>1. phase' \in Phases /\ ready' \in BOOLEAN /\ "retry" \in Requests /\ Accept("retry")
    BY <1>3 DEF SubmitRetry, Phases
  <2> QED BY <2>1, AcceptTypes DEF TypeOK, model, beat
<1>4. CASE SubmitTest
  <2>1. phase' \in Phases /\ ready' \in BOOLEAN /\ "test" \in Requests /\ Accept("test")
    BY <1>4 DEF SubmitTest, TypeOK, Phases
  <2> QED BY <2>1, AcceptTypes DEF TypeOK, model, beat
<1>5. CASE Send
  BY <1>5 DEF Send, TypeOK, state, model, beat
<1>6. CASE Output \/ WriteLog \/ Stop
  <2>1. pending' \in BOOLEAN /\ stopping' \in BOOLEAN
    BY <1>6 DEF Output, WriteLog, Stop, TypeOK, model
  <2>2. UNCHANGED <<state, channel, signal, loop, after, runner, child, beat>>
    BY <1>6 DEF Output, WriteLog, Stop, model
  <2> QED BY <2>1, <2>2 DEF TypeOK, state, channel, signal, beat
<1>7. CASE Sample
  BY <1>7 DEF Sample, TypeOK, state, channel, model, beat
<1>8. CASE UNCHANGED vars
  BY <1>8 DEF vars, TypeOK, state, channel, signal, model, beat
<1> QED BY <1>1, <1>2, <1>3, <1>4, <1>5, <1>6, <1>7, <1>8 DEF Next

(* The manager's state is well typed, whatever clients submit. *)
THEOREM ManagerTypes == Spec => []TypeOK
BY TypeInit, TypeStep, PTL DEF Spec

-----------------------------------------------------------------------------
(* The heartbeat. *)

(***************************************************************************)
(* From its snapshot to its next wait the heartbeat holds the state as it  *)
(* is, or is signalled, or the loop or a submit is about to signal it.     *)
(***************************************************************************)
Current ==
  /\ heartbeat = "publish" /\ ~changed /\ ~owing /\ Free => snap = Status
  /\ heartbeat \in {"report", "select"} /\ ~changed /\ ~owing /\ Free =>
        published \in {Status, "failed"}
Ending ==
  /\ heartbeat = "last" => snap = "offline"
  /\ heartbeat \in {"reportLast", "done"} => published \in {"offline", "failed"}

(* Every other step leaves what is shown alone, or signals, or is about to. *)
LEMMA OthersSignal ==
  ASSUME [Next]_vars, ~Heartbeat
  PROVE  /\ UNCHANGED beat
         /\ UNCHANGED <<phase, ready, changed, owing, sending>> \/ changed' \/ owing' \/ sending' # "none"
<1> USE DEF Update, Step, Quietly, CloseThen, state, channel, signal, model
<1>1. CASE Loop
  BY <1>1 DEF Loop, Signal, Install, Exit, Kill, Reap, Reset, Bootstrap, Loaded, SetupFails, TakeAction,
    Unavailable, Tick, Unclaim, Offline, TestEnds, JobEnds, ClaimNothing, ClaimJob, PingFails,
    PingAfterWork, PingAtTick
<1>2. CASE SubmitRetry \/ SubmitTest \/ Send
  BY <1>2 DEF SubmitRetry, SubmitTest, Send, Accept
<1>3. CASE Output \/ WriteLog \/ Sample \/ Stop
  BY <1>3 DEF Output, WriteLog, Sample, Stop
<1>4. CASE UNCHANGED vars
  BY <1>4 DEF vars
<1> QED BY <1>1, <1>2, <1>3, <1>4 DEF Next

LEMMA BeatStep == Current /\ Ending /\ [Next]_vars => Current' /\ Ending'
<1> SUFFICES ASSUME Current, Ending, [Next]_vars PROVE Current' /\ Ending'
  OBVIOUS
<1>1. CASE Heartbeat
  <2> USE DEF HeartbeatOnly, state, channel, Current, Ending, Free, Status
  <2>1. CASE Snapshot
    BY <2>1 DEF Snapshot
  <2>2. CASE SnapshotLast
    BY <2>2 DEF SnapshotLast
  <2>3. ASSUME NEW succeeds \in BOOLEAN, Publish(succeeds) PROVE Current' /\ Ending'
    BY <2>3 DEF Publish
  <2>4. CASE Report
    BY <2>4 DEF Report
  <2> QED BY <1>1, <2>1, <2>2, <2>3, <2>4 DEF Heartbeat
<1>2. CASE ~Heartbeat
  BY <1>2, OthersSignal DEF beat, Current, Ending, Free, Status
<1> QED BY <1>1, <1>2

LEMMA BeatInv == Spec => [](Current /\ Ending)
<1>1. Init => Current /\ Ending
  BY DEF Init, Current, Ending
<1> QED BY <1>1, BeatStep, PTL DEF Spec

(* A waiting heartbeat has published the state as it is, or is or will be signalled. *)
THEOREM NoSignalIsLost == Spec => []HeartbeatIsCurrent
<1>1. Current => HeartbeatIsCurrent
  BY DEF Current, HeartbeatIsCurrent
<1> QED BY <1>1, BeatInv, PTL

(* The last publication of a stopped process says offline, if it succeeds. *)
THEOREM EndsOffline == Spec => []LastSaysOffline
<1>1. Ending => LastSaysOffline
  BY DEF Ending, LastSaysOffline
<1> QED BY <1>1, BeatInv, PTL

-----------------------------------------------------------------------------
(* The model process. *)

(* A process is owned by the setup, by the runner or by the close of it. *)
Owned ==
  /\ pending => child # "none"
  /\ child = "running" => runner \/ loop = "loading"
  /\ child = "killed" => loop = "reap"
  /\ loop \in {"reset", "bootstrap", "loading", "offline", "done"} => ~runner

LEMMA OwnedStep == TypeOK /\ Owned /\ [Next]_vars => Owned'
<1> SUFFICES ASSUME TypeOK, Owned, [Next]_vars PROVE Owned'
  OBVIOUS
<1> USE DEF Owned
<1>1. CASE Loop
  <2> USE DEF Step, Update, Quietly, CloseThen, model, channel, signal, state
  <2>1. CASE Signal \/ Install \/ Exit \/ TestEnds
    BY <2>1 DEF Signal, Install, Exit, TestEnds
  <2>2. CASE Kill \/ Reap
    BY <2>2 DEF Kill, Reap, TypeOK, Afters
  <2>3. CASE Reset \/ Bootstrap \/ Loaded
    BY <2>3 DEF Reset, Bootstrap, Loaded
  <2>4. CASE SetupFails
    BY <2>4 DEF SetupFails
  <2>5. CASE TakeAction \/ Unavailable \/ Tick \/ Unclaim \/ Offline
    BY <2>5 DEF TakeAction, Unavailable, Tick, Unclaim, Offline
  <2>6. CASE JobEnds \/ ClaimNothing \/ ClaimJob \/ PingFails \/ PingAfterWork \/ PingAtTick
    BY <2>6 DEF JobEnds, ClaimNothing, ClaimJob, PingFails, PingAfterWork, PingAtTick
  <2> QED BY <1>1, <2>1, <2>2, <2>3, <2>4, <2>5, <2>6 DEF Loop
<1>2. CASE Output \/ WriteLog
  BY <1>2 DEF Output, WriteLog
<1>3. CASE Heartbeat
  <2>1. HeartbeatOnly
    BY <1>3 DEF Heartbeat, Snapshot, SnapshotLast, Publish, Report
  <2> QED BY <2>1 DEF HeartbeatOnly, model
<1>4. CASE SubmitRetry \/ SubmitTest \/ Send \/ Sample \/ Stop
  BY <1>4 DEF SubmitRetry, SubmitTest, Send, Accept, Sample, Stop, model
<1>5. CASE UNCHANGED vars
  BY <1>5 DEF model, vars
<1> QED BY <1>1, <1>2, <1>3, <1>4, <1>5 DEF Next

(***************************************************************************)
(* When the loop has ended, the model process is dead and all that it      *)
(* wrote is in the log: every path that leaves the loop closes the runner. *)
(***************************************************************************)
THEOREM EndsWithoutModel == Spec => []NoModelLeft
<1>1. Init => Owned
  BY DEF Init, Owned
<1>2. TypeOK /\ Owned => NoModelLeft
  BY DEF TypeOK, Owned, NoModelLeft
<1> QED BY <1>1, <1>2, TypeInit, TypeStep, OwnedStep, PTL DEF Spec

-----------------------------------------------------------------------------
(* The phase.  What the loop knows of the model wherever it is. *)

Submitted == actions # <<>> \/ sending # "none"

(* There is a model and nobody but a client who waits for it made it busy. *)
Serving == ready /\ phase \in {"ready", "busy"} /\ (phase = "busy" => Submitted)

(* There is none, and only a client who waits for it has cleared the error. *)
Broken == ~ready /\ phase \in {"error", "checking"} /\ (phase = "checking" => Submitted)

ClaimingFits ==
  claiming <=> \/ loop \in {"claim", "job", "jobPing", "unclaim"}
               \/ loop \in {"kill", "reap"} /\ after = "unclaim"

RunnerFits ==
  /\ loop \in {"test", "testPing", "ping", "claim", "job", "jobPing"} => runner /\ ready
  /\ loop \in {"unavailable", "reset", "bootstrap", "loading"} => ~runner

PhaseFits ==
  /\ loop \in {"test", "testPing"} => phase \in {"ready", "busy"}
  /\ loop \in {"job", "jobPing"} => phase = "busy"
  /\ loop = "claim" => phase = "ready"
  /\ loop = "ping" => Serving
  /\ loop \in {"select", "unclaim"} => IF runner THEN Serving ELSE Broken
  /\ loop = "unclaim" /\ runner => phase = "ready"
  /\ loop \in {"kill", "reap"} /\ after \in {"select", "unclaim"} => Broken

LeavesOnlyStopped ==
  /\ loop \notin {"offline", "done"}
  /\ loop \in {"kill", "reap"} => after # "offline"

(***************************************************************************)
(* Until the process is signalled.  A signalled loop leaves its work       *)
(* without telling how it went.                                            *)
(***************************************************************************)
Settled == ~stopping => ClaimingFits /\ RunnerFits /\ PhaseFits /\ LeavesOnlyStopped

LEMMA SettledStep == TypeOK /\ Settled /\ [Next]_vars => Settled'
<1> SUFFICES ASSUME TypeOK, ~stopping, ClaimingFits, RunnerFits, PhaseFits, LeavesOnlyStopped,
                    [Next]_vars, ~stopping'
             PROVE  ClaimingFits' /\ RunnerFits' /\ PhaseFits' /\ LeavesOnlyStopped'
  <2>1. [Next]_vars /\ ~stopping' => ~stopping
    <3>1. CASE Stop \/ Send \/ Sample \/ Output \/ WriteLog
      BY <3>1 DEF Stop, Send, Sample, Output, WriteLog
    <3>2. CASE Heartbeat
      BY <3>2 DEF Heartbeat, HeartbeatOnly, Snapshot, SnapshotLast, Publish, Report
    <3>3. CASE SubmitRetry \/ SubmitTest
      BY <3>3 DEF SubmitRetry, SubmitTest, Accept
    <3>4. CASE Loop
      BY <3>4 DEF Loop, Signal, Install, Exit, Kill, Reap, Reset, Bootstrap, Loaded, SetupFails, TakeAction,
        Unavailable, Tick, Unclaim, Offline, TestEnds, JobEnds, ClaimNothing, ClaimJob, PingFails,
        PingAfterWork, PingAtTick, Quietly, Update, CloseThen
    <3>5. CASE UNCHANGED vars
      BY <3>5 DEF vars
    <3> QED BY <3>1, <3>2, <3>3, <3>4, <3>5 DEF Next
  <2> QED BY <2>1 DEF Settled
<1> USE DEF ClaimingFits, RunnerFits, PhaseFits, LeavesOnlyStopped, Serving, Broken, Submitted
<1>1. CASE Loop
  <2> USE DEF Step, Update, Quietly, CloseThen, model, channel, signal, state
  <2>1. CASE Signal
    BY <2>1 DEF Signal
  <2>2. CASE Install
    BY <2>2 DEF Install
  <2>3. CASE Kill
    BY <2>3 DEF Kill
  <2>4. CASE Reap
    BY <2>4 DEF Reap, TypeOK, Afters
  <2>5. CASE Reset \/ Bootstrap \/ Loaded \/ SetupFails
    <3>1. CASE Reset \/ Bootstrap
      BY <3>1 DEF Reset, Bootstrap
    <3>2. CASE Loaded
      BY <3>2 DEF Loaded
    <3>3. CASE SetupFails
      BY <3>3 DEF SetupFails
    <3> QED BY <2>5, <3>1, <3>2, <3>3
  <2>6. CASE TakeAction
    BY <2>6 DEF TakeAction
  <2>7. CASE Unavailable \/ Tick \/ Unclaim
    BY <2>7 DEF Unavailable, Tick, Unclaim
  <2>8. CASE TestEnds \/ JobEnds
    BY <2>8 DEF TestEnds, JobEnds
  <2>9. CASE PingFails \/ PingAfterWork \/ PingAtTick
    BY <2>9 DEF PingFails, PingAfterWork, PingAtTick
  <2>10. CASE ClaimNothing \/ ClaimJob
    BY <2>10 DEF ClaimNothing, ClaimJob
  <2>11. CASE Exit \/ Offline
    BY <2>11 DEF Exit, Offline
  <2> QED BY <1>1, <2>1, <2>2, <2>3, <2>4, <2>5, <2>6, <2>7, <2>8, <2>9, <2>10, <2>11 DEF Loop
<1>2. CASE SubmitRetry
  <2>1. actions' # <<>> \/ sending' # "none"
    BY <1>2, RequestsAssumption DEF SubmitRetry, Accept
  <2>2. UNCHANGED <<claiming, loop, after, model>>
    BY <1>2 DEF SubmitRetry, Accept
  <2> QED BY <1>2, <2>1, <2>2 DEF SubmitRetry, model
<1>3. CASE SubmitTest
  <2>1. actions' # <<>> \/ sending' # "none"
    BY <1>3, RequestsAssumption DEF SubmitTest, Accept
  <2>2. UNCHANGED <<claiming, loop, after, model>>
    BY <1>3 DEF SubmitTest, Accept
  <2> QED BY <1>3, <2>1, <2>2 DEF SubmitTest, model
<1>4. CASE Send
  <2>1. actions' # <<>>
    BY <1>4 DEF Send
  <2> QED BY <1>4, <2>1 DEF Send, state, model
<1>5. CASE Output \/ WriteLog \/ Sample \/ Stop
  BY <1>5 DEF Output, WriteLog, Sample, Stop, state, channel, model
<1>6. CASE Heartbeat
  <2>1. HeartbeatOnly
    BY <1>6 DEF Heartbeat, Snapshot, SnapshotLast, Publish, Report
  <2> QED BY <2>1 DEF HeartbeatOnly, state, channel, model
<1>7. CASE UNCHANGED vars
  BY <1>7 DEF vars, state, channel, model
<1> QED BY <1>1, <1>2, <1>3, <1>4, <1>5, <1>6, <1>7 DEF Next

(***************************************************************************)
(* Until it is stopped, a loop that waits with nothing submitted is ready  *)
(* with its model or in error without one, whatever failed before and      *)
(* whatever clients submitted at any moment of it.                         *)
(***************************************************************************)
THEOREM IdleIsSettled == Spec => []IdleIsReadyOrError
<1>1. Init => Settled
  BY DEF Init, Settled, ClaimingFits, RunnerFits, PhaseFits, LeavesOnlyStopped
<1>2. TypeOK /\ Settled => IdleIsReadyOrError
  BY DEF TypeOK, Settled, ClaimingFits, PhaseFits, Serving, Broken, Submitted, IdleIsReadyOrError, Free
<1> QED BY <1>1, <1>2, TypeInit, TypeStep, SettledStep, PTL DEF Spec
=============================================================================
