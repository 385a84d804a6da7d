----------------------------- MODULE LeaseTiming -----------------------------
(***************************************************************************)
(* One run of a job against the clock: the lease that Claim writes, the    *)
(* watcher goroutine of Run that renews it, and the settlement.  JobQueue  *)
(* lets a lease expire at any time; here the timeouts and the ticker of    *)
(* the code bound how long a run goes on without a renewal.                *)
(*                                                                         *)
(* Times are counted down.  A goroutine that can go on does so before time *)
(* passes, and a call returns by its timeout.                              *)
(***************************************************************************)
EXTENDS Integers

CONSTANTS
  LeaseLength,     \* leaseExpiresAt is two minutes after the write's now
  Interval,        \* the ticker of the watcher, ten seconds
  RenewTimeout,    \* five seconds
  ClaimTimeout,    \* ten seconds, for all the calls of Claim
  LogTimeout,      \* five seconds, for LogName, between Claim and Run
  UnwindTimeout,   \* how long the handler takes to return once its context is cancelled
  SettleTimeout,   \* ten seconds
  Skew             \* how far ahead the clock of another worker may be

Slack ==
  ClaimTimeout + LogTimeout + Interval + RenewTimeout + UnwindTimeout + SettleTimeout

ASSUME TimingAssumption ==
  /\ LeaseLength \in Nat /\ Interval \in Nat \ {0} /\ RenewTimeout \in Nat
  /\ ClaimTimeout \in Nat /\ LogTimeout \in Nat /\ UnwindTimeout \in Nat
  /\ SettleTimeout \in Nat /\ Skew \in Nat
  /\ RenewTimeout < Interval
  /\ Slack + Skew < LeaseLength

VARIABLES
  at,        \* where the run is
  timer,     \* what is left of the timeout of its call
  lease,     \* what is left of the lease
  owned,     \* the document still carries the run's token
  gone,      \* how long it has not, while the run worked on (at most LeaseLength)
  watcher,   \* the watcher waits for a tick, or renews
  tick,      \* what is left until the next tick
  ticked,    \* a tick waits in the ticker's channel
  age        \* how long ago the renewal under way read its now

vars == <<at, timer, lease, owned, gone, watcher, tick, ticked, age>>
watching == <<watcher, tick, ticked, age>>

TypeOK ==
  /\ at \in {"claiming", "naming", "working", "stopping", "losing", "settling", "over"}
  /\ timer \in Nat
  /\ lease \in 0..LeaseLength
  /\ owned \in BOOLEAN
  /\ gone \in 0..LeaseLength
  /\ watcher \in {"wait", "renew"}
  /\ tick \in 1..Interval
  /\ ticked \in BOOLEAN
  /\ age \in Nat

(* The claim has read now, and its update is under way. *)
Init ==
  /\ at = "claiming" /\ timer = ClaimTimeout
  /\ lease = LeaseLength /\ owned = TRUE /\ gone = 0
  /\ watcher = "wait" /\ tick = Interval /\ ticked = FALSE /\ age = 0

Monus(n) == IF n > 0 THEN n - 1 ELSE 0

(* The run ends, having done no more than a call of its own. *)
End == at' = "over" /\ UNCHANGED <<timer, lease, owned, gone, watching>>

(* The claim returns the job; LogName is looked up. *)
Claimed ==
  /\ at = "claiming"
  /\ at' = "naming" /\ timer' = LogTimeout
  /\ UNCHANGED <<lease, owned, gone, watching>>

ClaimLost == at = "claiming" /\ End

(* Run starts its watcher, whose ticker ticks an interval later. *)
Start ==
  /\ at = "naming"
  /\ at' = "working"
  /\ tick' = Interval /\ ticked' = FALSE /\ watcher' = "wait" /\ age' = 0
  /\ UNCHANGED <<timer, lease, owned, gone>>

(* The watcher takes a tick and starts to renew. *)
StartRenewal ==
  /\ at = "working" /\ watcher = "wait" /\ ticked
  /\ watcher' = "renew" /\ ticked' = FALSE /\ age' = 0
  /\ UNCHANGED <<at, timer, lease, owned, gone, tick>>

(* Mutant: the update is not checked for a match. *)
RenewUnmatched ==
  /\ at = "working" /\ watcher = "renew"
  /\ lease' = IF owned THEN LeaseLength - age ELSE lease
  /\ watcher' = "wait"
  /\ UNCHANGED <<at, timer, owned, gone, tick, ticked, age>>

Renew ==
  /\ at = "working" /\ watcher = "renew" /\ owned
  /\ lease' = LeaseLength - age
  /\ watcher' = "wait"
  /\ UNCHANGED <<at, timer, owned, gone, tick, ticked, age>>

(* Mutant: a failed renewal is tried again at the next tick. *)
RenewRetried ==
  /\ at = "working" /\ watcher = "renew"
  /\ watcher' = "wait"
  /\ UNCHANGED <<at, timer, lease, owned, gone, tick, ticked, age>>

(* The context is cancelled: the watcher leaves, the handler returns some time later. *)
Unwind(cause) ==
  /\ at = "working"
  /\ at' = cause /\ timer' = UnwindTimeout
  /\ UNCHANGED <<lease, owned, gone, watching>>

(* A renewal that fails, or matches nothing, cancels the run. *)
RenewFails == watcher = "renew" /\ Unwind("losing")

(* A progress update that matches nothing cancels it too. *)
ProgressFails == ~owned /\ Unwind("losing")

(* The process is stopped. *)
Shutdown == Unwind("stopping")

(* A run that was cancelled for its lease returns without a settlement. *)
Unwound == at = "losing" /\ End

(* The handler has returned; the watcher is stopped before the settlement starts. *)
Settle ==
  /\ at \in {"working", "stopping"}
  /\ at' = "settling" /\ timer' = SettleTimeout
  /\ UNCHANGED <<lease, owned, gone, watching>>

Settled == at = "settling" /\ End

(* The admin cancels the job. *)
Lose ==
  /\ owned /\ at # "over"
  /\ owned' = FALSE
  /\ UNCHANGED <<at, timer, lease, gone, watching>>

Tock ==
  /\ at \in {"claiming", "naming", "stopping", "losing", "settling"} => timer > 0
  /\ at = "working" => IF watcher = "renew" THEN age < RenewTimeout ELSE ~ticked
  /\ at # "over"
  /\ timer' = IF at = "working" THEN timer ELSE timer - 1
  /\ lease' = Monus(lease)
  /\ gone' = IF at = "working" /\ ~owned /\ gone < LeaseLength THEN gone + 1 ELSE gone
  /\ IF at = "working"
       THEN /\ tick' = IF tick = 1 THEN Interval ELSE tick - 1
            /\ ticked' = (ticked \/ tick = 1)
            /\ age' = IF watcher = "renew" THEN age + 1 ELSE age
       ELSE UNCHANGED <<tick, ticked, age>>
  /\ UNCHANGED <<at, owned, watcher>>

Next ==
  \/ Claimed \/ ClaimLost \/ Start
  \/ StartRenewal \/ Renew \/ RenewFails \/ ProgressFails
  \/ Shutdown \/ Unwound \/ Settle \/ Settled
  \/ Lose \/ Tock

Spec == Init /\ [][Next]_vars
-----------------------------------------------------------------------------
(* Properties. *)

(***************************************************************************)
(* While a run works, uploads, unwinds or settles, its lease has not       *)
(* expired, not even on a clock that is ahead: no other worker can claim   *)
(* the job, as long as processes are not suspended.                        *)
(***************************************************************************)
LeaseCoversRun ==
  at \in {"naming", "working", "stopping", "losing", "settling"} => lease > Skew

(***************************************************************************)
(* The context of a run whose job was cancelled is cancelled within an     *)
(* interval and a timeout, whatever its handler does.                      *)
(***************************************************************************)
LossIsNoticed == gone <= Interval + RenewTimeout

-----------------------------------------------------------------------------
(* The inductive strengthening: what is left of the lease, by place. *)

(* What the watcher has used up since the claim, or since the last renewal. *)
Used ==
  IF watcher = "renew" THEN Interval + age
  ELSE IF ticked THEN Interval ELSE Interval - tick

Timely ==
  /\ at = "claiming" =>
       timer <= ClaimTimeout /\ lease >= LeaseLength - (ClaimTimeout - timer)
  /\ at = "naming" =>
       timer <= LogTimeout /\ lease >= LeaseLength - ClaimTimeout - (LogTimeout - timer)
  /\ at = "working" =>
       /\ lease >= LeaseLength - ClaimTimeout - LogTimeout - Used
       /\ watcher = "renew" => age <= RenewTimeout /\ ~ticked /\ tick = Interval - age
       /\ watcher = "wait" /\ ticked => tick = Interval
  /\ at \in {"stopping", "losing"} =>
       timer <= UnwindTimeout /\ lease >= LeaseLength - Slack + SettleTimeout + timer
  /\ at = "settling" =>
       timer <= SettleTimeout /\ lease >= LeaseLength - Slack + timer

(* A loss is no older than what the watcher has used up. *)
Noticed ==
  /\ LossIsNoticed
  /\ at = "working" => gone <= Used
  /\ owned \/ at \in {"claiming", "naming"} => gone = 0
=============================================================================
