--------------------------- MODULE RunTimingProofs ---------------------------
(***************************************************************************)
(* Theorems about a run against the clock and about the call to the model  *)
(* that it waits in: for all timeouts that leave enough of the lease       *)
(* (TimingAssumption) it never outlives its lease and notices its loss in  *)
(* time, and for any number of calls each of them gets its own answer.     *)
(***************************************************************************)
EXTENDS LeaseTiming, MossPipe, SequenceTheorems, TLAPS

-----------------------------------------------------------------------------
(* The lease. *)

Inv == TypeOK /\ Timely /\ Noticed

LEMMA InitInv == Init => Inv
<1> SUFFICES ASSUME Init PROVE Inv
  OBVIOUS
<1>1. TypeOK
  <2>1. ticked \in BOOLEAN /\ owned \in BOOLEAN
    BY DEF Init
  <2> QED BY <2>1, TimingAssumption DEF Init, TypeOK
<1>2. Timely /\ Noticed
  BY TimingAssumption DEF Init, Timely, Noticed, LossIsNoticed
<1> QED BY <1>1, <1>2 DEF Inv

(* Time passes. *)
LEMMA TockInv == ASSUME Inv, Tock PROVE Inv'
<1>1. at = "working" \/ timer \in Nat \ {0}
  BY DEF Inv, TypeOK, Tock
<1>2. TypeOK'
  <2>1. lease' \in 0..LeaseLength /\ gone' \in 0..LeaseLength
    BY TimingAssumption DEF Inv, TypeOK, Tock, Monus
  <2>2. timer' \in Nat /\ tick' \in 1..Interval /\ age' \in Nat
    BY <1>1, TimingAssumption DEF Inv, TypeOK, Tock
  <2>3. ticked' \in BOOLEAN
    BY DEF Inv, TypeOK, Tock
  <2>4. UNCHANGED <<at, owned, watcher>>
    BY DEF Tock
  <2> QED BY <2>1, <2>2, <2>3, <2>4 DEF Inv, TypeOK
<1>3. lease' >= lease - 1 /\ UNCHANGED <<at, owned, watcher>>
  BY TimingAssumption DEF Inv, TypeOK, Tock, Monus
<1>4. CASE at = "working"
  <2>0. gone' \in {gone, gone + 1}
    BY DEF Tock
  <2>1. CASE watcher = "renew"
    <3>1. age < RenewTimeout /\ age' = age + 1 /\ ~ticked /\ tick = Interval - age
      BY <1>4, <2>1 DEF Inv, Timely, Tock
    <3>2. tick > 1 /\ tick' = tick - 1 /\ ~ticked'
      BY <1>4, <3>1, TimingAssumption DEF Inv, TypeOK, Tock
    <3>3. Used = Interval + age /\ Used' = Interval + age + 1
      <4>1. watcher' = "renew"
        BY <1>3, <2>1
      <4> QED BY <2>1, <3>1, <4>1, TimingAssumption DEF Used, Inv, TypeOK
    <3>4. Timely'
      BY <1>2, <1>3, <1>4, <2>1, <3>1, <3>2, <3>3, TimingAssumption DEF Inv, TypeOK, Timely
    <3>5. Noticed'
      <4>1. gone <= Used /\ gone' <= Used'
        BY <1>4, <2>0, <3>3, TimingAssumption DEF Inv, TypeOK, Noticed
      <4>2. Used' <= Interval + RenewTimeout
        BY <3>1, <3>3, TimingAssumption DEF Inv, TypeOK
      <4>3. owned' => gone' = 0
        BY <1>3 DEF Tock, Inv, Noticed
      <4> QED BY <1>2, <1>3, <1>4, <3>3, <4>1, <4>2, <4>3, TimingAssumption
            DEF Inv, TypeOK, Noticed, LossIsNoticed
    <3> QED BY <1>2, <3>4, <3>5 DEF Inv
  <2>2. CASE watcher = "wait"
    <3>1. ~ticked /\ tick' = (IF tick = 1 THEN Interval ELSE tick - 1)
      BY <1>4, <2>2 DEF Inv, TypeOK, Tock
    <3>2. ticked' <=> tick = 1
      BY <1>4, <3>1 DEF Tock
    <3>3. Used = Interval - tick /\ Used' = Interval - tick + 1
      BY <1>3, <2>2, <3>1, <3>2, TimingAssumption DEF Used, Inv, TypeOK
    <3>4. Timely'
      BY <1>2, <1>3, <1>4, <2>2, <3>1, <3>2, <3>3, TimingAssumption DEF Inv, TypeOK, Timely
    <3>5. Noticed'
      <4>1. gone <= Used /\ gone' <= Used'
        BY <1>4, <2>0, <3>3, TimingAssumption DEF Inv, TypeOK, Noticed
      <4>2. Used' <= Interval + RenewTimeout
        BY <3>1, <3>3, TimingAssumption DEF Inv, TypeOK
      <4>3. owned' => gone' = 0
        BY <1>3 DEF Tock, Inv, Noticed
      <4> QED BY <1>2, <1>3, <1>4, <3>3, <4>1, <4>2, <4>3, TimingAssumption
            DEF Inv, TypeOK, Noticed, LossIsNoticed
    <3> QED BY <1>2, <3>4, <3>5 DEF Inv
  <2> QED BY <2>1, <2>2 DEF Inv, TypeOK
<1>5. CASE at # "working"
  <2>1. timer' = timer - 1 /\ gone' = gone
    BY <1>5 DEF Tock
  <2>2. Timely'
    <3>0. at \in {"claiming", "naming", "stopping", "losing", "settling"}
      BY <1>5 DEF Inv, TypeOK, Tock
    <3> USE <1>1, <1>2, <1>3, <2>1, TimingAssumption DEF Inv, TypeOK, Timely, Slack
    <3>1. CASE at = "claiming"
      BY <3>1
    <3>2. CASE at = "naming"
      BY <3>2
    <3>3. CASE at \in {"stopping", "losing"}
      <4>1. lease - 1 >= LeaseLength - Slack + SettleTimeout + (timer - 1)
        BY <3>3
      <4>2. lease' >= LeaseLength - Slack + SettleTimeout + timer'
        BY <4>1
      <4>3. at' \in {"stopping", "losing"} /\ timer' <= UnwindTimeout
        BY <3>3
      <4> QED BY <4>2, <4>3
    <3>4. CASE at = "settling"
      BY <3>4
    <3> QED BY <3>0, <3>1, <3>2, <3>3, <3>4
  <2>3. Noticed'
    BY <1>3, <1>5, <2>1 DEF Inv, Noticed, LossIsNoticed
  <2> QED BY <1>2, <2>2, <2>3 DEF Inv
<1> QED BY <1>4, <1>5

LEMMA NextInv == Inv /\ [Next]_vars => Inv'
<1> SUFFICES ASSUME Inv, [Next]_vars PROVE Inv'
  OBVIOUS
<1> USE TimingAssumption DEF Inv, TypeOK, Timely, Noticed, LossIsNoticed, Used, watching
<1>1. CASE Claimed
  BY <1>1 DEF Claimed
<1>2. CASE ClaimLost \/ Unwound \/ Settled
  BY <1>2 DEF ClaimLost, Unwound, Settled, End
<1>3. CASE Start
  <2>1. ticked' \in BOOLEAN /\ ~ticked'
    BY <1>3 DEF Start
  <2>2. Used' = 0 /\ gone <= Interval + RenewTimeout
    BY <1>3, <2>1 DEF Start
  <2>3. lease >= LeaseLength - ClaimTimeout - LogTimeout
    BY <1>3 DEF Start
  <2> QED BY <1>3, <2>1, <2>2, <2>3 DEF Start
<1>4. CASE StartRenewal
  <2>1. ticked' \in BOOLEAN /\ ~ticked'
    BY <1>4 DEF StartRenewal
  <2>2. Used = Interval /\ Used' = Interval
    BY <1>4 DEF StartRenewal
  <2> QED BY <1>4, <2>1, <2>2 DEF StartRenewal
<1>5. CASE Renew
  <2>1. age <= RenewTimeout /\ ~ticked /\ tick = Interval - age /\ gone = 0
    BY <1>5 DEF Renew
  <2>2. ~ticked' /\ Used' = age
    BY <1>5, <2>1 DEF Renew
  <2>3. lease' = LeaseLength - age /\ lease' \in 0..LeaseLength
    BY <1>5, <2>1 DEF Renew, Slack
  <2> QED BY <1>5, <2>1, <2>2, <2>3 DEF Renew
<1>6. CASE RenewFails \/ ProgressFails \/ Shutdown
  BY <1>6 DEF RenewFails, ProgressFails, Shutdown, Unwind, Slack
<1>7. CASE Settle
  BY <1>7 DEF Settle, Slack
<1>8. CASE Lose
  BY <1>8 DEF Lose
<1>9. CASE Tock
  BY <1>9, TockInv
<1>10. CASE UNCHANGED vars
  BY <1>10 DEF vars
<1> QED BY <1>1, <1>2, <1>3, <1>4, <1>5, <1>6, <1>7, <1>8, <1>9, <1>10 DEF Next

LEMMA LeaseInv == Spec => []Inv
BY InitInv, NextInv, PTL DEF Spec

(***************************************************************************)
(* No run works, uploads, unwinds or settles on an expired lease, if the   *)
(* timeouts from the claim to the settlement and the skew fit into the     *)
(* lease.                                                                  *)
(***************************************************************************)
THEOREM RunsHoldTheirLease == Spec => []LeaseCoversRun
<1>1. Inv => LeaseCoversRun
  BY TimingAssumption DEF Inv, TypeOK, Timely, Used, Slack, LeaseCoversRun
<1> QED BY <1>1, LeaseInv, PTL

(* A cancelled job cancels its run within an interval and a timeout. *)
THEOREM LossIsNoticedInTime == Spec => []LossIsNoticed
<1>1. Inv => LossIsNoticed
  BY DEF Inv, Noticed
<1> QED BY <1>1, LeaseInv, PTL

-----------------------------------------------------------------------------
(* The pipe to the model. *)

(* The pipes are empty, but for the last line of a process that has raised. *)
Empty ==
  /\ stdin = <<>>
  /\ stdout = <<>> \/ (stdout = <<Fatal>> /\ server = "dead")
  /\ server \notin {"loading", "working"}

(* The request of the call is in exactly one place, or its answer is, or the process is dead. *)
Pending ==
  \/ stdin = <<call>> /\ stdout = <<>> /\ server \in {"waiting", "releasing"}
  \/ stdin = <<>> /\ stdout = <<>> /\ server = "working" /\ serving = call
  \/ stdin = <<>> /\ stdout = <<>> /\ server = "loading" /\ call = 0
  \/ stdin = <<>> /\ stdout = <<Line(call)>> /\ server \in {"releasing", "waiting"}
  \/ /\ stdin = <<>> /\ server = "dead"
     /\ stdout \in {<<>>, <<Fatal>>, <<Line(call)>>, <<Line(call), Fatal>>}

Mine == {Line(call), Fatal, Failed}

Matched ==
  /\ call \in 0..MaxCalls
  /\ io \in {"encode", "decode", "done"}
  /\ server \in {"loading", "waiting", "working", "releasing", "dead"}
  /\ exchange \in {"idle", "closed"} => io = "done" /\ got \in Mine
  /\ IF io = "decode" THEN Pending ELSE Empty
  /\ exchange \in {"waiting", "draining"} /\ io = "done" => reply \in Mine

LEMMA Short ==
  ASSUME NEW x, NEW y
  PROVE  /\ Append(<<>>, x) = <<x>> /\ Append(<<x>>, y) = <<x, y>>
         /\ Head(<<x>>) = x /\ Head(<<x, y>>) = x
         /\ Tail(<<x>>) = <<>> /\ Tail(<<x, y>>) = <<y>>
         /\ <<>> # <<x>> /\ <<>> # <<x, y>>
<1>1. <<x>> \in Seq({x, y}) /\ Len(<<x>>) = 1
  OBVIOUS
<1>2. <<x, y>> \in Seq({x, y}) /\ Len(<<x, y>>) = 2
  OBVIOUS
<1>3. Append(<<x>>, y) \in Seq({x, y}) /\ Len(Append(<<x>>, y)) = 2
  BY <1>1
<1>4. Append(<<x>>, y)[1] = x /\ Append(<<x>>, y)[2] = y
  BY <1>1
<1>5. \A i \in 1..2 : Append(<<x>>, y)[i] = <<x, y>>[i]
  BY <1>4
<1>6. Append(<<x>>, y) = <<x, y>>
  BY <1>2, <1>3, <1>5, SeqEqual
<1> QED BY <1>6

LEMMA WorkerMatches ==
  ASSUME Matched, Worker PROVE Matched'
<1> USE Short, CallsAssumption DEF Matched, Mine, caller, process
<1>1. CASE Call
  BY <1>1 DEF Call, Empty
<1>2. CASE Encode
  <2>1. stdin = <<>> /\ stdout = <<>> /\ server \in {"waiting", "releasing"}
    BY <1>2 DEF Encode, Empty
  <2>2. /\ stdin' = <<call>> /\ stdout' = <<>> /\ io = "encode" /\ io' = "decode"
        /\ call' = call /\ server' = server /\ exchange' = exchange /\ reply' = reply /\ got' = got
    BY <1>2, <2>1 DEF Encode
  <2>3. Pending'
    BY <2>1, <2>2 DEF Pending
  <2> QED BY <2>1, <2>2, <2>3
<1>3. CASE EncodeFails
  BY <1>3 DEF EncodeFails, Empty
<1>4. CASE Decode
  <2>1. Pending /\ stdout # <<>>
    BY <1>4 DEF Decode
  <2>2. stdin' = stdin /\ server' = server /\ stdout' = Tail(stdout) /\ reply' = Head(stdout)
    BY <1>4 DEF Decode
  <2>3. ASSUME server = "dead" PROVE Empty' /\ reply' \in {Line(call), Fatal}
    <3> USE DEF Empty
    <3>1. stdin = <<>> /\ stdout \in {<<Fatal>>, <<Line(call)>>, <<Line(call), Fatal>>}
      BY <2>1, <2>3 DEF Pending
    <3>2. CASE stdout = <<Fatal>> \/ stdout = <<Line(call)>>
      <4>1. stdout' = <<>> /\ reply' \in {Line(call), Fatal}
        BY <2>2, <3>2
      <4> QED BY <2>2, <2>3, <3>1, <4>1
    <3>3. CASE stdout = <<Line(call), Fatal>>
      <4>1. stdout' = <<Fatal>> /\ reply' = Line(call)
        BY <2>2, <3>3
      <4> QED BY <2>2, <2>3, <3>1, <4>1
    <3> QED BY <3>1, <3>2, <3>3
  <2>4. ASSUME server # "dead" PROVE Empty' /\ reply' \in {Line(call), Fatal}
    BY <2>1, <2>2, <2>4 DEF Pending, Empty
  <2>5. Empty' /\ reply' \in {Line(call), Fatal}
    BY <2>3, <2>4
  <2>6. UNCHANGED <<exchange, call, got>> /\ io' = "done"
    BY <1>4 DEF Decode
  <2>7. exchange \notin {"idle", "closed"}
    BY <1>4 DEF Decode
  <2> QED BY <2>2, <2>5, <2>6, <2>7
<1>5. CASE DecodeFails
  BY <1>5 DEF DecodeFails, Empty, Pending
<1>6. CASE Return
  BY <1>6 DEF Return, Empty
<1>7. CASE Timeout
  BY <1>7 DEF Timeout, Empty, Pending
<1>8. CASE Drained
  BY <1>8 DEF Drained, Empty
<1>9. CASE Close
  BY <1>9 DEF Close, Empty
<1> QED BY <1>1, <1>2, <1>3, <1>4, <1>5, <1>6, <1>7, <1>8, <1>9 DEF Worker

(* The process disturbs neither the caller nor the place of its request. *)
LEMMA ServerKeeps ==
  ASSUME Server
  PROVE  /\ UNCHANGED caller
         /\ Empty => Empty'
         /\ Pending => Pending'
         /\ server' \in {"waiting", "working", "releasing", "dead"}
<1> USE Short DEF caller, Empty, Pending
<1>1. CASE Loaded
  BY <1>1 DEF Loaded
<1>2. CASE Raise
  <2>1. server' = "dead" /\ stdin' = <<>> /\ stdout' = Append(stdout, Fatal) /\ UNCHANGED caller
    BY <1>2 DEF Raise, EndProcess
  <2>2. Empty => Empty'
    BY <1>2, <2>1 DEF Raise
  <2>3. ASSUME Pending PROVE Pending'
    <3>1. stdout \in {<<>>, <<Line(call)>>}
      BY <1>2, <2>3 DEF Raise
    <3>2. stdout' \in {<<Fatal>>, <<Line(call), Fatal>>} /\ call' = call
      BY <2>1, <3>1
    <3> QED BY <2>1, <3>2
  <2> QED BY <2>1, <2>2, <2>3
<1>3. CASE Take
  BY <1>3 DEF Take
<1>4. CASE Answer
  BY <1>4 DEF Answer
<1>5. CASE Release
  BY <1>5 DEF Release
<1>6. CASE Kill \/ Die
  BY <1>6 DEF Kill, Die, EndProcess
<1> QED BY <1>1, <1>2, <1>3, <1>4, <1>5, <1>6 DEF Server

LEMMA MatchedInv == PipeSpec => []Matched
<1>1. PipeInit => Matched
  BY CallsAssumption DEF PipeInit, Matched, Pending
<1>2. Matched /\ [PipeNext]_pipeVars => Matched'
  <2> SUFFICES ASSUME Matched, [PipeNext]_pipeVars PROVE Matched'
    OBVIOUS
  <2>1. CASE Worker
    BY <2>1, WorkerMatches
  <2>2. CASE Server
    BY <2>2, ServerKeeps DEF Matched, Mine, caller
  <2>3. CASE UNCHANGED pipeVars
    BY <2>3 DEF pipeVars, caller, process, Matched, Mine, Empty, Pending
  <2> QED BY <2>1, <2>2, <2>3 DEF PipeNext
<1> QED BY <1>1, <1>2, PTL DEF PipeSpec

(* An exchange never returns the answer to another request than its own. *)
THEOREM AnswersMatch == PipeSpec => []AnswerIsMine
<1>1. Matched => AnswerIsMine
  BY DEF Matched, Mine, AnswerIsMine, Line, Fatal, Failed
<1> QED BY <1>1, MatchedInv, PTL

(* Between two calls neither a request nor an answer is on the pipes. *)
THEOREM NothingStaysUnderWay == PipeSpec => []NothingIsUnderWay
<1>1. Matched => NothingIsUnderWay
  BY DEF Matched, Empty, NothingIsUnderWay
<1> QED BY <1>1, MatchedInv, PTL

(* Lines are what the process writes, and stay so on their way. *)
LEMMA LinesAreTyped ==
  /\ Fatal \in Lines /\ \A n \in 0..MaxCalls : Line(n) \in Lines
  /\ 0 \in 0..MaxCalls
  /\ <<>> \in Seq(0..MaxCalls) /\ <<>> \in Seq(Lines)
BY CallsAssumption DEF Lines

LEMMA ServerKeepsTypes ==
  ASSUME PipeTypeOK, Server PROVE PipeTypeOK'
<1> USE LinesAreTyped DEF PipeTypeOK, caller
<1>1. CASE Loaded
  BY <1>1 DEF Loaded
<1>2. CASE Raise
  <2>1. Append(stdout, Fatal) \in Seq(Lines)
    OBVIOUS
  <2>2. stdout' \in Seq(Lines)
    BY <1>2, <2>1, Zenon DEF Raise
  <2>3. server' = "dead" /\ stdin' = <<>> /\ UNCHANGED <<caller, serving>>
    BY <1>2 DEF Raise, EndProcess
  <2> QED BY <2>2, <2>3
<1>3. CASE Take
  <2>1. stdin \in Seq(0..MaxCalls) /\ stdin # <<>>
    BY <1>3 DEF Take
  <2>2. Head(stdin) \in 0..MaxCalls /\ Tail(stdin) \in Seq(0..MaxCalls)
    BY <2>1, HeadTailProperties
  <2>3. serving' \in 0..MaxCalls /\ stdin' \in Seq(0..MaxCalls)
    BY <1>3, <2>2, Zenon DEF Take
  <2>4. server' = "working" /\ UNCHANGED <<caller, stdout>>
    BY <1>3 DEF Take
  <2> QED BY <2>3, <2>4
<1>4. CASE Answer
  <2>1. Append(stdout, Line(serving)) \in Seq(Lines)
    OBVIOUS
  <2>2. stdout' \in Seq(Lines)
    BY <1>4, <2>1, Zenon DEF Answer
  <2>3. server' = "releasing" /\ UNCHANGED <<caller, serving, stdin>>
    BY <1>4 DEF Answer
  <2> QED BY <2>2, <2>3
<1>5. CASE Release
  BY <1>5 DEF Release
<1>6. CASE Kill \/ Die
  <2>1. stdin' \in Seq(0..MaxCalls)
    BY <1>6, Zenon DEF Kill, Die, EndProcess
  <2>2. server' = "dead" /\ UNCHANGED <<caller, serving, stdout>>
    BY <1>6 DEF Kill, Die, EndProcess
  <2> QED BY <2>1, <2>2
<1> QED BY <1>1, <1>2, <1>3, <1>4, <1>5, <1>6 DEF Server

LEMMA WorkerKeepsTypes ==
  ASSUME PipeTypeOK, Worker PROVE PipeTypeOK'
<1> USE LinesAreTyped, CallsAssumption DEF PipeTypeOK, process
<1>1. CASE Call
  BY <1>1 DEF Call
<1>2. CASE Encode
  BY <1>2 DEF Encode
<1>3. CASE Decode
  <2>1. Head(stdout) \in Lines /\ Tail(stdout) \in Seq(Lines)
    BY <1>3 DEF Decode
  <2>2. reply' \in Lines /\ stdout' \in Seq(Lines)
    BY <1>3, <2>1, Zenon DEF Decode
  <2>3. io' = "done" /\ UNCHANGED <<exchange, call, got, cancelled, process, stdin>>
    BY <1>3 DEF Decode
  <2> QED BY <2>2, <2>3
<1>4. CASE EncodeFails \/ DecodeFails
  BY <1>4 DEF EncodeFails, DecodeFails
<1>5. CASE Return
  BY <1>5 DEF Return
<1>6. CASE Timeout \/ Drained \/ Close
  BY <1>6 DEF Timeout, Drained, Close
<1> QED BY <1>1, <1>2, <1>3, <1>4, <1>5, <1>6 DEF Worker

(* The state of the pipe is well typed, for any number of calls. *)
THEOREM PipeTypes == PipeSpec => []PipeTypeOK
<1>1. PipeInit => PipeTypeOK
  BY LinesAreTyped DEF PipeInit, PipeTypeOK
<1>2. PipeTypeOK /\ [PipeNext]_pipeVars => PipeTypeOK'
  <2> SUFFICES ASSUME PipeTypeOK, [PipeNext]_pipeVars PROVE PipeTypeOK'
    OBVIOUS
  <2>1. CASE PipeNext
    BY <2>1, ServerKeepsTypes, WorkerKeepsTypes DEF PipeNext
  <2>2. CASE UNCHANGED pipeVars
    BY <2>2 DEF pipeVars, caller, process, PipeTypeOK
  <2> QED BY <2>1, <2>2
<1> QED BY <1>1, <1>2, PTL DEF PipeSpec
=============================================================================
