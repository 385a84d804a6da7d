------------------------------- MODULE MossPipe -------------------------------
(***************************************************************************)
(* The pipe between the worker and its MOSS process: the exchange that     *)
(* writes a request and reads the next line, with its time-outs, and the   *)
(* server that answers line by line.  Nothing on the pipe says which       *)
(* request a line answers.                                                 *)
(***************************************************************************)
EXTENDS Naturals, Sequences

CONSTANT MaxCalls    \* bound on the calls of the model's life

ASSUME CallsAssumption == MaxCalls \in Nat

VARIABLES
  exchange,     \* the call: idle, in the select, waiting for done after a time-out, or the pipe closed
  io,           \* the goroutine of exchange: encoding, decoding, or done
  reply,        \* what it sends to done
  call,         \* number of calls; the start-up is call 0
  got,          \* what the last exchange returned
  cancelled,    \* the context of the process is cancelled
  server,       \* the MOSS process
  serving,      \* the request it works on
  stdin, stdout \* the pipes

caller == <<exchange, io, reply, call, got, cancelled>>
process == <<server, serving>>
pipeVars == <<caller, process, stdin, stdout>>

Fatal == [to |-> 0, kind |-> "fatal"]     \* {"ready": false, "error": ...}, the last line
Failed == [to |-> 0, kind |-> "failed"]   \* an error of the exchange itself
Line(n) == [to |-> n, kind |-> "answer"]  \* a result, a ready, or the error of one request

Lines == {Line(n) : n \in 0..MaxCalls} \cup {Fatal}

PipeTypeOK ==
  /\ exchange \in {"idle", "waiting", "draining", "closed"}
  /\ io \in {"encode", "decode", "done"}
  /\ reply \in Lines \cup {Failed} /\ got \in Lines \cup {Failed}
  /\ call \in 0..MaxCalls
  /\ cancelled \in BOOLEAN
  /\ server \in {"loading", "waiting", "working", "releasing", "dead"}
  /\ serving \in 0..MaxCalls
  /\ stdin \in Seq(0..MaxCalls) /\ stdout \in Seq(Lines)

(* startService has started the process and waits for its first line. *)
PipeInit ==
  /\ exchange = "waiting" /\ io = "decode" /\ reply = Failed
  /\ call = 0 /\ got = Failed
  /\ cancelled = FALSE
  /\ server = "loading" /\ serving = 0
  /\ stdin = <<>> /\ stdout = <<>>

-----------------------------------------------------------------------------
(* The worker. *)

(* A ping or a transcription, when the model has been started. *)
Call ==
  /\ exchange = "idle" /\ call < MaxCalls
  /\ exchange' = "waiting" /\ io' = "encode" /\ call' = call + 1
  /\ UNCHANGED <<reply, got, cancelled, process, stdin, stdout>>

Encode ==
  /\ io = "encode" /\ server # "dead"
  /\ io' = "decode" /\ stdin' = Append(stdin, call)
  /\ UNCHANGED <<exchange, reply, call, got, cancelled, process, stdout>>

(* The pipe is broken. *)
EncodeFails ==
  /\ io = "encode" /\ server = "dead"
  /\ io' = "done" /\ reply' = Failed
  /\ UNCHANGED <<exchange, call, got, cancelled, process, stdin, stdout>>

Decode ==
  /\ io = "decode" /\ stdout # <<>>
  /\ io' = "done" /\ reply' = Head(stdout) /\ stdout' = Tail(stdout)
  /\ UNCHANGED <<exchange, call, got, cancelled, process, stdin>>

(* The process ended without a line. *)
DecodeFails ==
  /\ io = "decode" /\ stdout = <<>> /\ server = "dead"
  /\ io' = "done" /\ reply' = Failed
  /\ UNCHANGED <<exchange, call, got, cancelled, process, stdin, stdout>>

(* A start-up that was not ready ends in Close. *)
Return ==
  /\ exchange = "waiting" /\ io = "done"
  /\ got' = reply
  /\ exchange' = IF call = 0 /\ reply # Line(0) THEN "closed" ELSE "idle"
  /\ cancelled' = (cancelled \/ exchange' = "closed")
  /\ UNCHANGED <<io, reply, call, process, stdin, stdout>>

(* Mutant: the process is left alone, and the goroutine to itself. *)
TimeoutOnly ==
  /\ exchange = "waiting"
  /\ exchange' = "idle" /\ got' = Failed
  /\ UNCHANGED <<io, reply, call, cancelled, process, stdin, stdout>>

(* Mutant: the process is left alone. *)
TimeoutWithoutKill ==
  /\ exchange = "waiting"
  /\ exchange' = "draining"
  /\ UNCHANGED <<io, reply, call, got, cancelled, process, stdin, stdout>>

(* The time-out of the call, or the cancellation of its context. *)
Timeout ==
  /\ exchange = "waiting"
  /\ exchange' = "draining" /\ cancelled' = TRUE
  /\ UNCHANGED <<io, reply, call, got, process, stdin, stdout>>

(* The goroutine is done: whatever it read is dropped. *)
Drained ==
  /\ exchange = "draining" /\ io = "done"
  /\ exchange' = (IF call = 0 THEN "closed" ELSE "idle") /\ got' = Failed
  /\ UNCHANGED <<io, reply, call, cancelled, process, stdin, stdout>>

Close ==
  /\ exchange = "idle"
  /\ exchange' = "closed" /\ cancelled' = TRUE
  /\ UNCHANGED <<io, reply, call, got, process, stdin, stdout>>

-----------------------------------------------------------------------------
(* The process. *)

EndProcess == server' = "dead" /\ stdin' = <<>> /\ UNCHANGED <<caller, serving>>

Loaded ==
  /\ server = "loading"
  /\ server' = "waiting" /\ stdout' = Append(stdout, Line(0))
  /\ UNCHANGED <<caller, serving, stdin>>

(* Its main function raises: it emits a last line and exits. *)
Raise ==
  /\ server \in {"loading", "releasing"}
  /\ stdout' = Append(stdout, Fatal) /\ EndProcess

Take ==
  /\ server = "waiting" /\ stdin # <<>>
  /\ server' = "working" /\ serving' = Head(stdin) /\ stdin' = Tail(stdin)
  /\ UNCHANGED <<caller, stdout>>

(* Mutant: a failing request is answered twice, by its handler and by its result. *)
AnswerTwice ==
  /\ server = "working"
  /\ server' \in {"releasing", "working"} /\ stdout' = Append(stdout, Line(serving))
  /\ UNCHANGED <<caller, serving, stdin>>

(* A result, or the error of the request: one line in either case. *)
Answer ==
  /\ server = "working"
  /\ server' = "releasing" /\ stdout' = Append(stdout, Line(serving))
  /\ UNCHANGED <<caller, serving, stdin>>

(* release_chunk_memory. *)
Release ==
  /\ server = "releasing"
  /\ server' = "waiting"
  /\ UNCHANGED <<caller, serving, stdin, stdout>>

(* It is killed after the cancellation; its stdin may be closed too. *)
Kill == cancelled /\ server # "dead" /\ EndProcess /\ UNCHANGED stdout

(* It dies by itself, or the machine runs out of memory. *)
Die == server # "dead" /\ EndProcess /\ UNCHANGED stdout

Worker ==
  \/ Call \/ Encode \/ EncodeFails \/ Decode \/ DecodeFails
  \/ Return \/ Timeout \/ Drained \/ Close
Server == Loaded \/ Raise \/ Take \/ Answer \/ Release \/ Kill \/ Die

PipeNext == Worker \/ Server

PipeSpec == PipeInit /\ [][PipeNext]_pipeVars

(* Goroutines run, every call has a deadline, and a killed process ends. *)
PipeFairness ==
  /\ WF_pipeVars(Encode \/ EncodeFails \/ Decode \/ DecodeFails)
  /\ WF_pipeVars(Return \/ Drained) /\ WF_pipeVars(Timeout) /\ WF_pipeVars(Kill)

-----------------------------------------------------------------------------
(* Properties. *)

(***************************************************************************)
(* An exchange that returns a line returns the answer to its own request,  *)
(* never one that an earlier call stopped waiting for.                     *)
(***************************************************************************)
AnswerIsMine == exchange \in {"idle", "closed"} /\ got.kind = "answer" => got.to = call

(* Between two calls nothing is on its way: no request, no answer, no one at work. *)
NothingIsUnderWay ==
  exchange = "idle" => stdin = <<>> /\ server # "working" /\ stdout \in {<<>>, <<Fatal>>}

(* Every call returns, also when the model hangs or dies. *)
CallsReturn == exchange \in {"waiting", "draining"} ~> exchange \in {"idle", "closed"}
=============================================================================
