------------------------------ MODULE S3Upload ------------------------------
(***************************************************************************)
(* UploadToS3: a small file is put in one call, a large one is uploaded in *)
(* parts by several goroutines that share a channel of parts, an error and *)
(* a context; then the size of the stored object is verified.  One action  *)
(* is one call of the storage, or the local code between two calls.        *)
(***************************************************************************)
EXTENDS Integers

CONSTANTS
  PartCount,     \* number of parts of a large file
  Concurrency    \* S3_UPLOAD_CONCURRENCY as configured

ASSUME UploadAssumption == PartCount \in Nat \ {0} /\ Concurrency \in Int

Parts == 1..PartCount

(* The goroutines: at least one, and no more than there are parts. *)
Uploaders ==
  1..(IF Concurrency < 1 THEN 1
      ELSE IF Concurrency > PartCount THEN PartCount ELSE Concurrency)

VARIABLES
  at,          \* where the call of UploadToS3 is
  ok,          \* did it return nil?
  cancelled,   \* is its context cancelled?
  next,        \* head of the channel of parts
  uploader,    \* the state of each goroutine
  completed,   \* the parts with an entry in completedParts
  firstErr,    \* is firstErr set, and with it uploadCtx cancelled?
  upload,      \* the multipart upload in storage
  object,      \* the parts of the file that the stored object holds
  leaked       \* did a create lose its reply, or an abort fail?

vars == <<at, ok, cancelled, next, uploader, completed, firstErr, upload, object, leaked>>

Places == {"put", "create", "upload", "complete", "abort", "verify", "returned"}

Idle == [at |-> "idle", part |-> 0]
Done == [at |-> "done", part |-> 0]
UploaderState == {Idle, Done} \cup [at : {"check", "send"}, part : Parts]

TypeOK ==
  /\ at \in Places
  /\ ok \in BOOLEAN
  /\ cancelled \in BOOLEAN
  /\ next \in 1..(PartCount + 1)
  /\ uploader \in [Uploaders -> UploaderState]
  /\ completed \in SUBSET Parts
  /\ firstErr \in BOOLEAN
  /\ upload \in {"none", "open", "completed", "aborted"}
  /\ object \in SUBSET Parts
  /\ leaked \in BOOLEAN

(* The file is small or large; its key is new, so nothing is stored yet. *)
Init ==
  /\ at \in {"put", "create"}
  /\ ok = FALSE
  /\ cancelled = FALSE
  /\ next = 1
  /\ uploader = [u \in Uploaders |-> Idle]
  /\ completed = {}
  /\ firstErr = FALSE
  /\ upload = "none"
  /\ object = {}
  /\ leaked = FALSE

pool == <<next, uploader, completed, firstErr>>
storage == <<upload, object, leaked>>

-----------------------------------------------------------------------------
(* A small file. *)

(* The storage acknowledges the object; it may have kept less than it got. *)
PutObject ==
  /\ at = "put" /\ ~cancelled
  /\ object' \in SUBSET Parts
  /\ at' = "verify"
  /\ UNCHANGED <<ok, cancelled, pool, upload, leaked>>

(* The call fails, with or without an object left behind. *)
PutObjectFails ==
  /\ at = "put"
  /\ object' \in SUBSET Parts
  /\ at' = "returned"
  /\ UNCHANGED <<ok, cancelled, pool, upload, leaked>>

-----------------------------------------------------------------------------
(* A large file. *)

CreateMultipartUpload ==
  /\ at = "create" /\ ~cancelled
  /\ upload' = "open"
  /\ at' = "upload"
  /\ UNCHANGED <<ok, cancelled, pool, object, leaked>>

(* No reply, no upload ID: nobody can abort the upload if it was created. *)
CreateFails ==
  /\ at = "create"
  /\ \/ UNCHANGED storage
     \/ upload' = "open" /\ leaked' = TRUE /\ UNCHANGED object
  /\ at' = "returned"
  /\ UNCHANGED <<ok, cancelled, pool>>

(* Mutant: the channel is never closed. *)
TakeFromOpenChannel(u) ==
  /\ at = "upload" /\ uploader[u] = Idle
  /\ next <= PartCount
  /\ uploader' = [uploader EXCEPT ![u] = [at |-> "check", part |-> next]]
  /\ next' = next + 1
  /\ UNCHANGED <<at, ok, cancelled, completed, firstErr, storage>>

(* A goroutine takes the next part, or leaves when the channel is empty. *)
Take(u) ==
  /\ at = "upload" /\ uploader[u] = Idle
  /\ IF next <= PartCount
       THEN /\ uploader' = [uploader EXCEPT ![u] = [at |-> "check", part |-> next]]
            /\ next' = next + 1
       ELSE /\ uploader' = [uploader EXCEPT ![u] = Done]
            /\ UNCHANGED next
  /\ UNCHANGED <<at, ok, cancelled, completed, firstErr, storage>>

(* It drops the part and leaves, without an error, if uploadCtx is cancelled. *)
Check(u) ==
  /\ uploader[u].at = "check"
  /\ uploader' = [uploader EXCEPT ![u] = IF cancelled \/ firstErr THEN Done
                                         ELSE [@ EXCEPT !.at = "send"]]
  /\ UNCHANGED <<at, ok, cancelled, next, completed, firstErr, storage>>

UploadPart(u) ==
  /\ uploader[u].at = "send"
  /\ completed' = completed \cup {uploader[u].part}
  /\ uploader' = [uploader EXCEPT ![u] = Idle]
  /\ UNCHANGED <<at, ok, cancelled, next, firstErr, storage>>

(* The first error is kept and cancels uploadCtx. *)
UploadPartFails(u) ==
  /\ uploader[u].at = "send"
  /\ firstErr' = TRUE
  /\ uploader' = [uploader EXCEPT ![u] = Done]
  /\ UNCHANGED <<at, ok, cancelled, next, completed, storage>>

(* Mutants: the first error does not wait; cancellation does not abort. *)
GatherAtFirstError ==
  /\ at = "upload"
  /\ firstErr \/ \A u \in Uploaders : uploader[u] = Done
  /\ at' = IF firstErr \/ cancelled THEN "abort" ELSE "complete"
  /\ UNCHANGED <<ok, cancelled, pool, storage>>
GatherWithoutAbort ==
  /\ at = "upload"
  /\ \A u \in Uploaders : uploader[u] = Done
  /\ at' = IF firstErr THEN "abort" ELSE IF cancelled THEN "returned" ELSE "complete"
  /\ UNCHANGED <<ok, cancelled, pool, storage>>
GatherUnchecked ==
  /\ at = "upload"
  /\ \A u \in Uploaders : uploader[u] = Done
  /\ at' = IF firstErr THEN "abort" ELSE "complete"
  /\ UNCHANGED <<ok, cancelled, pool, storage>>

(* When every goroutine has left, an error or a cancellation aborts. *)
Gather ==
  /\ at = "upload"
  /\ \A u \in Uploaders : uploader[u] = Done
  /\ at' = IF firstErr \/ cancelled THEN "abort" ELSE "complete"
  /\ UNCHANGED <<ok, cancelled, pool, storage>>

(* The storage assembles the listed parts; it may keep less. *)
Assemble == upload' = "completed" /\ object' \in SUBSET completed

CompleteMultipartUpload ==
  /\ at = "complete" /\ ~cancelled
  /\ Assemble
  /\ at' = "verify"
  /\ UNCHANGED <<ok, cancelled, pool, leaked>>

(* The call fails, but may have been applied. *)
CompleteFails ==
  /\ at = "complete"
  /\ Assemble \/ UNCHANGED <<upload, object>>
  /\ at' = "abort"
  /\ UNCHANGED <<ok, cancelled, pool, leaked>>

(* Abort runs on a context of its own; a completed upload is not found. *)
AbortMultipartUpload ==
  /\ at = "abort"
  /\ \/ /\ upload' = IF upload = "open" THEN "aborted" ELSE upload
        /\ UNCHANGED leaked
     \/ /\ leaked' = TRUE
        /\ UNCHANGED upload
  /\ at' = "returned"
  /\ UNCHANGED <<ok, cancelled, pool, object>>

-----------------------------------------------------------------------------
(* Verification, and the caller. *)

(* Mutant: any object will do. *)
VerifyExists ==
  /\ at = "verify" /\ ~cancelled
  /\ ok' = (object # {})
  /\ at' = "returned"
  /\ UNCHANGED <<cancelled, pool, storage>>

(* The object has the size of the file, or the upload is an error. *)
Verify ==
  /\ at = "verify" /\ ~cancelled
  /\ ok' = (object = Parts)
  /\ at' = "returned"
  /\ UNCHANGED <<cancelled, pool, storage>>

VerifyFails ==
  /\ at = "verify"
  /\ at' = "returned"
  /\ UNCHANGED <<ok, cancelled, pool, storage>>

(* The run of the job is cancelled. *)
Cancel ==
  /\ at # "returned" /\ ~cancelled
  /\ cancelled' = TRUE
  /\ UNCHANGED <<at, ok, pool, storage>>

Goroutine(u) == Take(u) \/ Check(u) \/ UploadPart(u) \/ UploadPartFails(u)

Call ==
  \/ PutObject \/ PutObjectFails
  \/ CreateMultipartUpload \/ CreateFails
  \/ Gather \/ CompleteMultipartUpload \/ CompleteFails \/ AbortMultipartUpload
  \/ Verify \/ VerifyFails

Next == Call \/ (\E u \in Uploaders : Goroutine(u)) \/ Cancel

Spec == Init /\ [][Next]_vars

(* Runnable goroutines run, and every call of the storage comes back. *)
FairSpec == Spec /\ WF_vars(Call) /\ \A u \in Uploaders : WF_vars(Goroutine(u))
-----------------------------------------------------------------------------
(* Properties. *)

(***************************************************************************)
(* An upload is completed only when every part has its entry, whichever    *)
(* goroutine saw an error or the cancellation first: a goroutine that      *)
(* leaves early never makes an incomplete upload look finished.            *)
(***************************************************************************)
CompleteListsEveryPart == at = "complete" => completed = Parts

(* A successful upload left the whole file in storage, whatever it kept. *)
SuccessIsWhole == ok => object = Parts

(***************************************************************************)
(* When the call returns, its multipart upload is completed or aborted,    *)
(* unless the create lost its reply or the abort itself failed.            *)
(***************************************************************************)
UploadsAreClosed == at = "returned" /\ upload = "open" => leaked

(***************************************************************************)
(* Parts are sent only to an open upload of a call that is still waiting:  *)
(* none is in flight when the upload is completed or aborted, or when the  *)
(* file is closed.                                                         *)
(***************************************************************************)
PartsGoToOpenUploads ==
  \A u \in Uploaders : uploader[u].at = "send" => at = "upload" /\ upload = "open"

(* Every call returns: no goroutine waits for a part that never comes. *)
Returns == <>(at = "returned")

-----------------------------------------------------------------------------
(* The inductive strengthening of the safety invariants. *)

(* A part that left the channel is uploaded, held, or given up with a reason. *)
PartIsAccounted(p) ==
  \/ p \in completed
  \/ \E u \in Uploaders : uploader[u].at \in {"check", "send"} /\ uploader[u].part = p
  \/ firstErr \/ cancelled

(* A goroutine leaves an empty channel, or with a reason. *)
LeavesForReason(u) == uploader[u] = Done => next > PartCount \/ firstErr \/ cancelled

(***************************************************************************)
(* Every part that left the channel is accounted for until Gather has seen *)
(* the reasons to give up, and the call is where its upload says it is.    *)
(***************************************************************************)
Accounting ==
  /\ \A p \in Parts : p < next => PartIsAccounted(p)
  /\ \A u \in Uploaders : LeavesForReason(u)
  /\ at # "upload" => \A u \in Uploaders : uploader[u].at \notin {"check", "send"}
  /\ at \in {"put", "create"} => upload = "none"
  /\ at \in {"upload", "complete"} => upload = "open"
  /\ at = "verify" => upload # "open"
  /\ ok => at = "returned"
=============================================================================
