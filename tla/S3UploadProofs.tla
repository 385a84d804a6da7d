--------------------------- MODULE S3UploadProofs ---------------------------
(* Theorems about S3Upload, for every number of parts and any concurrency. *)
EXTENDS S3Upload, TLAPS

Inv == /\ TypeOK
       /\ Accounting
       /\ CompleteListsEveryPart
       /\ SuccessIsWhole
       /\ UploadsAreClosed

(* There is always a goroutine, also when none was configured. *)
LEMMA SomeUploader == 1 \in Uploaders
BY UploadAssumption DEF Uploaders

LEMMA InitInv == Init => Inv
<1> SUFFICES ASSUME Init PROVE Inv
  OBVIOUS
<1>1. TypeOK
  <2>1. next \in 1..(PartCount + 1)
    BY UploadAssumption DEF Init
  <2>2. uploader \in [Uploaders -> UploaderState]
    BY DEF Init, UploaderState
  <2> QED BY <2>1, <2>2 DEF Init, TypeOK, Places
<1>2. Accounting
  BY UploadAssumption DEF Init, Accounting, LeavesForReason, Idle, Done, Parts
<1> QED BY <1>1, <1>2 DEF Init, Inv, CompleteListsEveryPart, SuccessIsWhole, UploadsAreClosed

(* Calls and goroutines leave every variable well typed. *)
LEMMA TypeStep == TypeOK /\ [Next]_vars => TypeOK'
<1> SUFFICES ASSUME TypeOK, [Next]_vars PROVE TypeOK'
  OBVIOUS
<1> USE UploadAssumption DEF TypeOK, pool, storage
<1>1. CASE Call
  BY <1>1 DEF Call, PutObject, PutObjectFails, CreateMultipartUpload, CreateFails, Gather,
    CompleteMultipartUpload, CompleteFails, Assemble, AbortMultipartUpload, Verify,
    VerifyFails, Places
<1>2. ASSUME NEW u \in Uploaders, Take(u) PROVE TypeOK'
  <2>1. CASE next <= PartCount
    <3>1. next \in Parts /\ next + 1 \in 1..(PartCount + 1)
      BY <2>1 DEF Parts
    <3>2. [at |-> "check", part |-> next] \in UploaderState
      BY <3>1 DEF UploaderState
    <3> QED BY <1>2, <2>1, <3>1, <3>2 DEF Take
  <2>2. CASE ~(next <= PartCount)
    BY <1>2, <2>2 DEF Take, UploaderState
  <2> QED BY <2>1, <2>2
<1>3. ASSUME NEW u \in Uploaders, Check(u) PROVE TypeOK'
  <2>1. [uploader[u] EXCEPT !.at = "send"] \in UploaderState
    BY <1>3 DEF Check, UploaderState, Idle, Done
  <2> QED BY <1>3, <2>1 DEF Check, UploaderState
<1>4. ASSUME NEW u \in Uploaders, UploadPart(u) \/ UploadPartFails(u) PROVE TypeOK'
  <2>1. uploader[u].part \in Parts
    BY <1>4 DEF UploadPart, UploadPartFails, UploaderState, Idle, Done
  <2> QED BY <1>4, <2>1 DEF UploadPart, UploadPartFails, UploaderState
<1>5. CASE Cancel
  BY <1>5 DEF Cancel
<1>6. CASE UNCHANGED vars
  BY <1>6 DEF vars
<1> QED BY <1>1, <1>2, <1>3, <1>4, <1>5, <1>6 DEF Next, Goroutine

(* A goroutine that moves keeps every part accounted for. *)
LEMMA GoroutineAccounting ==
  ASSUME Inv, NEW u \in Uploaders, Goroutine(u)
  PROVE  Accounting'
<1> USE DEF Inv
<1>0. at = "upload" /\ at' = at /\ UNCHANGED <<ok, cancelled, storage>>
  BY DEF Goroutine, Take, Check, UploadPart, UploadPartFails, Accounting, Idle
<1>1. ASSUME NEW p \in Parts, p < next' PROVE PartIsAccounted(p)'
  <2>1. CASE Take(u)
    <3>1. CASE next <= PartCount
      <4>1. uploader' = [uploader EXCEPT ![u] = [at |-> "check", part |-> next]]
        BY <2>1, <3>1 DEF Take
      <4>2. uploader[u] = Idle /\ next' = next + 1 /\ UNCHANGED <<completed, firstErr>>
        BY <2>1, <3>1 DEF Take
      <4>3. CASE p = next
        BY <4>1, <4>3 DEF PartIsAccounted, TypeOK
      <4>4. CASE p < next
        <5>1. PartIsAccounted(p)
          BY <4>4 DEF Accounting
        <5>2. ASSUME NEW v \in Uploaders, uploader[v].at \in {"check", "send"},
                     uploader[v].part = p
              PROVE  PartIsAccounted(p)'
          <6>1. v # u
            BY <4>2, <5>2 DEF Idle
          <6> QED BY <4>1, <5>2, <6>1 DEF PartIsAccounted, TypeOK
        <5> QED BY <1>0, <4>2, <5>1, <5>2 DEF PartIsAccounted
      <4> QED BY <1>1, <4>2, <4>3, <4>4 DEF TypeOK, Parts
    <3>2. CASE ~(next <= PartCount)
      <4>1. uploader[u] = Idle /\ UNCHANGED <<next, completed, firstErr>>
            /\ uploader' = [uploader EXCEPT ![u] = Done]
        BY <2>1, <3>2 DEF Take
      <4>2. PartIsAccounted(p)
        BY <1>1, <4>1 DEF Accounting
      <4>3. ASSUME NEW v \in Uploaders, uploader[v].at \in {"check", "send"},
                   uploader[v].part = p
            PROVE  PartIsAccounted(p)'
        <5>1. v # u
          BY <4>1, <4>3 DEF Idle
        <5> QED BY <4>1, <4>3, <5>1 DEF PartIsAccounted, TypeOK
      <4> QED BY <1>0, <4>1, <4>2, <4>3 DEF PartIsAccounted
    <3> QED BY <3>1, <3>2
  <2>2. CASE Check(u)
    <3>1. PartIsAccounted(p) /\ UNCHANGED <<completed, firstErr>>
      BY <1>1, <2>2 DEF Check, Accounting
    <3>2. ASSUME NEW v \in Uploaders, uploader[v].at \in {"check", "send"},
                 uploader[v].part = p, ~(cancelled \/ firstErr)
          PROVE  PartIsAccounted(p)'
      <4>1. uploader' = [uploader EXCEPT ![u] = [@ EXCEPT !.at = "send"]]
        BY <2>2, <3>2 DEF Check
      <4>2. uploader[u] \in UploaderState /\ uploader[u].at = "check"
        BY <2>2 DEF Check, TypeOK
      <4>3. uploader'[v].at \in {"check", "send"} /\ uploader'[v].part = p
        BY <3>2, <4>1, <4>2 DEF TypeOK, UploaderState, Idle, Done
      <4> QED BY <4>3 DEF PartIsAccounted
    <3> QED BY <1>0, <3>1, <3>2 DEF PartIsAccounted
  <2>3. CASE UploadPart(u)
    <3>1. PartIsAccounted(p) /\ UNCHANGED <<next, firstErr>>
      BY <1>1, <2>3 DEF UploadPart, Accounting
    <3>2. completed' = completed \cup {uploader[u].part}
          /\ uploader' = [uploader EXCEPT ![u] = Idle]
      BY <2>3 DEF UploadPart
    <3>3. ASSUME NEW v \in Uploaders, uploader[v].at \in {"check", "send"},
                 uploader[v].part = p
          PROVE  PartIsAccounted(p)'
      <4>1. CASE v = u
        BY <3>2, <3>3, <4>1 DEF PartIsAccounted
      <4>2. CASE v # u
        BY <3>2, <3>3, <4>2 DEF PartIsAccounted, TypeOK
      <4> QED BY <4>1, <4>2
    <3> QED BY <1>0, <3>1, <3>2, <3>3 DEF PartIsAccounted
  <2>4. CASE UploadPartFails(u)
    BY <2>4 DEF UploadPartFails, PartIsAccounted
  <2> QED BY <2>1, <2>2, <2>3, <2>4 DEF Goroutine
<1>2. ASSUME NEW v \in Uploaders, uploader'[v] = Done PROVE LeavesForReason(v)'
  <2>1. CASE v = u
    <3>1. CASE Take(u)
      BY <1>2, <2>1, <3>1, UploadAssumption DEF Take, LeavesForReason, TypeOK, Done
    <3>2. CASE Check(u)
      <4>1. CASE cancelled \/ firstErr
        BY <1>0, <3>2, <4>1 DEF Check, LeavesForReason
      <4>2. CASE ~(cancelled \/ firstErr)
        <5>1. uploader'[u].at = "send"
          BY <3>2, <4>2 DEF Check, TypeOK, UploaderState, Idle, Done
        <5> QED BY <1>2, <2>1, <5>1 DEF Done
      <4> QED BY <4>1, <4>2
    <3>3. CASE UploadPart(u)
      BY <1>2, <2>1, <3>3 DEF UploadPart, TypeOK, Idle, Done
    <3>4. CASE UploadPartFails(u)
      BY <3>4 DEF UploadPartFails, LeavesForReason
    <3> QED BY <3>1, <3>2, <3>3, <3>4 DEF Goroutine
  <2>2. CASE v # u
    <3>1. uploader[v] = Done /\ next' \in {next, next + 1} /\ (firstErr => firstErr')
      BY <1>2, <2>2 DEF Goroutine, Take, Check, UploadPart, UploadPartFails, TypeOK
    <3>2. next > PartCount \/ firstErr \/ cancelled
      BY <3>1 DEF Accounting, LeavesForReason
    <3> QED BY <1>0, <3>1, <3>2, UploadAssumption DEF LeavesForReason, TypeOK
  <2> QED BY <2>1, <2>2
<1>3. \A v \in Uploaders : LeavesForReason(v)'
  BY <1>2 DEF LeavesForReason
<1> QED BY <1>0, <1>1, <1>3 DEF Accounting, storage

(* When every goroutine has left for no reason, every part was uploaded. *)
LEMMA AllPartsCompleted ==
  ASSUME Inv, \A u \in Uploaders : uploader[u] = Done, ~firstErr, ~cancelled
  PROVE  completed = Parts
<1>1. next > PartCount
  BY SomeUploader DEF Inv, Accounting, LeavesForReason
<1>2. ASSUME NEW p \in Parts PROVE p \in completed
  <2>1. p < next
    BY <1>1, UploadAssumption DEF Parts, Inv, TypeOK
  <2>2. PartIsAccounted(p)
    BY <2>1 DEF Inv, Accounting
  <2> QED BY <2>2 DEF PartIsAccounted, Done
<1> QED BY <1>2 DEF Inv, TypeOK

(***************************************************************************)
(* The invariant is inductive, step by step of the call, of its goroutines *)
(* and of the cancellation.                                                *)
(***************************************************************************)
LEMMA NextInv == Inv /\ [Next]_vars => Inv'
<1> SUFFICES ASSUME Inv, [Next]_vars PROVE Inv'
  OBVIOUS
<1>0. TypeOK'
  BY TypeStep DEF Inv
<1>1. CASE Gather
  <2>1. at' = "complete" => completed = Parts
    BY <1>1, AllPartsCompleted DEF Gather
  <2>2. Accounting'
    BY <1>1 DEF Gather, Inv, Accounting, PartIsAccounted, LeavesForReason, pool, storage, Done
  <2> QED BY <1>0, <1>1, <2>1, <2>2
        DEF Gather, Inv, CompleteListsEveryPart, SuccessIsWhole, UploadsAreClosed, pool, storage, Accounting
<1>2. CASE Call /\ ~Gather
  <2>1. UNCHANGED <<pool, cancelled>> /\ at # "upload" /\ at' # "complete"
    BY <1>2 DEF Call, PutObject, PutObjectFails, CreateMultipartUpload, CreateFails,
      CompleteMultipartUpload, CompleteFails, AbortMultipartUpload, Verify, VerifyFails
  <2>2. /\ at' \in {"put", "create"} => upload' = "none"
        /\ at' = "upload" => upload' = "open"
        /\ at' = "verify" => upload' # "open"
        /\ ok' => at' = "returned"
        /\ SuccessIsWhole'
        /\ UploadsAreClosed'
    <3> USE DEF Inv, Accounting, SuccessIsWhole, UploadsAreClosed
    <3>1. CASE PutObject \/ PutObjectFails
      BY <3>1 DEF PutObject, PutObjectFails
    <3>2. CASE CreateMultipartUpload \/ CreateFails
      BY <3>2 DEF CreateMultipartUpload, CreateFails, storage
    <3>3. CASE CompleteMultipartUpload \/ CompleteFails
      BY <3>3 DEF CompleteMultipartUpload, CompleteFails, Assemble
    <3>4. CASE AbortMultipartUpload
      BY <3>4 DEF AbortMultipartUpload
    <3>5. CASE Verify
      <4>1. UNCHANGED <<upload, object, leaked>> /\ at = "verify" /\ at' = "returned"
        BY <3>5 DEF Verify, storage
      <4>2. ok' => object' = Parts
        BY <3>5, <4>1 DEF Verify
      <4>3. UploadsAreClosed'
        BY <4>1
      <4> QED BY <4>1, <4>2, <4>3
    <3>6. CASE VerifyFails
      BY <3>6 DEF VerifyFails, storage
    <3> QED BY <1>2, <3>1, <3>2, <3>3, <3>4, <3>5, <3>6 DEF Call
  <2>3. Accounting'
    BY <2>1, <2>2 DEF Inv, Accounting, PartIsAccounted, LeavesForReason, pool
  <2> QED BY <1>0, <2>1, <2>2, <2>3 DEF Inv, CompleteListsEveryPart
<1>3. ASSUME NEW u \in Uploaders, Goroutine(u) PROVE Inv'
  <2>1. at = "upload" /\ UNCHANGED <<at, ok, storage>>
    BY <1>3 DEF Goroutine, Take, Check, UploadPart, UploadPartFails, Inv, Accounting
  <2> QED BY <1>0, <1>3, <2>1, GoroutineAccounting
        DEF Inv, CompleteListsEveryPart, SuccessIsWhole, UploadsAreClosed, storage
<1>4. CASE Cancel \/ UNCHANGED vars
  BY <1>0, <1>4 DEF Cancel, vars, Inv, Accounting, PartIsAccounted, LeavesForReason,
    CompleteListsEveryPart, SuccessIsWhole, UploadsAreClosed, pool, storage
<1> QED BY <1>1, <1>2, <1>3, <1>4 DEF Next

LEMMA UploadInv == Spec => []Inv
BY InitInv, NextInv, PTL DEF Spec

(* The state of an upload is well typed, for any number of parts and goroutines. *)
THEOREM UploadTypes == Spec => []TypeOK
<1>1. Inv => TypeOK
  BY DEF Inv
<1> QED BY <1>1, UploadInv, PTL

(***************************************************************************)
(* A multipart upload is completed with all of its parts or not at all,    *)
(* however the goroutines, the first error and the cancellation race.      *)
(***************************************************************************)
THEOREM CompleteIsComplete == Spec => []CompleteListsEveryPart
<1>1. Inv => CompleteListsEveryPart
  BY DEF Inv
<1> QED BY <1>1, UploadInv, PTL

(***************************************************************************)
(* No upload stays open behind a call that returned, but for a lost reply  *)
(* to its creation or a failed abort.                                      *)
(***************************************************************************)
THEOREM UploadsAlwaysClosed == Spec => []UploadsAreClosed
<1>1. Inv => UploadsAreClosed
  BY DEF Inv
<1> QED BY <1>1, UploadInv, PTL

(***************************************************************************)
(* No part is in flight once the call completes or aborts its upload.      *)
(***************************************************************************)
THEOREM PartsStayInside == Spec => []PartsGoToOpenUploads
<1>1. Inv => PartsGoToOpenUploads
  BY DEF Inv, Accounting, PartsGoToOpenUploads
<1> QED BY <1>1, UploadInv, PTL

(***************************************************************************)
(* A call that returns nil has left every part of the file in storage,     *)
(* whatever the storage kept of the parts it acknowledged.                 *)
(***************************************************************************)
THEOREM SuccessIsAlwaysWhole == Spec => []SuccessIsWhole
<1>1. Inv => SuccessIsWhole
  BY DEF Inv
<1> QED BY <1>1, UploadInv, PTL
=============================================================================
