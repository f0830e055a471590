--------------------------- MODULE AudioRetention ---------------------------
(***************************************************************************)
(* The audio file of a recording: presigned upload URLs, the confirmation   *)
(* of an upload, the request to delete it, and the threads that claim a     *)
(* deletion task, delete the file outside any transaction and report.       *)
(*                                                                          *)
(* Whoever holds a URL may write the file until the URL expires, and a      *)
(* write that began in time may end InFlight later; nobody locks the store. *)
(*                                                                          *)
(* An instant of the code is the time left until it, 0 once it is reached,  *)
(* so "now.isBefore(t)" is "t > 0"; Tick lets one unit pass.  Every         *)
(* transaction locks the upload row first, so it is one action.             *)
(***************************************************************************)
EXTENDS Naturals

CONSTANTS
    Uploads,           \* recording_audio_uploads, one for a recording
    Legacy,            \* reserved before last_upload_url_expires_at existed
    Clients,           \* requests that confirm an upload
    Workers,           \* threads of the retention executors, all instances
    UrlTtl,            \* uploadUrlTtl
    InFlight,          \* how long a write may take that began in time
    AudioRetention,    \* AUDIO_RETENTION
    UploadQuiescence,
    LegacyUrlValidity,
    ExecutionLease,
    MinBackoff,        \* the 60 seconds of retryBackoff
    MaxBackoff,        \* its 3600 seconds
    MaxAttempts,       \* bound: attempt numbers are used again from here on
    None

ASSUME TimesAssumption ==
    /\ {UrlTtl, InFlight, UploadQuiescence, LegacyUrlValidity} \subseteq Nat
    /\ {AudioRetention, ExecutionLease, MinBackoff, MaxBackoff, MaxAttempts} \subseteq Nat \ {0}
    /\ MinBackoff <= MaxBackoff

\* What the defaults give: two minutes and a slow write fit into thirty minutes,
\* and no presigned URL of S3 is valid for more than seven days.
ASSUME QuiescenceAssumption ==
    /\ InFlight + ExecutionLease <= UploadQuiescence
    /\ UrlTtl <= LegacyUrlValidity

ASSUME UploadsAssumption == Legacy \subseteq Uploads /\ None \notin Uploads

VARIABLES
    upload,    \* upload[u]: the RecordingAudioUpload row
    task,      \* task[u]: the RecordingAudioDeletionTask row
    noContent, \* uploads whose batch ended NO_CONTENT (DocumentGeneration)
    object,    \* object[u]: the store has the file
    writable,  \* writable[u]: how long the file may still be written
    client,    \* client[c]: a request between looking at the store and its transaction
    worker     \* worker[w]: what a deletion thread holds in memory

vars == <<upload, task, noContent, object, writable, client, worker>>

-----------------------------------------------------------------------------
(* Rows *)

\* quiet: until writes can have ended, as the service reckons: the recorded
\* expiry of the last URL, or completion and LegacyUrlValidity, and then
\* UploadQuiescence.
Upload == [status : {"NONE", "RESERVED", "COMPLETED"}, recorded : BOOLEAN, quiet : Nat,
           retention : Nat, deleted : BOOLEAN]

Task == [status : {"ABSENT", "PENDING", "RUNNING", "SUCCEEDED"}, attempt : Nat,
         next : Nat, lease : Nat, confirmation : Nat]

Request == [upload : Uploads \cup {None}, stored : BOOLEAN]

Execution == [pc : {"IDLE", "DISPATCHED", "CLAIMED", "ERASED", "FAILED"},
              upload : Uploads \cup {None}, attempt : Nat]

NoUpload == [status |-> "NONE", recorded |-> FALSE, quiet |-> 0, retention |-> 0,
             deleted |-> FALSE]
NoTask == [status |-> "ABSENT", attempt |-> 0, next |-> 0, lease |-> 0, confirmation |-> 0]
NoRequest == [upload |-> None, stored |-> FALSE]
Idle == [pc |-> "IDLE", upload |-> None, attempt |-> 0]

\* Every row, timer and thread keeps its type.
TypeOK ==
    /\ upload \in [Uploads -> Upload]
    /\ task \in [Uploads -> Task]
    /\ noContent \in SUBSET Uploads
    /\ object \in [Uploads -> BOOLEAN]
    /\ writable \in [Uploads -> Nat]
    /\ client \in [Clients -> Request]
    /\ worker \in [Workers -> Execution]

\* Legacy uploads were reserved, their URLs handed out and perhaps used.
Init ==
    /\ upload = [u \in Uploads |->
                   IF u \in Legacy THEN [NoUpload EXCEPT !.status = "RESERVED"] ELSE NoUpload]
    /\ task = [u \in Uploads |-> NoTask]
    /\ noContent = {}
    /\ object \in [Uploads -> BOOLEAN]
    /\ \A u \in Uploads \ Legacy : ~object[u]
    /\ writable \in [Uploads -> 0..(UrlTtl + InFlight)]
    /\ \A u \in Uploads \ Legacy : writable[u] = 0
    /\ client = [c \in Clients |-> NoRequest]
    /\ worker = [w \in Workers |-> Idle]

-----------------------------------------------------------------------------
(* Upload *)

Later(t1, t2) == IF t1 >= t2 THEN t1 ELSE t2
Earlier(t1, t2) == IF t1 <= t2 THEN t1 ELSE t2

\* issue: reserve the upload or take the reserved one, sign a URL for it and
\* record when the last one expires.
Issue(u) ==
    /\ upload[u].status # "COMPLETED"
    /\ LET quiet == UrlTtl + UploadQuiescence
       IN  upload' = [upload EXCEPT ![u].status = "RESERVED", ![u].recorded = TRUE,
                         ![u].quiet = IF upload[u].recorded THEN Later(@, quiet) ELSE quiet]
    /\ writable' = [writable EXCEPT ![u] = UrlTtl + InFlight]
    /\ UNCHANGED <<task, noContent, object, client, worker>>

\* Somebody who was handed a URL writes the file.
Put(u) ==
    /\ writable[u] > 0
    /\ object' = [object EXCEPT ![u] = TRUE]
    /\ UNCHANGED <<upload, task, noContent, writable, client, worker>>

\* The store is asked between the transactions prepare and complete; it is not
\* asked about an upload that is completed already.
FindStoredObject(c, u) ==
    /\ client[c] = NoRequest
    /\ upload[u].status # "NONE"
    /\ client' = [client EXCEPT ![c] =
                     [upload |-> u, stored |-> upload[u].status = "RESERVED" /\ object[u]]]
    /\ UNCHANGED <<upload, task, noContent, object, writable, worker>>

\* Fault: what the store answered is not looked at.
CompletedUnseen(c) ==
    /\ client[c] # NoRequest
    /\ upload[client[c].upload].status = "RESERVED"

\* The upload is completed now: neither twice nor without the file.
Completed(c) ==
    /\ client[c] # NoRequest
    /\ upload[client[c].upload].status = "RESERVED"
    /\ client[c].stored

CompleteUpload(c) ==
    /\ Completed(c)
    /\ LET u == client[c].upload
       IN  upload' = [upload EXCEPT
                         ![u].status = "COMPLETED", ![u].retention = AudioRetention,
                         ![u].quiet = IF upload[u].recorded THEN @
                                      ELSE LegacyUrlValidity + UploadQuiescence]
    /\ client' = [client EXCEPT ![c] = NoRequest]
    /\ UNCHANGED <<task, noContent, object, writable, worker>>

\* Already completed, refused, or the request was lost.
EndRequest(c) ==
    /\ client[c] # NoRequest
    /\ client' = [client EXCEPT ![c] = NoRequest]
    /\ UNCHANGED <<upload, task, noContent, object, writable, worker>>

-----------------------------------------------------------------------------
(* Deletion requests *)

\* The batch of the recording ends NO_CONTENT, and stays so.
EndWithoutContent(u) ==
    /\ u \notin noContent
    /\ noContent' = noContent \cup {u}
    /\ UNCHANGED <<upload, task, object, writable, client, worker>>

IsRetentionExpired(u) ==
    upload[u].status = "COMPLETED" /\ ~upload[u].deleted /\ upload[u].retention = 0

IsDue(u) == IsRetentionExpired(u) \/ u \in noContent

\* Fault: a write that is still under way is not waited for.
ConfirmationAtExpiry(u) ==
    IF upload[u].quiet > UploadQuiescence THEN upload[u].quiet - UploadQuiescence ELSE 0

\* Fault: a time that is past is not replaced by the present.
ConfirmationUnclamped(u) == upload[u].quiet - UploadQuiescence

\* confirmationAfter
ConfirmationAfter(u) == upload[u].quiet

\* schedule and scheduleNoContent: one task for an upload, ready at once.
Schedule(u) ==
    /\ IsDue(u)
    /\ upload[u].status = "COMPLETED" /\ ~upload[u].deleted
    /\ task[u].status = "ABSENT"
    /\ task' = [task EXCEPT ![u] =
                   [NoTask EXCEPT !.status = "PENDING", !.confirmation = ConfirmationAfter(u)]]
    /\ UNCHANGED <<upload, noContent, object, writable, client, worker>>

-----------------------------------------------------------------------------
(* Deletion threads *)

Hold(w, execution) == worker' = [worker EXCEPT ![w] = execution]

\* Fault: a task that is running is never taken over.
IsPendingReady(t) == t.status = "PENDING" /\ t.next = 0

\* isReadyAt: a running task whose lease is over may be claimed again.
IsReady(t) ==
    \/ t.status = "PENDING" /\ t.next = 0
    \/ t.status = "RUNNING" /\ t.lease = 0

IsCurrentAttempt(t, attempt) ==
    t.status = "RUNNING" /\ t.attempt = attempt /\ t.lease > 0

\* 60L << min(attempt - 1, 6), and an hour at most.
Backoff(attempt) ==
    LET doublings == Later(attempt, 1) - 1
        factors == <<1, 2, 4, 8, 16, 32, 64>>
    IN  Earlier(MaxBackoff, MinBackoff * factors[Earlier(doublings, 6) + 1])

\* dispatchAudioDeletion: a task read without a lock is handed to a thread.
Dispatch(w, u) ==
    /\ worker[w] = Idle
    /\ IsReady(task[u])
    /\ Hold(w, [Idle EXCEPT !.pc = "DISPATCHED", !.upload = u])
    /\ UNCHANGED <<upload, task, noContent, object, writable, client>>

\* Bound: the number MaxAttempts is given again, but not while a thread holds it.
NumberFree(u) ==
    \/ task[u].attempt < MaxAttempts
    \/ \A w \in Workers : worker[w].upload = u => worker[w].attempt < task[u].attempt

\* Fault: a claim that takes over keeps the number.
SameAttempt(n) == IF n = 0 THEN 1 ELSE n

NextAttempt(n) == IF n < MaxAttempts THEN n + 1 ELSE n

Claim(w) ==
    LET u == worker[w].upload
        attempt == NextAttempt(task[u].attempt)
    IN  /\ worker[w].pc = "DISPATCHED"
        /\ IF IsReady(task[u])
           THEN /\ NumberFree(u)
                /\ task' = [task EXCEPT ![u] =
                               [@ EXCEPT !.status = "RUNNING", !.attempt = attempt,
                                         !.next = 0, !.lease = ExecutionLease]]
                /\ Hold(w, [pc |-> "CLAIMED", upload |-> u, attempt |-> attempt])
           ELSE Hold(w, Idle) /\ UNCHANGED task
        /\ UNCHANGED <<upload, noContent, object, writable, client>>

\* deleteStoredObject succeeds: a file that is not there is deleted too.
DeleteStoredObject(w) ==
    /\ worker[w].pc = "CLAIMED"
    /\ object' = [object EXCEPT ![worker[w].upload] = FALSE]
    /\ Hold(w, [worker[w] EXCEPT !.pc = "ERASED"])
    /\ UNCHANGED <<upload, task, noContent, writable, client>>

\* It fails or runs out of time, before or after the last version is deleted.
DeletionFails(w) ==
    /\ worker[w].pc = "CLAIMED"
    /\ object' \in {object, [object EXCEPT ![worker[w].upload] = FALSE]}
    /\ Hold(w, [worker[w] EXCEPT !.pc = "FAILED"])
    /\ UNCHANGED <<upload, task, noContent, writable, client>>

\* recordSuccess: before the confirmation time the task is only put off.
RecordSuccess(t) ==
    IF t.confirmation > 0
    THEN [t EXCEPT !.status = "PENDING", !.lease = 0, !.next = t.confirmation]
    ELSE [t EXCEPT !.status = "SUCCEEDED", !.lease = 0]

Succeed(w) ==
    LET u == worker[w].upload
    IN  /\ worker[w].pc = "ERASED"
        /\ IF IsCurrentAttempt(task[u], worker[w].attempt)
           THEN task' = [task EXCEPT ![u] = RecordSuccess(@)]
           ELSE UNCHANGED task
        /\ upload' = IF task'[u].status = "SUCCEEDED"
                     THEN [upload EXCEPT ![u].deleted = TRUE] ELSE upload
        /\ Hold(w, Idle)
        /\ UNCHANGED <<noContent, object, writable, client>>

\* recordFailure
Fail(w) ==
    LET u == worker[w].upload
    IN  /\ worker[w].pc = "FAILED"
        /\ IF IsCurrentAttempt(task[u], worker[w].attempt)
           THEN task' = [task EXCEPT ![u] = [@ EXCEPT !.status = "PENDING", !.lease = 0,
                                                      !.next = Backoff(worker[w].attempt)]]
           ELSE UNCHANGED task
        /\ Hold(w, Idle)
        /\ UNCHANGED <<upload, noContent, object, writable, client>>

\* The process stops, or the transaction of the claim or of the report fails.
Abandon(w) ==
    /\ worker[w] # Idle
    /\ Hold(w, Idle)
    /\ UNCHANGED <<upload, task, noContent, object, writable, client>>

-----------------------------------------------------------------------------
Passed(t) == IF t > 0 THEN t - 1 ELSE 0

\* One unit of time.
Tick ==
    /\ upload' = [u \in Uploads |-> [upload[u] EXCEPT !.quiet = Passed(@),
                                                      !.retention = Passed(@)]]
    /\ task' = [u \in Uploads |-> [task[u] EXCEPT !.next = Passed(@), !.lease = Passed(@),
                                                  !.confirmation = Passed(@)]]
    /\ writable' = [u \in Uploads |-> Passed(writable[u])]
    /\ UNCHANGED <<noContent, object, client, worker>>

EndStep(w) ==
    \/ Claim(w)
    \/ DeleteStoredObject(w) \/ DeletionFails(w)
    \/ Succeed(w) \/ Fail(w) \/ Abandon(w)

WorkerStep(w) ==
    \/ \E u \in Uploads : Dispatch(w, u)
    \/ EndStep(w)

ClientStep(c) ==
    \/ \E u \in Uploads : FindStoredObject(c, u)
    \/ CompleteUpload(c) \/ EndRequest(c)

UploadStep(u) == Issue(u) \/ Put(u) \/ EndWithoutContent(u) \/ Schedule(u)

Next ==
    \/ \E w \in Workers : WorkerStep(w)
    \/ \E c \in Clients : ClientStep(c)
    \/ \E u \in Uploads : UploadStep(u)
    \/ Tick

Spec == Init /\ [][Next]_vars

\* Time passes, the sweeps go on, every call ends (the store's in a time limit)
\* or its process does, and not every deletion of one upload fails,
\* is late for its lease or dies.  Clients owe nothing.
Timely(w, u) == worker[w].upload = u /\ IsCurrentAttempt(task[u], worker[w].attempt)

Fairness ==
    /\ WF_vars(Tick)
    /\ \A w \in Workers : WF_vars(EndStep(w))
    /\ \A u \in Uploads :
          /\ WF_vars(Schedule(u))
          /\ SF_vars(\E w \in Workers : Dispatch(w, u))
          /\ SF_vars(\E w \in Workers : worker[w].upload = u /\ Claim(w))
          /\ SF_vars(\E w \in Workers : Timely(w, u) /\ DeleteStoredObject(w))
          /\ SF_vars(\E w \in Workers : Timely(w, u) /\ Succeed(w))

FairSpec == Spec /\ Fairness

-----------------------------------------------------------------------------
(* Properties *)

\* Once a deletion has been recorded the file is gone and stays so: no URL
\* handed out before and no write still under way can bring it back.
GoneForGood ==
    \A u \in Uploads :
        /\ task[u].status = "SUCCEEDED" <=> upload[u].deleted
        /\ upload[u].deleted => ~object[u] /\ writable[u] = 0

\* However many threads are handed a task, and whoever takes over from whom,
\* no two of them hold an attempt that is still the current one.
OneCurrentAttempt ==
    \A w1, w2 \in Workers :
        /\ worker[w1].pc \in {"CLAIMED", "ERASED", "FAILED"}
        /\ worker[w2].pc \in {"CLAIMED", "ERASED", "FAILED"}
        /\ worker[w1].upload = worker[w2].upload
        /\ worker[w1].attempt = worker[w2].attempt
        => w1 = w2

\* A file that reappeared after the current attempt had erased it is not
\* forgotten: that attempt's lease ends before the confirmation time, so its
\* report only puts the task off.
RewritesAreErasedAgain ==
    \A w \in Workers :
        LET u == worker[w].upload
        IN  worker[w].pc = "ERASED" =>
               (IsCurrentAttempt(task[u], worker[w].attempt) /\ object[u]
                   => task[u].confirmation >= task[u].lease)

\* A confirmed upload is deleted in the end, whatever fails on the way.
ConfirmedUploadIsDeleted ==
    \A u \in Uploads : upload[u].status = "COMPLETED" ~> upload[u].deleted

-----------------------------------------------------------------------------
(* Refinement *)

Phase ==
    [u \in Uploads |-> IF upload[u].deleted THEN "GONE"
                       ELSE IF task[u].status # "ABSENT" THEN "DOOMED"
                       ELSE IF upload[u].status = "COMPLETED" THEN "KEPT" ELSE "OPEN"]

Due == {u \in Uploads : \/ u \in noContent
                        \/ upload[u].status = "COMPLETED" /\ upload[u].retention = 0}

Lifecycle == INSTANCE AudioLifecycle WITH phase <- Phase, due <- Due

\* The file of a confirmed upload stays until its deletion is due, is erased
\* only after the request, and is recorded as deleted only when it is.
ImplementsLifecycle == Lifecycle!Spec
=============================================================================
