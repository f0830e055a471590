------------------------- MODULE DocumentGeneration -------------------------
(***************************************************************************)
(* The document generation pipeline of one workspace: a finished transcript *)
(* is accepted as a batch, classified into topics, and turned into one      *)
(* document per topic by jobs that threads claim, execute outside any       *)
(* transaction and report on, while a recovery sweep takes over executions  *)
(* whose lease ran out, members retry failed jobs, and a retention sweep    *)
(* deletes what expired.                                                    *)
(*                                                                          *)
(* Every writer first locks the workspace row (findIncludingDeletedById-    *)
(* ForUpdate or findByIdForUpdate), so a transaction is one action.  What   *)
(* happens between transactions - the LLM call, a candidate read by a sweep *)
(* before it is handled, a thread that dies - is a state of its own.        *)
(*                                                                          *)
(* A job's three time limits (nextAttemptAt while QUEUED,                   *)
(* executionDeadlineAt while RUNNING, expiresAt while FAILED) are one       *)
(* Boolean "due", set by LimitReached at any moment after the limit was     *)
(* written: no bound on the clock and no assumption on how fast it runs.    *)
(***************************************************************************)
EXTENDS Naturals, FiniteSets

CONSTANTS
    Recordings,          \* ENDED recordings of the workspace; one batch each
    Topics,              \* what the classifier may answer
    Classification,      \* the slot of the CLASSIFICATION job
    Members,             \* people who may be active members
    Owner,               \* Owner[r]: the member who recorded r
    Workers,             \* threads of the generation executors, all instances
    Recoverers,          \* recovery sweeps, one per instance
    Cleaners,            \* retention sweeps, one per instance
    MaxUserRetries,      \* MAX_USER_RETRIES
    MaxAutomaticRetries, \* the 1 of canRetryAutomatically
    None

Slots == Topics \cup {Classification}

ASSUME SlotsAssumption == Classification \notin Topics
ASSUME NoneAssumption == None \notin Recordings \cup Slots
ASSUME TopicsAssumption == IsFiniteSet(Topics)
ASSUME MembersAssumption == Members # {}
ASSUME OwnerAssumption == Owner \in [Recordings -> Members]
ASSUME RetryAssumption == MaxUserRetries \in Nat /\ MaxAutomaticRetries \in Nat

VARIABLES
    members,    \* active members; {} once the last one left: the workspace is deleted
    transcript, \* transcript[r]: the transcript row of the recording
    batch,      \* batch[r]: the DocumentGenerationBatch row
    job,        \* job[r][s]: the DocumentGenerationJob row of a slot
    docs,       \* docs[r]: the Document rows, with the attempt that wrote each
    audio,      \* audio[r]: the audio upload, as far as this pipeline sees it
    worker,     \* worker[w]: what an executor thread holds in memory
    recoverer,  \* recoverer[v]: the candidate a recovery sweep has read
    cleaner     \* cleaner[c]: the candidate a retention sweep has read

stored == <<members, transcript, batch, job, docs, audio>>
vars == <<members, transcript, batch, job, docs, audio, worker, recoverer, cleaner>>

-----------------------------------------------------------------------------
(* Rows and what is held in memory *)

TranscriptState == {"NONE", "TEXT", "BLANK", "DELETED"}
RegistrationState == {"NONE", "WAITING_CLASSIFICATION", "TOPICS_REGISTERED", "NO_CONTENT"}
ProcessingStatus == {"QUEUED", "RUNNING", "SUCCEEDED", "FAILED", "NO_CONTENT"}
JobStatus == {"ABSENT", "QUEUED", "RUNNING", "SUCCEEDED", "FAILED", "DELETED"}
Live == {"QUEUED", "RUNNING"}
Cause == {"TRANSIENT", "PERMANENT"}

Batch == [registration : RegistrationState, status : ProcessingStatus,
          topics : SUBSET Topics, finished : BOOLEAN, released : BOOLEAN,
          queued : Nat, running : Nat, succeeded : Nat, failed : Nat]

Job == [status : JobStatus, attempt : Nat, user : Nat, automatic : Nat, due : BOOLEAN]

Document == [topic : Topics, attempt : Nat]

Execution == [pc : {"IDLE", "DISPATCHED", "EXECUTING", "FAILING"},
              recording : Recordings \cup {None}, slot : Slots \cup {None},
              attempt : Nat, cause : Cause]

Candidate == [recording : Recordings \cup {None}, slot : Slots \cup {None}, attempt : Nat]

NoBatch == [registration |-> "NONE", status |-> "QUEUED", topics |-> {}, finished |-> FALSE,
            released |-> FALSE, queued |-> 0, running |-> 0, succeeded |-> 0, failed |-> 0]

NoJob == [status |-> "ABSENT", attempt |-> 0, user |-> 0, automatic |-> 0, due |-> FALSE]

Idle == [pc |-> "IDLE", recording |-> None, slot |-> None, attempt |-> 0, cause |-> "PERMANENT"]

NoCandidate == [recording |-> None, slot |-> None, attempt |-> 0]

\* Every row and everything held in memory keeps its type; in particular no
\* counter of a batch is ever decremented below zero.
TypeOK ==
    /\ members \in SUBSET Members
    /\ transcript \in [Recordings -> TranscriptState]
    /\ batch \in [Recordings -> Batch]
    /\ job \in [Recordings -> [Slots -> Job]]
    /\ docs \in [Recordings -> SUBSET Document]
    /\ audio \in [Recordings -> {"NONE", "COMPLETED", "DELETION_REQUESTED"}]
    /\ worker \in [Workers -> Execution]
    /\ recoverer \in [Recoverers -> Candidate]
    /\ cleaner \in [Cleaners -> Recordings \cup {None}]

Init ==
    /\ members = Members
    /\ transcript = [r \in Recordings |-> "NONE"]
    /\ batch = [r \in Recordings |-> NoBatch]
    /\ job = [r \in Recordings |-> [s \in Slots |-> NoJob]]
    /\ docs = [r \in Recordings |-> {}]
    /\ audio = [r \in Recordings |-> "NONE"]
    /\ worker = [w \in Workers |-> Idle]
    /\ recoverer = [v \in Recoverers |-> NoCandidate]
    /\ cleaner = [c \in Cleaners |-> None]

-----------------------------------------------------------------------------
(* The entities' own operations *)

WorkspaceDeleted == members = {}

\* DocumentGenerationJob: a new row may run at once.
QueuedJob ==
    [status |-> "QUEUED", attempt |-> 1, user |-> 0, automatic |-> 0, due |-> TRUE]

StartRunning(j) == [j EXCEPT !.status = "RUNNING", !.due = FALSE]
RecordSuccess(j) == [j EXCEPT !.status = "SUCCEEDED", !.due = FALSE]
RecordFailure(j) == [j EXCEPT !.status = "FAILED", !.due = FALSE]

CanRetryAutomatically(j) == j.automatic < MaxAutomaticRetries

\* Fault: the retry keeps the number of the attempt that failed.
RetrySameAttempt(j) == [j EXCEPT !.status = "QUEUED", !.automatic = @ + 1, !.due = FALSE]

RetryAutomatically(j) ==
    [j EXCEPT !.status = "QUEUED", !.attempt = @ + 1, !.automatic = @ + 1, !.due = FALSE]

\* Fault: no limit on a member's retries.
CanRetryForEver(j) == j.status = "FAILED" /\ ~j.due

CanRetryByUser(j) == j.status = "FAILED" /\ j.user < MaxUserRetries /\ ~j.due

\* Fault: a member's retry gives the automatic one back.
RetryAfresh(j) ==
    [j EXCEPT !.status = "QUEUED", !.attempt = @ + 1, !.user = @ + 1, !.automatic = 0, !.due = TRUE]

RetryByUser(j) ==
    [j EXCEPT !.status = "QUEUED", !.attempt = @ + 1, !.user = @ + 1, !.due = TRUE]

\* Fault: an execution past its lease may be claimed again, as an audio deletion may.
IsReadyOrExpired(j) == j.status \in Live /\ j.due

IsReady(j) == j.status = "QUEUED" /\ j.due
IsExpired(j) == j.status = "RUNNING" /\ j.due
IsRetentionExpired(j) == j.status = "FAILED" /\ j.due

\* Fault: the attempt is not compared.
IsAnyExecution(j, attempt) == j.status = "RUNNING"

IsCurrentExecution(j, attempt) == j.status = "RUNNING" /\ j.attempt = attempt

\* DocumentGenerationBatch.registerTopics: an empty answer ends the batch.
RegisterTopics(b, topics) ==
    IF topics = {}
    THEN [b EXCEPT !.registration = "NO_CONTENT", !.status = "NO_CONTENT", !.finished = TRUE]
    ELSE [b EXCEPT !.registration = "TOPICS_REGISTERED", !.status = "QUEUED",
                   !.finished = FALSE, !.topics = topics, !.queued = Cardinality(topics)]

\* The batch's counter of a job status.
CountOf(b, status) ==
    CASE status = "QUEUED"    -> b.queued
      [] status = "RUNNING"   -> b.running
      [] status = "SUCCEEDED" -> b.succeeded
      [] status = "FAILED"    -> b.failed

Is(status, other) == IF status = other THEN 1 ELSE 0

\* Fault: the job is not taken out of the status it leaves.
MoveCountInOnly(b, previous, next) ==
    [b EXCEPT !.queued = @ + Is("QUEUED", next), !.running = @ + Is("RUNNING", next),
              !.succeeded = @ + Is("SUCCEEDED", next), !.failed = @ + Is("FAILED", next)]

\* Fault: the two statuses are exchanged.
MoveCountBack(b, previous, next) ==
    [b EXCEPT !.queued = @ + Is("QUEUED", previous) - Is("QUEUED", next),
              !.running = @ + Is("RUNNING", previous) - Is("RUNNING", next),
              !.succeeded = @ + Is("SUCCEEDED", previous) - Is("SUCCEEDED", next),
              !.failed = @ + Is("FAILED", previous) - Is("FAILED", next)]

\* changeCount(previous, -1) and changeCount(next, 1).
MoveCount(b, previous, next) ==
    [b EXCEPT !.queued = @ + Is("QUEUED", next) - Is("QUEUED", previous),
              !.running = @ + Is("RUNNING", next) - Is("RUNNING", previous),
              !.succeeded = @ + Is("SUCCEEDED", next) - Is("SUCCEEDED", previous),
              !.failed = @ + Is("FAILED", next) - Is("FAILED", previous)]

\* Fault: a failure hides the jobs still waiting.
RefreshFailureFirst(b) ==
    LET status == IF b.running > 0 THEN "RUNNING"
                  ELSE IF b.failed > 0 THEN "FAILED"
                  ELSE IF b.queued > 0 THEN "QUEUED"
                  ELSE "SUCCEEDED"
    IN  [b EXCEPT !.status = status, !.finished = status \notin Live]

\* refreshProcessingStatus and updateFinishedAt.
Refresh(b) ==
    LET status == IF b.running > 0 THEN "RUNNING"
                  ELSE IF b.queued > 0 THEN "QUEUED"
                  ELSE IF b.failed > 0 THEN "FAILED"
                  ELSE "SUCCEEDED"
    IN  [b EXCEPT !.status = status, !.finished = status \notin Live]

\* recordJobTransition throws, and with it the transaction rolls back, unless:
TransitionAccepted(b, s, previous) ==
    s # Classification => b.registration = "TOPICS_REGISTERED" /\ CountOf(b, previous) > 0

\* Fault: the classification stage never writes finishedAt.
RecordUnfinishedTransition(b, s, previous, next) ==
    IF s # Classification THEN Refresh(MoveCount(b, previous, next))
    ELSE IF b.registration = "WAITING_CLASSIFICATION" THEN [b EXCEPT !.status = next] ELSE b

RecordJobTransition(b, s, previous, next) ==
    IF s # Classification THEN Refresh(MoveCount(b, previous, next))
    ELSE IF b.registration = "WAITING_CLASSIFICATION"
         THEN [b EXCEPT !.status = next, !.finished = next \notin Live]
         ELSE b

\* One job changes and its batch records the transition, in one transaction.
Transition(r, s, next) ==
    /\ TransitionAccepted(batch[r], s, job[r][s].status)
    /\ job' = [job EXCEPT ![r][s] = next]
    /\ batch' = [batch EXCEPT ![r] =
                    RecordJobTransition(@, s, job[r][s].status, next.status)]

\* hasUsableInput, and for a generation job validateGenerationTarget.
UsableInput(r, s) ==
    /\ transcript[r] = "TEXT"
    /\ ~batch[r].released
    /\ IF s = Classification
       THEN batch[r].registration = "WAITING_CLASSIFICATION"
       ELSE batch[r].registration = "TOPICS_REGISTERED" /\ s \in batch[r].topics

-----------------------------------------------------------------------------
(* Intake: storing a transcript of an ended recording accepts it, in the    *)
(* same transaction.  A second call for the recording finds the batch and   *)
(* changes nothing.                                                         *)

\* Fault: a batch that gave its transcript up is not found.
AcceptedWithInput(r) == batch[r].registration # "NONE" /\ ~batch[r].released

\* findByRecordingSessionIdForUpdate
Accepted(r) == batch[r].registration # "NONE"

AcceptCompletedTranscript(r, content) ==
    /\ ~WorkspaceDeleted
    /\ ~Accepted(r)
    /\ transcript' = [transcript EXCEPT ![r] = content]
    /\ LET accepted == [NoBatch EXCEPT !.registration = "WAITING_CLASSIFICATION"]
       IN  IF content = "BLANK"
           THEN /\ batch' = [batch EXCEPT ![r] = RegisterTopics(accepted, {})]
                /\ UNCHANGED job
           ELSE /\ batch' = [batch EXCEPT ![r] = accepted]
                /\ job' = [job EXCEPT ![r][Classification] = QueuedJob]
    /\ UNCHANGED <<members, docs, audio, worker, recoverer, cleaner>>

-----------------------------------------------------------------------------
(* Executor threads *)

Hold(w, execution) == worker' = [worker EXCEPT ![w] = execution]
Release(w) == Hold(w, Idle)

\* A result transaction was committed; or it was, but the answer was lost, and
\* the thread goes on to report a failure.
Committed(w) ==
    Release(w) \/ Hold(w, [worker[w] EXCEPT !.pc = "FAILING", !.cause = "TRANSIENT"])

\* dispatchQueued: a candidate read without a lock is handed to a free thread.
Dispatch(w, r, s) ==
    /\ worker[w].pc = "IDLE"
    /\ IsReady(job[r][s])
    /\ Hold(w, [Idle EXCEPT !.pc = "DISPATCHED", !.recording = r, !.slot = s])
    /\ UNCHANGED <<stored, recoverer, cleaner>>

\* claim: look again under the locks; start, or end a job that cannot start.
Claim(w) ==
    LET r == worker[w].recording
        s == worker[w].slot
        j == job[r][s]
    IN  /\ worker[w].pc = "DISPATCHED"
        /\ IF ~IsReady(j) THEN Release(w) /\ UNCHANGED <<job, batch>>
           ELSE IF WorkspaceDeleted \/ ~UsableInput(r, s)
           THEN Transition(r, s, RecordFailure(j)) /\ Release(w)
           ELSE /\ Transition(r, s, StartRunning(j))
                /\ Hold(w, [worker[w] EXCEPT !.pc = "EXECUTING", !.attempt = j.attempt])
        /\ UNCHANGED <<members, transcript, docs, audio, recoverer, cleaner>>

\* Both result transactions: the workspace is live, the attempt is still the
\* current one, and its lease has not run out.
ResultAccepted(w) ==
    LET j == job[worker[w].recording][worker[w].slot]
    IN  /\ worker[w].pc = "EXECUTING"
        /\ ~WorkspaceDeleted
        /\ IsCurrentExecution(j, worker[w].attempt)
        /\ ~IsExpired(j)

\* completeClassification: freeze the topics and queue one job for each.
CompleteClassification(w, topics) ==
    LET r == worker[w].recording
    IN  /\ worker[w].slot = Classification
        /\ ResultAccepted(w)
        /\ transcript[r] # "DELETED"
        /\ batch[r].registration = "WAITING_CLASSIFICATION"
        /\ batch' = [batch EXCEPT ![r] = RegisterTopics(@, topics)]
        /\ job' = [job EXCEPT ![r] =
              [s \in Slots |-> IF s = Classification THEN RecordSuccess(@[s])
                               ELSE IF s \in topics THEN QueuedJob ELSE @[s]]]
        /\ Committed(w)
        /\ UNCHANGED <<members, transcript, docs, audio, recoverer, cleaner>>

\* completeGeneration: the document, the job's success and the batch's count.
CompleteGeneration(w) ==
    LET r == worker[w].recording
        s == worker[w].slot
    IN  /\ s # Classification
        /\ ResultAccepted(w)
        /\ UsableInput(r, s)
        /\ docs' = [docs EXCEPT ![r] = @ \cup {[topic |-> s, attempt |-> worker[w].attempt]}]
        /\ Transition(r, s, RecordSuccess(job[r][s]))
        /\ Committed(w)
        /\ UNCHANGED <<members, transcript, audio, recoverer, cleaner>>

\* The LLM call failed, or the result was refused or could not be stored.
ExecutionFails(w, cause) ==
    /\ worker[w].pc = "EXECUTING"
    /\ Hold(w, [worker[w] EXCEPT !.pc = "FAILING", !.cause = cause])
    /\ UNCHANGED <<stored, recoverer, cleaner>>

\* Fault: the workspace is not looked at.
FailedJobAnywhere(j, cause) ==
    IF (j.due \/ cause = "TRANSIENT") /\ CanRetryAutomatically(j)
    THEN RetryAutomatically(RecordFailure(j))
    ELSE RecordFailure(j)

\* The failure that is really recorded, and the retry it may allow.
FailedJob(j, cause) ==
    LET transient == ~WorkspaceDeleted /\ (j.due \/ cause = "TRANSIENT")
    IN  IF transient /\ CanRetryAutomatically(j)
        THEN RetryAutomatically(RecordFailure(j))
        ELSE RecordFailure(j)

FailCurrentAttempt(r, s, attempt, cause, onlyExpired) ==
    IF /\ IsCurrentExecution(job[r][s], attempt)
       /\ onlyExpired => IsExpired(job[r][s])
    THEN Transition(r, s, FailedJob(job[r][s], cause))
    ELSE UNCHANGED <<job, batch>>

FailAttempt(w) ==
    /\ worker[w].pc = "FAILING"
    /\ FailCurrentAttempt(worker[w].recording, worker[w].slot, worker[w].attempt,
                          worker[w].cause, FALSE)
    /\ Release(w)
    /\ UNCHANGED <<members, transcript, docs, audio, recoverer, cleaner>>

\* The thread ends without a further transaction: its process stops, the claim
\* transaction fails, or storing the failure fails.
Abandon(w) ==
    /\ worker[w].pc # "IDLE"
    /\ Release(w)
    /\ UNCHANGED <<stored, recoverer, cleaner>>

-----------------------------------------------------------------------------
(* Recovery sweep *)

\* Fault: only jobs of registered topics are looked for.
ScanExpiredTopics(v, r, s) ==
    /\ recoverer[v] = NoCandidate
    /\ IsExpired(job[r][s]) /\ s \in batch[r].topics
    /\ recoverer' = [recoverer EXCEPT ![v] =
                        [recording |-> r, slot |-> s, attempt |-> job[r][s].attempt]]
    /\ UNCHANGED <<stored, worker, cleaner>>

\* findExpiredCandidates: the candidate carries the attempt it was read with.
ScanExpired(v, r, s) ==
    /\ recoverer[v] = NoCandidate
    /\ IsExpired(job[r][s])
    /\ recoverer' = [recoverer EXCEPT ![v] =
                        [recording |-> r, slot |-> s, attempt |-> job[r][s].attempt]]
    /\ UNCHANGED <<stored, worker, cleaner>>

\* Fault: a deleted workspace is not found.
ExpireInLiveWorkspace(v) ==
    /\ recoverer[v] # NoCandidate /\ ~WorkspaceDeleted
    /\ FailCurrentAttempt(recoverer[v].recording, recoverer[v].slot, recoverer[v].attempt,
                          "TRANSIENT", TRUE)
    /\ recoverer' = [recoverer EXCEPT ![v] = NoCandidate]
    /\ UNCHANGED <<members, transcript, docs, audio, worker, cleaner>>

ExpireAttempt(v) ==
    /\ recoverer[v] # NoCandidate
    /\ FailCurrentAttempt(recoverer[v].recording, recoverer[v].slot, recoverer[v].attempt,
                          "TRANSIENT", TRUE)
    /\ recoverer' = [recoverer EXCEPT ![v] = NoCandidate]
    /\ UNCHANGED <<members, transcript, docs, audio, worker, cleaner>>

RecoveryDeferred(v) ==
    /\ recoverer[v] # NoCandidate
    /\ recoverer' = [recoverer EXCEPT ![v] = NoCandidate]
    /\ UNCHANGED <<stored, worker, cleaner>>

-----------------------------------------------------------------------------
(* Members *)

\* retry: the member who made the recording, while still an active member.
RetryJob(r, s) ==
    /\ Owner[r] \in members
    /\ CanRetryByUser(job[r][s])
    /\ transcript[r] = "TEXT"
    /\ Transition(r, s, RetryByUser(job[r][s]))
    /\ UNCHANGED <<members, transcript, docs, audio, worker, recoverer, cleaner>>

Join(m) ==
    /\ ~WorkspaceDeleted
    /\ m \notin members
    /\ members' = members \cup {m}
    /\ UNCHANGED <<transcript, batch, job, docs, audio, worker, recoverer, cleaner>>

\* The last active member to leave deletes the workspace.
Leave(m) ==
    /\ m \in members
    /\ members' = members \ {m}
    /\ UNCHANGED <<transcript, batch, job, docs, audio, worker, recoverer, cleaner>>

-----------------------------------------------------------------------------
(* Retention sweep *)

\* Fault: a deleted workspace is left out.
RetentionCandidateInLiveWorkspace(r) ==
    \/ batch[r].status = "NO_CONTENT" /\ ~batch[r].released
    \/ \E s \in Slots : IsRetentionExpired(job[r][s]) /\ ~WorkspaceDeleted

\* findRetentionCandidates
RetentionCandidate(r) ==
    \/ batch[r].status = "NO_CONTENT" /\ ~batch[r].released
    \/ \E s \in Slots : /\ IsRetentionExpired(job[r][s])
                        /\ ~\E d \in docs[r] : d.topic = s

ScanRetention(c, r) ==
    /\ cleaner[c] = None
    /\ RetentionCandidate(r)
    /\ cleaner' = [cleaner EXCEPT ![c] = r]
    /\ UNCHANGED <<stored, worker, recoverer>>

Delete(jobs, doomed) ==
    [s \in Slots |-> IF s \in doomed THEN [NoJob EXCEPT !.status = "DELETED"] ELSE jobs[s]]

\* deleteExpiredFailures
WithoutExpiredFailures(r) ==
    Delete(job[r], {s \in Slots : /\ IsRetentionExpired(job[r][s])
                                  /\ ~\E d \in docs[r] : d.topic = s})

\* requiresInput
RequiresInput(s, j) ==
    j.status \notin {"ABSENT", "DELETED"} /\ (j.status # "SUCCEEDED" \/ s # Classification)

\* Fault: a batch without content is not taken for finished.
ReleasesFailedInput(r, jobs) ==
    /\ transcript[r] \in {"TEXT", "BLANK"} /\ ~batch[r].released
    /\ batch[r].status = "FAILED"
    /\ docs[r] = {}
    /\ \A s \in Slots : ~RequiresInput(s, jobs[s])

\* The input is deleted once no document and no job but a classification
\* success refers to it; "jobs" are the rows left after deleteExpiredFailures.
ReleasesInput(r, jobs) ==
    /\ transcript[r] \in {"TEXT", "BLANK"} /\ ~batch[r].released
    /\ batch[r].status \in {"FAILED", "NO_CONTENT"}
    /\ docs[r] = {}
    /\ \A s \in Slots : ~RequiresInput(s, jobs[s])

\* DocumentGenerationBatch.validateReleasableInput
InputReleasable(b) ==
    /\ b.status \in {"FAILED", "NO_CONTENT"}
    /\ b.queued = 0 /\ b.running = 0 /\ b.succeeded = 0
    /\ b.finished

\* Fault: the classification job is left behind.
ReleaseInputOnly(r, jobs) ==
    /\ InputReleasable(batch[r])
    /\ job' = [job EXCEPT ![r] = jobs]
    /\ batch' = [batch EXCEPT ![r].released = TRUE]
    /\ transcript' = [transcript EXCEPT ![r] = "DELETED"]

ReleaseInput(r, jobs) ==
    /\ InputReleasable(batch[r])
    /\ job' = [job EXCEPT ![r] = Delete(jobs, {s \in Slots : jobs[s].status # "ABSENT"})]
    /\ batch' = [batch EXCEPT ![r].released = TRUE]
    /\ transcript' = [transcript EXCEPT ![r] = "DELETED"]

\* scheduleNoContent: a completed upload gets its deletion task, once.
ScheduleNoContent(r) ==
    audio' = [audio EXCEPT ![r] = IF @ = "COMPLETED" /\ batch[r].status = "NO_CONTENT"
                                  THEN "DELETION_REQUESTED" ELSE @]

Cleanup(c) ==
    LET r == cleaner[c]
        jobs == WithoutExpiredFailures(r)
    IN  /\ r # None
        /\ IF ReleasesInput(r, jobs) THEN ReleaseInput(r, jobs)
           ELSE job' = [job EXCEPT ![r] = jobs] /\ UNCHANGED <<batch, transcript>>
        /\ ScheduleNoContent(r)
        /\ cleaner' = [cleaner EXCEPT ![c] = None]
        /\ UNCHANGED <<members, docs, worker, recoverer>>

\* The transaction failed; the sweep goes on without it.
CleanupDeferred(c) ==
    /\ cleaner[c] # None
    /\ cleaner' = [cleaner EXCEPT ![c] = None]
    /\ UNCHANGED <<stored, worker, recoverer>>

\* An upload of the recording completes; the audio sweep finds the ones whose
\* batch has no content.
CompleteAudioUpload(r) ==
    /\ ~WorkspaceDeleted
    /\ audio[r] = "NONE"
    /\ audio' = [audio EXCEPT ![r] = "COMPLETED"]
    /\ UNCHANGED <<members, transcript, batch, job, docs, worker, recoverer, cleaner>>

ScheduleAudioDeletion(r) ==
    /\ audio[r] = "COMPLETED" /\ batch[r].status = "NO_CONTENT"
    /\ ScheduleNoContent(r)
    /\ UNCHANGED <<members, transcript, batch, job, docs, worker, recoverer, cleaner>>

-----------------------------------------------------------------------------
\* The time limit written for the job's present status passes.
LimitReached(r, s) ==
    /\ job[r][s].status \in {"QUEUED", "RUNNING", "FAILED"}
    /\ ~job[r][s].due
    /\ job' = [job EXCEPT ![r][s].due = TRUE]
    /\ UNCHANGED <<members, transcript, batch, docs, audio, worker, recoverer, cleaner>>

CompleteExecution(w) ==
    \/ \E topics \in SUBSET Topics : CompleteClassification(w, topics)
    \/ CompleteGeneration(w)

WorkerStep(w) ==
    \/ \E r \in Recordings, s \in Slots : Dispatch(w, r, s)
    \/ Claim(w)
    \/ CompleteExecution(w)
    \/ \E cause \in Cause : ExecutionFails(w, cause)
    \/ FailAttempt(w)
    \/ Abandon(w)

RecovererStep(v) ==
    \/ \E r \in Recordings, s \in Slots : ScanExpired(v, r, s)
    \/ ExpireAttempt(v)
    \/ RecoveryDeferred(v)

CleanerStep(c) ==
    \/ \E r \in Recordings : ScanRetention(c, r)
    \/ Cleanup(c)
    \/ CleanupDeferred(c)

RecordingStep(r) ==
    \/ \E content \in {"TEXT", "BLANK"} : AcceptCompletedTranscript(r, content)
    \/ \E s \in Slots : RetryJob(r, s) \/ LimitReached(r, s)
    \/ CompleteAudioUpload(r)
    \/ ScheduleAudioDeletion(r)

Next ==
    \/ \E w \in Workers : WorkerStep(w)
    \/ \E v \in Recoverers : RecovererStep(v)
    \/ \E c \in Cleaners : CleanerStep(c)
    \/ \E r \in Recordings : RecordingStep(r)
    \/ \E m \in Members : Join(m) \/ Leave(m)

Spec == Init /\ [][Next]_vars

-----------------------------------------------------------------------------
(* Fairness: the sweeps run again and again and take their candidates in    *)
(* the order of their time limits, so no job is passed over for ever, and   *)
(* not every claim, recovery or cleanup of one job meets a crash or a       *)
(* failed transaction.  A thread that executes goes on until it is done or  *)
(* dies.  Members, the intake and the audio upload owe nothing.             *)

ClaimOf(r, s) ==
    \E w \in Workers : worker[w].recording = r /\ worker[w].slot = s /\ Claim(w)

ExpiryOf(r, s) ==
    \E v \in Recoverers : recoverer[v].recording = r /\ recoverer[v].slot = s /\ ExpireAttempt(v)

CleanupOf(r) == \E c \in Cleaners : cleaner[c] = r /\ Cleanup(c)

Fairness ==
    /\ \A w \in Workers :
          WF_vars(CompleteExecution(w) \/ (\E cause \in Cause : ExecutionFails(w, cause))
                  \/ FailAttempt(w))
    /\ \A r \in Recordings :
          /\ \A s \in Slots :
                /\ WF_vars(LimitReached(r, s))
                /\ SF_vars(\E w \in Workers : Dispatch(w, r, s))
                /\ SF_vars(ClaimOf(r, s))
                /\ SF_vars(\E v \in Recoverers : ScanExpired(v, r, s))
                /\ SF_vars(ExpiryOf(r, s))
          /\ SF_vars(\E c \in Cleaners : ScanRetention(c, r))
          /\ SF_vars(CleanupOf(r))
          /\ WF_vars(ScheduleAudioDeletion(r))

FairSpec == Spec /\ Fairness

-----------------------------------------------------------------------------
(* Safety *)

Stored(j) == j.status \notin {"ABSENT", "DELETED"}
With(r, statuses) == {t \in batch[r].topics : job[r][t].status \in statuses}

\* The counters a batch keeps, one increment and decrement at a time, are the
\* numbers of its generation jobs in each status; a deleted job stays counted
\* as the failure it was.
CountersMatchJobs ==
    \A r \in Recordings :
        LET b == batch[r]
        IN  /\ b.queued = Cardinality(With(r, {"QUEUED"}))
            /\ b.running = Cardinality(With(r, {"RUNNING"}))
            /\ b.succeeded = Cardinality(With(r, {"SUCCEEDED"}))
            /\ b.failed = Cardinality(With(r, {"FAILED", "DELETED"}))

\* What a batch reports is what its jobs are doing, in both stages: it is
\* finished exactly when none of them can still run, and it has succeeded
\* exactly when every registered topic has its document.
BatchReportsJobs ==
    \A r \in Recordings : batch[r].registration # "NONE" =>
        LET b == batch[r]
            some(status) == \E s \in Slots : job[r][s].status = status
        IN  /\ b.finished <=> ~some("QUEUED") /\ ~some("RUNNING")
            /\ b.status = "RUNNING" <=> some("RUNNING")
            /\ b.status = "QUEUED" <=> some("QUEUED") /\ ~some("RUNNING")
            /\ b.status = "SUCCEEDED" <=>
                  /\ b.registration = "TOPICS_REGISTERED"
                  /\ {d.topic : d \in docs[r]} = b.topics
            /\ b.status = "NO_CONTENT" <=> b.registration = "NO_CONTENT"

\* The batch's bookkeeping and what its jobs do never part, though every job is
\* claimed, finished, retried and deleted in a transaction of its own.
BatchIsTrue == CountersMatchJobs /\ BatchReportsJobs

\* A document exists exactly for a generation job that succeeded, and it was
\* written by the attempt the job then stood at: never two for one job, never
\* one from an execution that had been given up.
DocumentsMatchJobs ==
    \A r \in Recordings, t \in Topics :
        {d \in docs[r] : d.topic = t} =
            IF job[r][t].status = "SUCCEEDED"
            THEN {[topic |-> t, attempt |-> job[r][t].attempt]}
            ELSE {}

\* However many schedulers offer the same candidate, no two threads execute
\* the same attempt of a job.
SingleExecution ==
    \A w1, w2 \in Workers :
        /\ worker[w1].pc \in {"EXECUTING", "FAILING"}
        /\ worker[w2].pc \in {"EXECUTING", "FAILING"}
        /\ worker[w1].recording = worker[w2].recording
        /\ worker[w1].slot = worker[w2].slot
        /\ worker[w1].attempt = worker[w2].attempt
        => w1 = w2

\* The transcript outlives everything that refers to it: every stored job,
\* which would otherwise be claimed only to end as INVALID_INPUT, and every
\* document.
InputHeldWhileNeeded ==
    \A r \in Recordings :
        /\ (\E s \in Slots : Stored(job[r][s])) \/ docs[r] # {} =>
              transcript[r] = "TEXT" /\ ~batch[r].released
        /\ \A s \in Slots : job[r][s].status \in Live => UsableInput(r, s)

\* The automatic retry is spent once in a job's life and a member's retries do
\* not give it back; attempts are numbered without a gap.
RetryBudget ==
    \A r \in Recordings, s \in Slots : Stored(job[r][s]) =>
        /\ job[r][s].attempt = 1 + job[r][s].user + job[r][s].automatic
        /\ job[r][s].user <= MaxUserRetries
        /\ job[r][s].automatic <= MaxAutomaticRetries

\* Whenever the retention sweep decides to give the input up, the batch agrees
\* (releaseInput does not throw and undo the deletions of the transaction), so
\* no batch is retried by the sweep for ever.
CleanupNeverRefused ==
    \A r \in Recordings :
        ReleasesInput(r, WithoutExpiredFailures(r)) => InputReleasable(batch[r])

\* What a step may never do to a job: take a success back, start again without
\* a new attempt number, delete a row a document or a retry still needs, or
\* bring a deleted row back.
JobHistory ==
    [][\A r \in Recordings, s \in Slots :
          LET j == job[r][s]
              k == job'[r][s]
          IN  /\ j.status = "SUCCEEDED" /\ s # Classification => k = j
              /\ j.status = "DELETED" => k = j
              /\ j.status # "QUEUED" /\ k.status = "QUEUED" => k.attempt = j.attempt + 1
              /\ k.status = "SUCCEEDED" /\ j.status # "SUCCEEDED" => ~j.due
              /\ k.status = "DELETED" /\ j.status # "DELETED" =>
                    (j.status = "FAILED" /\ j.due) \/ (j.status = "SUCCEEDED" /\ s = Classification)]_vars

\* Once the last member has left, nothing starts: no document, no new topic,
\* no job that is queued again or claimed for execution.
DeletedWorkspaceIsQuiet ==
    [][WorkspaceDeleted =>
          /\ docs' = docs /\ members' = {}
          /\ \A r \in Recordings :
                /\ batch'[r].topics = batch[r].topics
                /\ \A s \in Slots : job'[r][s].status \in Live => job'[r][s].status = job[r][s].status]_vars

\* The topics of a batch are frozen by the classification that registered them,
\* and a batch that ended with documents or failures never becomes NO_CONTENT.
TopicsFrozen ==
    [][\A r \in Recordings : batch[r].registration \in {"TOPICS_REGISTERED", "NO_CONTENT"} =>
          /\ batch'[r].registration = batch[r].registration
          /\ batch'[r].topics = batch[r].topics]_vars

\* Late results, repeated intakes, retries and sweeps rewrite nothing that is
\* settled: neither a job's success or deletion nor a batch's topics.
SettledStays == JobHistory /\ TopicsFrozen

-----------------------------------------------------------------------------
(* The inductive invariant behind the safety properties.                    *)

\* A thread that is not idle, and a sweep that has read a candidate, name a job.
Placed ==
    /\ \A w \in Workers : worker[w].pc # "IDLE" =>
          worker[w].recording \in Recordings /\ worker[w].slot \in Slots
    /\ \A v \in Recoverers : recoverer[v] # NoCandidate =>
          recoverer[v].recording \in Recordings /\ recoverer[v].slot \in Slots

\* The jobs of a stage exist only once the batch has reached it.
Staged ==
    \A r \in Recordings :
        /\ batch[r].registration = "NONE" => \A s \in Slots : job[r][s].status = "ABSENT"
        /\ batch[r].registration \in {"WAITING_CLASSIFICATION", "NO_CONTENT"} =>
              \A t \in Topics : job[r][t].status = "ABSENT"

\* An execution under way belongs to an attempt that is either over or current;
\* a queued job's attempt has never been executed.
Fenced ==
    \A w \in Workers : worker[w].pc \in {"EXECUTING", "FAILING"} =>
        LET j == job[worker[w].recording][worker[w].slot]
        IN  \/ j.status = "DELETED"
            \/ j.status \notin {"ABSENT", "DELETED"} /\ worker[w].attempt < j.attempt
            \/ j.status \in {"RUNNING", "SUCCEEDED", "FAILED"} /\ worker[w].attempt = j.attempt

-----------------------------------------------------------------------------
(* Liveness *)

\* Every accepted batch ends, whatever threads die and whatever calls fail.
BatchFinishes ==
    \A r \in Recordings : batch[r].registration # "NONE" ~> batch[r].finished

\* A failed job does not stay: its member retries it or it is deleted.
FailuresExpire ==
    \A r \in Recordings, s \in Slots : job[r][s].status = "FAILED" ~> job[r][s].status # "FAILED"

\* A batch without content gives up its transcript and a completed audio upload.
NoContentIsDeleted ==
    \A r \in Recordings :
        /\ batch[r].status = "NO_CONTENT" ~> transcript[r] = "DELETED"
        /\ batch[r].status = "NO_CONTENT" /\ audio[r] = "COMPLETED" ~> audio[r] = "DELETION_REQUESTED"

\* Nothing is kept for ever that nobody can use any more: neither the failure of
\* a job, nor the transcript and audio of a batch without content.
LeftoversGo == FailuresExpire /\ NoContentIsDeleted

-----------------------------------------------------------------------------
(* Refinement: claims, leases, automatic retries and recoveries are steps   *)
(* that DocumentProduction does not see.                                    *)

OutcomeOf(j) ==
    CASE j.status = "ABSENT"    -> "NONE"
      [] j.status \in Live      -> "OPEN"
      [] j.status = "SUCCEEDED" -> "DONE"
      [] j.status = "FAILED"    -> "FAILED"
      [] j.status = "DELETED"   -> "GONE"

Production == INSTANCE DocumentProduction WITH
    alive <- ~WorkspaceDeleted,
    outcome <- [r \in Recordings |-> [s \in Slots |-> OutcomeOf(job[r][s])]],
    retries <- [r \in Recordings |-> [s \in Slots |-> job[r][s].user]],
    topics <- [r \in Recordings |-> batch[r].topics],
    input <- [r \in Recordings |->
                IF transcript[r] \in {"TEXT", "BLANK"} THEN "HELD" ELSE transcript[r]]

\* Under every interleaving of threads, sweeps, members and crashes the
\* pipeline does only what DocumentProduction allows.
ImplementsProduction == Production!Spec

\* And it resolves what is open, under the fairness of its sweeps.
ImplementsFairProduction == Production!FairSpec
=============================================================================
