---------------------- MODULE DocumentGenerationProofs ----------------------
(***************************************************************************)
(* Proofs about DocumentGeneration, for every set of recordings, topics,    *)
(* members, threads and sweeps and every retry limit.                       *)
(*                                                                          *)
(* They are layered.  TypeOK with Placed is inductive by itself; Staged     *)
(* rests on it.  Then three lemmas say what one step may do to a row        *)
(* (RowMove), to a thread (ThreadMove) and to the documents, and the        *)
(* remaining invariants follow from those moves and not from the actions.   *)
(*                                                                          *)
(* A batch's bookkeeping never parts from its jobs.  A batch counts its     *)
(* jobs by one increment and one decrement per transaction and recomputes   *)
(* its status from the counters, so neither BatchIsTrue nor                 *)
(* InputHeldWhileNeeded is inductive.  Booked is: it says of one recording  *)
(* what its batch, its jobs and its transcript may be at each stage.        *)
(* BookMove says what one step may do to the three together; each such move *)
(* keeps Booked, and the invariants follow from Booked with the theorem     *)
(* about documents.                                                         *)
(*                                                                          *)
(* And the pipeline implements DocumentProduction: given Booked, every step *)
(* is one of the steps promised there, or changes nothing that it sees.     *)
(***************************************************************************)
EXTENDS DocumentGeneration, FiniteSetTheorems, TLAPS

-----------------------------------------------------------------------------
(* Types *)

JobRow == {"QUEUED", "RUNNING", "SUCCEEDED", "FAILED"}

\* A set of registered topics has a natural number of elements.
LEMMA TopicsAreFinite ==
    ASSUME NEW topics \in SUBSET Topics
    PROVE  Cardinality(topics) \in Nat
BY TopicsAssumption, FS_Subset, FS_CardinalityType

\* Registering the classifier's answer gives a batch.
LEMMA RegisterTopicsType ==
    ASSUME NEW b \in Batch, NEW topics \in SUBSET Topics
    PROVE  RegisterTopics(b, topics) \in Batch
BY TopicsAreFinite DEF RegisterTopics, Batch, RegistrationState, ProcessingStatus

\* A counter is decremented only when it is positive, so no batch ever stores
\* a negative one.
LEMMA MoveCountType ==
    ASSUME NEW b \in Batch, NEW previous \in JobRow, NEW next \in JobRow,
           CountOf(b, previous) > 0
    PROVE  MoveCount(b, previous, next) \in Batch
<1>1. /\ b.queued \in Nat /\ b.running \in Nat /\ b.succeeded \in Nat /\ b.failed \in Nat
  BY DEF Batch
<1>2. /\ b.queued + Is("QUEUED", next) - Is("QUEUED", previous) \in Nat
      /\ b.running + Is("RUNNING", next) - Is("RUNNING", previous) \in Nat
      /\ b.succeeded + Is("SUCCEEDED", next) - Is("SUCCEEDED", previous) \in Nat
      /\ b.failed + Is("FAILED", next) - Is("FAILED", previous) \in Nat
  <2>1. CASE previous = "QUEUED"    BY <1>1, <2>1 DEF CountOf, Is
  <2>2. CASE previous = "RUNNING"   BY <1>1, <2>2 DEF CountOf, Is
  <2>3. CASE previous = "SUCCEEDED" BY <1>1, <2>3 DEF CountOf, Is
  <2>4. CASE previous = "FAILED"    BY <1>1, <2>4 DEF CountOf, Is
  <2> QED
    BY <2>1, <2>2, <2>3, <2>4 DEF JobRow
<1> QED
  BY <1>2 DEF MoveCount, Batch

\* Recomputing a batch's status from its counters leaves a batch.
LEMMA RefreshType ==
    ASSUME NEW b \in Batch
    PROVE  Refresh(b) \in Batch
BY DEF Refresh, Batch, ProcessingStatus, Live

\* What a transition leaves alone in its batch.
LEMMA RecordJobTransitionType ==
    ASSUME NEW b \in Batch, NEW s \in Slots, NEW previous \in JobRow, NEW next \in JobRow,
           TransitionAccepted(b, s, previous)
    PROVE  LET c == RecordJobTransition(b, s, previous, next)
           IN  /\ c \in Batch
               /\ c.registration = b.registration
               /\ c.topics = b.topics
               /\ c.released = b.released
<1>1. CASE s = Classification
  BY <1>1 DEF RecordJobTransition, Batch, ProcessingStatus, JobRow
<1>2. CASE s # Classification
  <2>1. CountOf(b, previous) > 0
    BY <1>2 DEF TransitionAccepted
  <2>2. MoveCount(b, previous, next) \in Batch
    BY <2>1, MoveCountType
  <2>3. Refresh(MoveCount(b, previous, next)) \in Batch
    BY <2>2, RefreshType
  <2>4. /\ MoveCount(b, previous, next).registration = b.registration
        /\ MoveCount(b, previous, next).topics = b.topics
        /\ MoveCount(b, previous, next).released = b.released
    BY DEF MoveCount, Batch
  <2>5. ASSUME NEW c \in Batch
        PROVE  /\ Refresh(c).registration = c.registration
               /\ Refresh(c).topics = c.topics
               /\ Refresh(c).released = c.released
    BY DEF Refresh, Batch
  <2> QED
    BY <1>2, <2>2, <2>3, <2>4, <2>5 DEF RecordJobTransition
<1> QED
  BY <1>1, <1>2

\* One job changes, its batch stays well-formed, everything else stays.
LEMMA TransitionType ==
    ASSUME TypeOK, NEW r \in Recordings, NEW s \in Slots, NEW next \in Job,
           job[r][s].status \in JobRow, next.status \in JobRow,
           Transition(r, s, next)
    PROVE  /\ batch' \in [Recordings -> Batch]
           /\ job' \in [Recordings -> [Slots -> Job]]
           /\ job'[r][s] = next
           /\ \A q \in Recordings, x \in Slots : q # r \/ x # s => job'[q][x] = job[q][x]
           /\ \A q \in Recordings : /\ batch'[q].registration = batch[q].registration
                                    /\ batch'[q].topics = batch[q].topics
                                    /\ batch'[q].released = batch[q].released
<1> DEFINE c == RecordJobTransition(batch[r], s, job[r][s].status, next.status)
<1>1. batch[r] \in Batch
  BY DEF TypeOK
<1>2. /\ c \in Batch
      /\ c.registration = batch[r].registration
      /\ c.topics = batch[r].topics
      /\ c.released = batch[r].released
  BY <1>1, RecordJobTransitionType DEF Transition
<1>3. batch' = [batch EXCEPT ![r] = c]
  BY DEF Transition
<1>4. job' = [job EXCEPT ![r][s] = next]
  BY DEF Transition
<1> HIDE DEF c
<1> QED
  BY <1>1, <1>2, <1>3, <1>4 DEF TypeOK

\* Every operation of the job entity gives a job.
LEMMA JobOperations ==
    ASSUME NEW j \in Job
    PROVE  /\ StartRunning(j) \in Job /\ StartRunning(j).status = "RUNNING"
           /\ RecordSuccess(j) \in Job /\ RecordSuccess(j).status = "SUCCEEDED"
           /\ RecordFailure(j) \in Job /\ RecordFailure(j).status = "FAILED"
           /\ RetryAutomatically(j) \in Job /\ RetryAutomatically(j).status = "QUEUED"
           /\ RetryByUser(j) \in Job /\ RetryByUser(j).status = "QUEUED"
           /\ QueuedJob \in Job /\ QueuedJob.status = "QUEUED"
           /\ NoJob \in Job
           /\ [NoJob EXCEPT !.status = "DELETED"] \in Job
           /\ [j EXCEPT !.due = TRUE] \in Job
<1> USE DEF Job, JobStatus
<1>1. StartRunning(j) \in Job /\ StartRunning(j).status = "RUNNING"
  BY DEF StartRunning
<1>2. RecordSuccess(j) \in Job /\ RecordSuccess(j).status = "SUCCEEDED"
  BY DEF RecordSuccess
<1>3. RecordFailure(j) \in Job /\ RecordFailure(j).status = "FAILED"
  BY DEF RecordFailure
<1>0. j.attempt + 1 \in Nat /\ j.user + 1 \in Nat /\ j.automatic + 1 \in Nat
  OBVIOUS
<1>4. RetryAutomatically(j) \in Job /\ RetryAutomatically(j).status = "QUEUED"
  BY <1>0, Zenon DEF RetryAutomatically
<1>5. RetryByUser(j) \in Job /\ RetryByUser(j).status = "QUEUED"
  BY <1>0, Zenon DEF RetryByUser
<1>6. QueuedJob \in Job /\ QueuedJob.status = "QUEUED"
  BY DEF QueuedJob
<1>7. NoJob \in Job /\ [NoJob EXCEPT !.status = "DELETED"] \in Job
  BY DEF NoJob
<1>8. [j EXCEPT !.due = TRUE] \in Job
  OBVIOUS
<1> QED
  BY <1>1, <1>2, <1>3, <1>4, <1>5, <1>6, <1>7, <1>8

SameNumbers(j, k) == k.attempt = j.attempt /\ k.user = j.user /\ k.automatic = j.automatic

\* What each operation does to the status and the numbers of a job.
LEMMA JobEffects ==
    ASSUME NEW j \in Job
    PROVE  /\ SameNumbers(j, StartRunning(j))
           /\ SameNumbers(j, RecordSuccess(j))
           /\ SameNumbers(j, RecordFailure(j))
           /\ SameNumbers(j, [j EXCEPT !.due = TRUE])
           /\ [j EXCEPT !.due = TRUE].status = j.status
           /\ LET k == RetryAutomatically(RecordFailure(j))
              IN  /\ k.status = "QUEUED" /\ k.attempt = j.attempt + 1
                  /\ k.user = j.user /\ k.automatic = j.automatic + 1
           /\ LET k == RetryByUser(j)
              IN  /\ k.status = "QUEUED" /\ k.attempt = j.attempt + 1
                  /\ k.user = j.user + 1 /\ k.automatic = j.automatic
<1> USE DEF Job, SameNumbers
<1>1. SameNumbers(j, StartRunning(j))
  BY Zenon DEF StartRunning
<1>2. SameNumbers(j, RecordSuccess(j))
  BY Zenon DEF RecordSuccess
<1>3. SameNumbers(j, RecordFailure(j))
  BY Zenon DEF RecordFailure
<1>4. SameNumbers(j, [j EXCEPT !.due = TRUE]) /\ [j EXCEPT !.due = TRUE].status = j.status
  BY Zenon
<1>5. LET k == RetryAutomatically(RecordFailure(j))
      IN  /\ k.status = "QUEUED" /\ k.attempt = j.attempt + 1
          /\ k.user = j.user /\ k.automatic = j.automatic + 1
  BY Zenon DEF RetryAutomatically, RecordFailure
<1>6. LET k == RetryByUser(j)
      IN  /\ k.status = "QUEUED" /\ k.attempt = j.attempt + 1
          /\ k.user = j.user + 1 /\ k.automatic = j.automatic
  BY Zenon DEF RetryByUser
<1> QED
  BY <1>1, <1>2, <1>3, <1>4, <1>5, <1>6

\* The failure transaction changes at most the row it names.
LEMMA FailCurrentAttemptType ==
    ASSUME TypeOK, NEW r \in Recordings, NEW s \in Slots, NEW attempt, NEW cause \in Cause,
           NEW onlyExpired, FailCurrentAttempt(r, s, attempt, cause, onlyExpired)
    PROVE  /\ batch' \in [Recordings -> Batch]
           /\ job' \in [Recordings -> [Slots -> Job]]
<1>1. CASE UNCHANGED <<job, batch>>
  BY <1>1 DEF TypeOK
<1>2. CASE /\ job[r][s].status = "RUNNING"
           /\ Transition(r, s, FailedJob(job[r][s], cause))
  <2>1. job[r][s] \in Job
    BY DEF TypeOK
  <2>2. RecordFailure(job[r][s]) \in Job
    BY <2>1, JobOperations
  <2>3. FailedJob(job[r][s], cause) \in Job /\ FailedJob(job[r][s], cause).status \in JobRow
    BY <2>1, <2>2, JobOperations DEF FailedJob, JobRow
  <2> QED
    BY <1>2, <2>3, TransitionType DEF JobRow
<1> QED
  BY <1>1, <1>2 DEF FailCurrentAttempt, IsCurrentExecution

\* Deleting rows keeps the table well-formed.
LEMMA DeleteType ==
    ASSUME NEW jobs \in [Slots -> Job], NEW doomed
    PROVE  Delete(jobs, doomed) \in [Slots -> Job]
<1>1. [NoJob EXCEPT !.status = "DELETED"] \in Job
  BY DEF NoJob, Job, JobStatus
<1> HIDE DEF NoJob, Job
<1> QED
  BY <1>1 DEF Delete

-----------------------------------------------------------------------------
(* TypeOK and Placed, one lemma per actor *)

TypeInv == TypeOK /\ Placed

\* The empty tables have their types.
LEMMA InitType == Init => TypeInv
<1> SUFFICES ASSUME Init PROVE TypeInv
  OBVIOUS
<1>1. NoBatch \in Batch
  BY DEF NoBatch, Batch, RegistrationState, ProcessingStatus
<1>2. NoJob \in Job
  BY DEF NoJob, Job, JobStatus
<1>3. Idle \in Execution
  BY DEF Idle, Execution, Cause
<1>4. NoCandidate \in Candidate
  BY DEF NoCandidate, Candidate
<1>5. members \in SUBSET Members
  BY DEF Init
<1>6. transcript \in [Recordings -> TranscriptState]
  BY DEF Init, TranscriptState
<1>7. batch \in [Recordings -> Batch] /\ job \in [Recordings -> [Slots -> Job]]
  BY <1>1, <1>2 DEF Init
<1>8. docs \in [Recordings -> SUBSET Document]
  BY DEF Init
<1>9. audio \in [Recordings -> {"NONE", "COMPLETED", "DELETION_REQUESTED"}]
  BY DEF Init
<1>10. worker \in [Workers -> Execution] /\ recoverer \in [Recoverers -> Candidate]
  BY <1>3, <1>4 DEF Init
<1>11. cleaner \in [Cleaners -> Recordings \cup {None}]
  BY DEF Init
<1>12. Placed
  BY DEF Init, Placed, Idle
<1> QED
  BY <1>5, <1>6, <1>7, <1>8, <1>9, <1>10, <1>11, <1>12 DEF TypeInv, TypeOK

\* No step of an executor thread spoils a row or what the thread holds.
LEMMA WorkerStepType ==
    ASSUME TypeInv, NEW w \in Workers, WorkerStep(w)
    PROVE  TypeInv'
<1> USE DEF TypeInv
<1> DEFINE r == worker[w].recording
           s == worker[w].slot
<1>0. /\ worker[w] \in Execution
      /\ worker[w].pc # "IDLE" => r \in Recordings /\ s \in Slots
      /\ Idle \in Execution
      /\ Idle.pc = "IDLE"
  BY DEF TypeOK, Placed, Idle, Execution, Cause
<1>00. ASSUME Committed(w), worker[w].pc # "IDLE", recoverer' = recoverer
       PROVE  worker' \in [Workers -> Execution] /\ Placed'
  <2> HIDE DEF r, s
  <2> DEFINE e == [worker[w] EXCEPT !.pc = "FAILING", !.cause = "TRANSIENT"]
  <2>1. e \in Execution /\ e.recording = r /\ e.slot = s
    BY <1>0 DEF Execution, Cause, r, s
  <2>2. worker' = [worker EXCEPT ![w] = Idle] \/ worker' = [worker EXCEPT ![w] = e]
    BY <1>00 DEF Committed, Release, Hold
  <2> HIDE DEF e
  <2> QED
    BY <1>0, <1>00, <2>1, <2>2 DEF TypeOK, Placed
<1>1. ASSUME NEW q \in Recordings, NEW x \in Slots, Dispatch(w, q, x)
      PROVE  TypeInv'
  <2> DEFINE e == [Idle EXCEPT !.pc = "DISPATCHED", !.recording = q, !.slot = x]
  <2>1. e \in Execution /\ e.recording = q /\ e.slot = x
    BY DEF Idle, Execution, Cause
  <2>2. worker' = [worker EXCEPT ![w] = e]
    BY <1>1 DEF Dispatch, Hold
  <2> HIDE DEF e
  <2>3. TypeOK'
    BY <1>1, <2>1, <2>2 DEF TypeOK, Dispatch, stored
  <2>4. Placed'
    BY <1>1, <2>1, <2>2 DEF TypeOK, Placed, Dispatch, stored
  <2> QED
    BY <2>3, <2>4
<1>2. CASE Claim(w)
  <2> HIDE DEF r, s
  <2>1. r \in Recordings /\ s \in Slots /\ job[r][s] \in Job
    BY <1>0, <1>2 DEF Claim, TypeOK
  <2>2. CASE Release(w) /\ UNCHANGED <<job, batch>>
    <3>1. worker' = [worker EXCEPT ![w] = Idle]
      BY <2>2 DEF Release, Hold
    <3> QED
      BY <1>0, <1>2, <2>2, <3>1 DEF Claim, TypeOK, Placed
  <2>3. CASE job[r][s].status = "QUEUED" /\ Transition(r, s, RecordFailure(job[r][s])) /\ Release(w)
    <3>1. worker' = [worker EXCEPT ![w] = Idle]
      BY <2>3 DEF Release, Hold
    <3>2. batch' \in [Recordings -> Batch] /\ job' \in [Recordings -> [Slots -> Job]]
      BY <2>1, <2>3, JobOperations, TransitionType DEF JobRow
    <3> QED
      BY <1>0, <1>2, <3>1, <3>2 DEF Claim, TypeOK, Placed
  <2>4. CASE /\ job[r][s].status = "QUEUED" /\ Transition(r, s, StartRunning(job[r][s]))
             /\ Hold(w, [worker[w] EXCEPT !.pc = "EXECUTING", !.attempt = job[r][s].attempt])
    <3> DEFINE e == [worker[w] EXCEPT !.pc = "EXECUTING", !.attempt = job[r][s].attempt]
    <3>1. e \in Execution /\ e.recording = r /\ e.slot = s
      BY <1>0, <2>1 DEF Execution, Job, r, s
    <3>2. worker' = [worker EXCEPT ![w] = e]
      BY <2>4 DEF Hold
    <3> HIDE DEF e
    <3>3. batch' \in [Recordings -> Batch] /\ job' \in [Recordings -> [Slots -> Job]]
      BY <2>1, <2>4, JobOperations, TransitionType DEF JobRow
    <3> QED
      BY <1>2, <2>1, <3>1, <3>2, <3>3 DEF Claim, TypeOK, Placed
  <2> QED
    BY <1>2, <2>2, <2>3, <2>4 DEF Claim, IsReady, r, s
<1>3. ASSUME NEW topics \in SUBSET Topics, CompleteClassification(w, topics)
      PROVE  TypeInv'
  <2> HIDE DEF r, s
  <2>1. r \in Recordings
    BY <1>0, <1>3 DEF CompleteClassification, ResultAccepted
  <2>2. Committed(w)
    BY <1>3 DEF CompleteClassification
  <2>3. RegisterTopics(batch[r], topics) \in Batch
    BY <2>1, RegisterTopicsType DEF TypeOK
  <2>4. batch' \in [Recordings -> Batch]
    BY <1>3, <2>1, <2>3 DEF CompleteClassification, TypeOK, r
  <2>5. job' \in [Recordings -> [Slots -> Job]]
    <3>1. job[r] \in [Slots -> Job]
      BY <2>1 DEF TypeOK
    <3> DEFINE jobs == [x \in Slots |-> IF x = Classification THEN RecordSuccess(job[r][x])
                                        ELSE IF x \in topics THEN QueuedJob ELSE job[r][x]]
    <3>2. jobs \in [Slots -> Job]
      BY <3>1, JobOperations
    <3>3. job' = [job EXCEPT ![r] = jobs]
      BY <1>3 DEF CompleteClassification, r
    <3> HIDE DEF jobs
    <3> QED
      BY <2>1, <3>2, <3>3 DEF TypeOK
  <2> QED
    <3>1. worker[w].pc # "IDLE"
      BY <1>3 DEF CompleteClassification, ResultAccepted
    <3>2. worker' \in [Workers -> Execution] /\ Placed'
      BY <1>00, <1>3, <2>2, <3>1 DEF CompleteClassification
    <3> QED
      BY <1>3, <2>4, <2>5, <3>2 DEF CompleteClassification, TypeOK
<1>4. CASE CompleteGeneration(w)
  <2> HIDE DEF r, s
  <2>1. r \in Recordings /\ s \in Slots /\ job[r][s] \in Job /\ s # Classification
    BY <1>0, <1>4 DEF CompleteGeneration, ResultAccepted, TypeOK, s
  <2>2. Committed(w)
    BY <1>4 DEF CompleteGeneration
  <2>3. batch' \in [Recordings -> Batch] /\ job' \in [Recordings -> [Slots -> Job]]
    <3>1. job[r][s].status \in JobRow /\ Transition(r, s, RecordSuccess(job[r][s]))
      BY <1>4 DEF CompleteGeneration, ResultAccepted, IsCurrentExecution, JobRow, r, s
    <3> QED
      BY <2>1, <3>1, JobOperations, TransitionType DEF JobRow
  <2>4. docs' \in [Recordings -> SUBSET Document]
    <3>1. [topic |-> s, attempt |-> worker[w].attempt] \in Document
      BY <1>0, <2>1 DEF Document, Execution, Slots
    <3> HIDE DEF Document
    <3> QED
      BY <1>4, <2>1, <3>1 DEF CompleteGeneration, TypeOK, r, s
  <2> QED
    <3>1. worker[w].pc # "IDLE"
      BY <1>4 DEF CompleteGeneration, ResultAccepted
    <3>2. worker' \in [Workers -> Execution] /\ Placed'
      BY <1>00, <1>4, <2>2, <3>1 DEF CompleteGeneration
    <3> QED
      BY <1>4, <2>3, <2>4, <3>2 DEF CompleteGeneration, TypeOK
<1>5. ASSUME NEW cause \in Cause, ExecutionFails(w, cause)
      PROVE  TypeInv'
  <2> HIDE DEF r, s
  <2> DEFINE e == [worker[w] EXCEPT !.pc = "FAILING", !.cause = cause]
  <2>1. e \in Execution /\ e.recording = r /\ e.slot = s
    BY <1>0 DEF Execution, r, s
  <2>2. worker' = [worker EXCEPT ![w] = e]
    BY <1>5 DEF ExecutionFails, Hold
  <2> HIDE DEF e
  <2> QED
    BY <1>0, <1>5, <2>1, <2>2 DEF ExecutionFails, stored, TypeOK, Placed
<1>6. CASE FailAttempt(w)
  <2> HIDE DEF r, s
  <2>1. r \in Recordings /\ s \in Slots /\ worker[w].cause \in Cause
    BY <1>0, <1>6 DEF FailAttempt, Execution
  <2>2. worker' = [worker EXCEPT ![w] = Idle]
    BY <1>6 DEF FailAttempt, Release, Hold
  <2>3. batch' \in [Recordings -> Batch] /\ job' \in [Recordings -> [Slots -> Job]]
    BY <1>6, <2>1, FailCurrentAttemptType DEF FailAttempt, r, s
  <2> QED
    BY <1>0, <1>6, <2>2, <2>3 DEF FailAttempt, TypeOK, Placed
<1>7. CASE Abandon(w)
  <2>1. worker' = [worker EXCEPT ![w] = Idle]
    BY <1>7 DEF Abandon, Release, Hold
  <2> QED
    BY <1>0, <1>7, <2>1 DEF Abandon, stored, TypeOK, Placed
<1> QED
  BY <1>1, <1>2, <1>3, <1>4, <1>5, <1>6, <1>7 DEF WorkerStep, CompleteExecution

\* No step of a recovery sweep spoils a row or the candidate it holds.
LEMMA RecovererStepType ==
    ASSUME TypeInv, NEW v \in Recoverers, RecovererStep(v)
    PROVE  TypeInv'
<1> USE DEF TypeInv
<1>0. NoCandidate \in Candidate
  BY DEF NoCandidate, Candidate
<1>1. ASSUME NEW r \in Recordings, NEW s \in Slots, ScanExpired(v, r, s)
      PROVE  TypeInv'
  <2> DEFINE e == [recording |-> r, slot |-> s, attempt |-> job[r][s].attempt]
  <2>1. e \in Candidate /\ e.recording = r /\ e.slot = s
    BY DEF TypeOK, Candidate, Job
  <2>2. recoverer' = [recoverer EXCEPT ![v] = e]
    BY <1>1 DEF ScanExpired
  <2> HIDE DEF e
  <2> QED
    BY <1>1, <2>1, <2>2 DEF ScanExpired, stored, TypeOK, Placed
<1>2. CASE ExpireAttempt(v)
  <2> DEFINE r == recoverer[v].recording
             s == recoverer[v].slot
  <2>1. r \in Recordings /\ s \in Slots
    BY <1>2 DEF ExpireAttempt, Placed
  <2>2. FailCurrentAttempt(r, s, recoverer[v].attempt, "TRANSIENT", TRUE) /\ "TRANSIENT" \in Cause
    BY <1>2 DEF ExpireAttempt, Cause
  <2> HIDE DEF r, s
  <2>3. batch' \in [Recordings -> Batch] /\ job' \in [Recordings -> [Slots -> Job]]
    BY <2>1, <2>2, FailCurrentAttemptType
  <2> QED
    BY <1>0, <1>2, <2>3 DEF ExpireAttempt, TypeOK, Placed
<1>3. CASE RecoveryDeferred(v)
  BY <1>0, <1>3 DEF RecoveryDeferred, stored, TypeOK, Placed
<1> QED
  BY <1>1, <1>2, <1>3 DEF RecovererStep

\* What the cleanup transaction writes.
LEMMA CleanupType ==
    ASSUME TypeOK, NEW c \in Cleaners, Cleanup(c)
    PROVE  TypeOK'
<1> DEFINE r == cleaner[c]
           jobs == WithoutExpiredFailures(r)
<1>1. r \in Recordings
  BY DEF Cleanup, TypeOK
<1> HIDE DEF r
<1>2. jobs \in [Slots -> Job]
  BY <1>1, DeleteType DEF WithoutExpiredFailures, TypeOK
<1> HIDE DEF jobs
<1>3. /\ job' \in [Recordings -> [Slots -> Job]]
      /\ batch' \in [Recordings -> Batch]
      /\ transcript' \in [Recordings -> TranscriptState]
  <2>1. CASE ReleaseInput(r, jobs)
    <3> DEFINE left == Delete(jobs, {x \in Slots : jobs[x].status # "ABSENT"})
    <3>1. left \in [Slots -> Job]
      BY <1>2, DeleteType
    <3> HIDE DEF left
    <3>2. job' = [job EXCEPT ![r] = left]
      BY <2>1 DEF ReleaseInput, left
    <3>3. [batch[r] EXCEPT !.released = TRUE] \in Batch
      BY <1>1 DEF TypeOK, Batch
    <3>4. batch' \in [Recordings -> Batch]
      BY <2>1, <1>1, <3>3 DEF ReleaseInput, TypeOK
    <3> QED
      BY <2>1, <1>1, <3>1, <3>2, <3>4 DEF ReleaseInput, TypeOK, TranscriptState
  <2>2. CASE job' = [job EXCEPT ![r] = jobs] /\ UNCHANGED <<batch, transcript>>
    BY <1>1, <1>2, <2>2 DEF TypeOK
  <2> QED
    BY <2>1, <2>2 DEF Cleanup, r, jobs
<1>4. audio' \in [Recordings -> {"NONE", "COMPLETED", "DELETION_REQUESTED"}]
  <2>1. ScheduleNoContent(r)
    BY DEF Cleanup, r
  <2> QED
    BY <1>1, <2>1 DEF ScheduleNoContent, TypeOK
<1> QED
  BY <1>3, <1>4 DEF Cleanup, TypeOK

\* No step of a retention sweep spoils a row.
LEMMA CleanerStepType ==
    ASSUME TypeInv, NEW c \in Cleaners, CleanerStep(c)
    PROVE  TypeInv'
<1> USE DEF TypeInv
<1>1. ASSUME NEW r \in Recordings, ScanRetention(c, r)
      PROVE  TypeInv'
  BY <1>1 DEF ScanRetention, stored, TypeOK, Placed
<1>2. CASE Cleanup(c)
  BY <1>2, CleanupType DEF Cleanup, Placed
<1>3. CASE CleanupDeferred(c)
  BY <1>3 DEF CleanupDeferred, stored, TypeOK, Placed
<1> QED
  BY <1>1, <1>2, <1>3 DEF CleanerStep

\* Nor do the intake, a member's retry, a time limit or the audio upload.
LEMMA RecordingStepType ==
    ASSUME TypeInv, NEW r \in Recordings, RecordingStep(r)
    PROVE  TypeInv'
<1> USE DEF TypeInv
<1>1. ASSUME NEW content \in {"TEXT", "BLANK"}, AcceptCompletedTranscript(r, content)
      PROVE  TypeInv'
  <2> DEFINE accepted == [NoBatch EXCEPT !.registration = "WAITING_CLASSIFICATION"]
  <2>1. accepted \in Batch
    BY DEF NoBatch, Batch, RegistrationState, ProcessingStatus
  <2> HIDE DEF accepted
  <2>2. RegisterTopics(accepted, {}) \in Batch
    BY <2>1, RegisterTopicsType
  <2>3. Classification \in Slots /\ QueuedJob \in Job
    BY DEF Slots, QueuedJob, Job, JobStatus
  <2>4. /\ \/ batch' = [batch EXCEPT ![r] = RegisterTopics(accepted, {})]
           \/ batch' = [batch EXCEPT ![r] = accepted]
        /\ \/ job' = job
           \/ job' = [job EXCEPT ![r][Classification] = QueuedJob]
    BY <1>1 DEF AcceptCompletedTranscript, accepted
  <2>5. batch' \in [Recordings -> Batch] /\ job' \in [Recordings -> [Slots -> Job]]
    <3>1. batch' \in [Recordings -> Batch]
      BY <2>1, <2>2, <2>4 DEF TypeOK
    <3>2. job' \in [Recordings -> [Slots -> Job]]
      <4>1. job \in [Recordings -> [Slots -> Job]]
        BY DEF TypeOK
      <4>2. CASE job' = [job EXCEPT ![r][Classification] = QueuedJob]
        BY <2>3, <4>1, <4>2
      <4> QED
        BY <2>4, <4>1, <4>2
    <3> QED
      BY <3>1, <3>2
  <2> QED
    BY <1>1, <2>5 DEF AcceptCompletedTranscript, TypeOK, Placed, TranscriptState
<1>2. ASSUME NEW s \in Slots, RetryJob(r, s)
      PROVE  TypeInv'
  <2>1. job[r][s] \in Job
    BY DEF TypeOK
  <2>2. /\ job[r][s].status \in JobRow
        /\ Transition(r, s, RetryByUser(job[r][s]))
    BY <1>2 DEF RetryJob, CanRetryByUser, JobRow
  <2>3. batch' \in [Recordings -> Batch] /\ job' \in [Recordings -> [Slots -> Job]]
    BY <2>1, <2>2, JobOperations, TransitionType DEF JobRow
  <2> QED
    BY <1>2, <2>3 DEF RetryJob, TypeOK, Placed
<1>3. ASSUME NEW s \in Slots, LimitReached(r, s)
      PROVE  TypeInv'
  <2>1. [job[r][s] EXCEPT !.due = TRUE] \in Job
    <3>1. job[r][s] \in Job
      BY DEF TypeOK
    <3> QED
      BY <3>1 DEF Job
  <2>2. job' = [job EXCEPT ![r][s] = [job[r][s] EXCEPT !.due = TRUE]]
    BY <1>3, Zenon DEF LimitReached
  <2>3. job' \in [Recordings -> [Slots -> Job]]
    BY <2>1, <2>2 DEF TypeOK
  <2> QED
    BY <1>3, <2>3 DEF LimitReached, TypeOK, Placed
<1>4. CASE CompleteAudioUpload(r)
  BY <1>4 DEF CompleteAudioUpload, TypeOK, Placed
<1>5. CASE ScheduleAudioDeletion(r)
  BY <1>5 DEF ScheduleAudioDeletion, ScheduleNoContent, TypeOK, Placed
<1> QED
  BY <1>1, <1>2, <1>3, <1>4, <1>5 DEF RecordingStep

\* Every variable keeps its type, whatever the actors do, and a thread or sweep
\* that is at work always names a recording and a slot (the transactions of
\* DocumentGenerationClaimService, the result services, the failure service and
\* DocumentRetentionCleanupService leave well-formed rows; no batch counter goes
\* below zero).
THEOREM TypeCorrect == Spec => [](TypeOK /\ Placed)
<1>1. Init => TypeInv
  BY InitType
<1>2. TypeInv /\ [Next]_vars => TypeInv'
  <2> SUFFICES ASSUME TypeInv, [Next]_vars PROVE TypeInv'
    OBVIOUS
  <2>1. ASSUME NEW m \in Members, Join(m) \/ Leave(m)
        PROVE  TypeInv'
    BY <2>1 DEF Join, Leave, TypeInv, TypeOK, Placed
  <2>2. CASE UNCHANGED vars
    BY <2>2 DEF vars, TypeInv, TypeOK, Placed
  <2> QED
    BY <2>1, <2>2, WorkerStepType, RecovererStepType, CleanerStepType, RecordingStepType
       DEF Next
<1> QED
  BY <1>1, <1>2, PTL DEF Spec, TypeInv

-----------------------------------------------------------------------------
(* What one step may do *)

DeletedJob == [NoJob EXCEPT !.status = "DELETED"]

\* The row of slot s goes from j to k, in a batch whose registration becomes
\* "registration".
RowMove(s, j, k, registration) ==
    \/ k = j
    \/ /\ ~WorkspaceDeleted /\ j.status = "ABSENT" /\ k = QueuedJob
       /\ registration = IF s = Classification THEN "WAITING_CLASSIFICATION"
                         ELSE "TOPICS_REGISTERED"
    \/ ~WorkspaceDeleted /\ IsReady(j) /\ k = StartRunning(j)
    \/ j.status \in Live /\ k = RecordFailure(j)
    \/ ~WorkspaceDeleted /\ j.status = "RUNNING" /\ ~j.due /\ k = RecordSuccess(j)
    \/ /\ ~WorkspaceDeleted /\ j.status = "RUNNING" /\ CanRetryAutomatically(j)
       /\ k = RetryAutomatically(RecordFailure(j))
    \/ ~WorkspaceDeleted /\ CanRetryByUser(j) /\ k = RetryByUser(j)
    \/ j.status \in {"QUEUED", "RUNNING", "FAILED"} /\ k = [j EXCEPT !.due = TRUE]
    \/ /\ IsRetentionExpired(j) \/ j.status = "DELETED" \/ (j.status = "SUCCEEDED" /\ s = Classification)
       /\ k = DeletedJob

\* Registration only goes forward, and the topics change with it.
BatchMove(r) ==
    \/ batch'[r].registration = batch[r].registration /\ batch'[r].topics = batch[r].topics
    \/ /\ ~WorkspaceDeleted /\ batch[r].registration = "NONE"
       /\ batch'[r].registration \in {"WAITING_CLASSIFICATION", "NO_CONTENT"}
    \/ /\ ~WorkspaceDeleted /\ batch[r].registration = "WAITING_CLASSIFICATION"
       /\ batch'[r].registration \in {"TOPICS_REGISTERED", "NO_CONTENT"}

\* A document is written exactly with its job's success.
DocumentMove(r) ==
    \/ docs'[r] = docs[r] /\ \A t \in Topics : job'[r][t].status = "SUCCEEDED" => job'[r][t] = job[r][t]
    \/ \E t \in Topics :
          /\ docs'[r] = docs[r] \cup {[topic |-> t, attempt |-> job[r][t].attempt]}
          /\ ~WorkspaceDeleted /\ job[r][t].status = "RUNNING"
          /\ job'[r][t] = RecordSuccess(job[r][t])
          /\ \A x \in Topics \ {t} : job'[r][x] = job[r][x]

Moves ==
    /\ \A r \in Recordings, s \in Slots : RowMove(s, job[r][s], job'[r][s], batch'[r].registration)
    /\ \A r \in Recordings : BatchMove(r) /\ DocumentMove(r)

\* A step that leaves jobs, batches and documents alone.
LEMMA NoMoves ==
    ASSUME UNCHANGED <<job, batch, docs>>
    PROVE  Moves
BY DEF Moves, RowMove, BatchMove, DocumentMove

\* A step that changes one row through its batch, and no document.
LEMMA TransitionMoves ==
    ASSUME TypeOK, NEW r \in Recordings, NEW s \in Slots, NEW next \in Job,
           job[r][s].status \in JobRow, next.status \in JobRow \ {"SUCCEEDED"},
           Transition(r, s, next), docs' = docs,
           RowMove(s, job[r][s], next, batch[r].registration)
    PROVE  Moves
<1>1. /\ job'[r][s] = next
      /\ \A q \in Recordings, x \in Slots : q # r \/ x # s => job'[q][x] = job[q][x]
      /\ \A q \in Recordings : /\ batch'[q].registration = batch[q].registration
                               /\ batch'[q].topics = batch[q].topics
  BY TransitionType
<1>2. ASSUME NEW q \in Recordings, NEW x \in Slots
      PROVE  RowMove(x, job[q][x], job'[q][x], batch'[q].registration)
  <2>1. CASE q = r /\ x = s
    BY <1>1, <2>1
  <2>2. CASE q # r \/ x # s
    BY <1>1, <2>2 DEF RowMove
  <2> QED
    BY <2>1, <2>2
<1>3. ASSUME NEW q \in Recordings
      PROVE  BatchMove(q) /\ DocumentMove(q)
  BY <1>1 DEF BatchMove, DocumentMove, Slots
<1> QED
  BY <1>2, <1>3 DEF Moves

\* A failure recorded by a thread or by the recovery sweep.
LEMMA FailCurrentAttemptMoves ==
    ASSUME TypeOK, NEW r \in Recordings, NEW s \in Slots, NEW attempt, NEW cause,
           NEW onlyExpired, FailCurrentAttempt(r, s, attempt, cause, onlyExpired), docs' = docs
    PROVE  Moves
<1> DEFINE j == job[r][s]
<1>1. CASE UNCHANGED <<job, batch>>
  BY <1>1, NoMoves
<1>2. CASE j.status = "RUNNING" /\ Transition(r, s, FailedJob(j, cause))
  <2>1. j \in Job
    BY DEF TypeOK
  <2> HIDE DEF j
  <2>2. RecordFailure(j) \in Job
    BY <2>1, JobOperations
  <2>3. FailedJob(j, cause) \in Job /\ FailedJob(j, cause).status \in JobRow \ {"SUCCEEDED"}
    BY <2>1, <2>2, JobOperations DEF FailedJob, JobRow
  <2>4. RowMove(s, j, FailedJob(j, cause), batch[r].registration)
    BY <1>2 DEF FailedJob, RowMove, Live
  <2> QED
    BY <1>2, <2>3, <2>4, TransitionMoves DEF JobRow, j
<1> QED
  BY <1>1, <1>2 DEF FailCurrentAttempt, IsCurrentExecution

\* A claim starts a queued job or ends it, and nothing else.
LEMMA ClaimMoves ==
    ASSUME TypeInv, NEW w \in Workers, Claim(w)
    PROVE  Moves
<1> DEFINE r == worker[w].recording
           s == worker[w].slot
           j == job[r][s]
<1>1. r \in Recordings /\ s \in Slots /\ j \in Job /\ docs' = docs
  BY DEF Claim, TypeInv, TypeOK, Placed
<1>2. CASE UNCHANGED <<job, batch>>
  BY <1>1, <1>2, NoMoves
<1>3. CASE IsReady(j) /\ Transition(r, s, RecordFailure(j))
  <2> HIDE DEF j, r, s
  <2>1. RowMove(s, j, RecordFailure(j), batch[r].registration)
    BY <1>3 DEF RowMove, Live, IsReady
  <2> QED
    BY <1>1, <1>3, <2>1, JobOperations, TransitionMoves DEF IsReady, JobRow, TypeInv, j
<1>4. CASE ~WorkspaceDeleted /\ IsReady(j) /\ Transition(r, s, StartRunning(j))
  <2> HIDE DEF j, r, s
  <2>1. RowMove(s, j, StartRunning(j), batch[r].registration)
    BY <1>4 DEF RowMove
  <2> QED
    BY <1>1, <1>4, <2>1, JobOperations, TransitionMoves DEF IsReady, JobRow, TypeInv, j
<1> QED
  BY <1>2, <1>3, <1>4 DEF Claim

\* A classification result ends its job and queues the topics' jobs.
LEMMA CompleteClassificationMoves ==
    ASSUME TypeInv, Staged, NEW w \in Workers, NEW topics \in SUBSET Topics,
           CompleteClassification(w, topics)
    PROVE  Moves
<1> DEFINE r == worker[w].recording
           b == RegisterTopics(batch[r], topics)
           rows == [s \in Slots |-> IF s = Classification THEN RecordSuccess(job[r][s])
                                    ELSE IF s \in topics THEN QueuedJob ELSE job[r][s]]
<1>1. /\ r \in Recordings
      /\ ~WorkspaceDeleted
      /\ job[r][Classification].status = "RUNNING" /\ ~job[r][Classification].due
      /\ batch[r].registration = "WAITING_CLASSIFICATION"
      /\ docs' = docs
      /\ job' = [job EXCEPT ![r] = rows]
      /\ batch' = [batch EXCEPT ![r] = b]
  BY DEF CompleteClassification, ResultAccepted, IsCurrentExecution, IsExpired, TypeInv, Placed
<1>2. batch[r] \in Batch /\ job \in [Recordings -> [Slots -> Job]] /\ batch \in [Recordings -> Batch]
  BY <1>1 DEF TypeInv, TypeOK
<1>3. b.registration = IF topics = {} THEN "NO_CONTENT" ELSE "TOPICS_REGISTERED"
  BY <1>2 DEF RegisterTopics, Batch
<1>4. job'[r] = rows /\ batch'[r] = b
      /\ \A q \in Recordings \ {r} : job'[q] = job[q] /\ batch'[q] = batch[q]
  <2> HIDE DEF rows, b, r
  <2> QED
    BY <1>1, <1>2
<1>5. \A t \in Topics : job[r][t].status = "ABSENT"
  BY <1>1 DEF Staged
<1>6. ASSUME NEW s \in Slots
      PROVE  RowMove(s, job[r][s], job'[r][s], batch'[r].registration)
  <2>1. CASE s = Classification
    BY <1>1, <1>4, <2>1 DEF RowMove
  <2>2. CASE s # Classification /\ s \in topics
    <3>1. job'[r][s] = QueuedJob /\ batch'[r].registration = "TOPICS_REGISTERED"
      BY <1>3, <1>4, <2>2
    <3> QED
      BY <1>1, <1>5, <2>2, <3>1 DEF RowMove
  <2>3. CASE s # Classification /\ s \notin topics
    BY <1>4, <2>3 DEF RowMove
  <2> QED
    BY <2>1, <2>2, <2>3
<1>7. BatchMove(r)
  BY <1>1, <1>3, <1>4 DEF BatchMove
<1>8. DocumentMove(r)
  <2> SUFFICES ASSUME NEW t \in Topics, job'[r][t].status = "SUCCEEDED"
               PROVE  job'[r][t] = job[r][t]
    BY <1>1 DEF DocumentMove
  <2>1. t \in Slots /\ t # Classification
    BY SlotsAssumption DEF Slots
  <2>2. CASE t \in topics
    BY <1>4, <2>1, <2>2 DEF QueuedJob
  <2>3. CASE t \notin topics
    BY <1>4, <2>1, <2>3
  <2> QED
    BY <2>2, <2>3
<1>9. ASSUME NEW q \in Recordings \ {r}
      PROVE  /\ \A s \in Slots : RowMove(s, job[q][s], job'[q][s], batch'[q].registration)
             /\ BatchMove(q) /\ DocumentMove(q)
  BY <1>1, <1>4 DEF RowMove, BatchMove, DocumentMove
<1> QED
  BY <1>6, <1>7, <1>8, <1>9 DEF Moves

\* A generation result ends its job and writes the document of its attempt.
LEMMA CompleteGenerationMoves ==
    ASSUME TypeInv, NEW w \in Workers, CompleteGeneration(w)
    PROVE  Moves
<1> DEFINE r == worker[w].recording
           s == worker[w].slot
           j == job[r][s]
           d == [topic |-> s, attempt |-> j.attempt]
<1>1. /\ r \in Recordings /\ s \in Topics /\ s \in Slots /\ j \in Job
      /\ ~WorkspaceDeleted
      /\ j.status = "RUNNING" /\ ~j.due
      /\ Transition(r, s, RecordSuccess(j))
      /\ docs' = [docs EXCEPT ![r] = @ \cup {d}]
      /\ docs \in [Recordings -> SUBSET Document]
  BY DEF CompleteGeneration, ResultAccepted, IsCurrentExecution, IsExpired, TypeInv, TypeOK,
         Placed, Slots
<1> HIDE DEF r, s, d
<1>2. /\ job'[r][s] = RecordSuccess(j)
      /\ \A q \in Recordings, x \in Slots : q # r \/ x # s => job'[q][x] = job[q][x]
      /\ \A q \in Recordings : /\ batch'[q].registration = batch[q].registration
                               /\ batch'[q].topics = batch[q].topics
  <2>1. RecordSuccess(j) \in Job /\ RecordSuccess(j).status \in JobRow /\ j.status \in JobRow
    BY <1>1, JobOperations DEF JobRow
  <2> QED
    BY <1>1, <2>1, TransitionType DEF TypeInv
<1>3. ASSUME NEW q \in Recordings, NEW x \in Slots
      PROVE  RowMove(x, job[q][x], job'[q][x], batch'[q].registration)
  <2>1. CASE q = r /\ x = s
    BY <1>1, <1>2, <2>1 DEF RowMove
  <2>2. CASE q # r \/ x # s
    BY <1>2, <2>2 DEF RowMove
  <2> QED
    BY <2>1, <2>2
<1>4. ASSUME NEW q \in Recordings
      PROVE  BatchMove(q) /\ DocumentMove(q)
  <2>1. BatchMove(q)
    BY <1>2 DEF BatchMove
  <2>2. CASE q = r
    <3>1. docs'[q] = docs[q] \cup {d}
      BY <1>1, <2>2
    <3>2. \A x \in Topics \ {s} : job'[q][x] = job[q][x]
      BY <1>2, <2>2 DEF Slots
    <3> QED
      BY <1>1, <1>2, <2>1, <2>2, <3>1, <3>2 DEF DocumentMove, d
  <2>3. CASE q # r
    <3>1. docs'[q] = docs[q]
      BY <1>1, <2>3
    <3> QED
      BY <1>2, <2>1, <2>3, <3>1 DEF DocumentMove, Slots
  <2> QED
    BY <2>2, <2>3
<1> QED
  BY <1>3, <1>4 DEF Moves

\* Every step of a thread is one of the moves.
LEMMA WorkerStepMoves ==
    ASSUME TypeInv, Staged, NEW w \in Workers, WorkerStep(w)
    PROVE  Moves
<1>1. ASSUME NEW r \in Recordings, NEW s \in Slots, Dispatch(w, r, s)
      PROVE  Moves
  BY <1>1, NoMoves DEF Dispatch, stored
<1>2. ASSUME NEW topics \in SUBSET Topics, CompleteClassification(w, topics)
      PROVE  Moves
  BY <1>2, CompleteClassificationMoves
<1>3. ASSUME NEW cause \in Cause, ExecutionFails(w, cause)
      PROVE  Moves
  BY <1>3, NoMoves DEF ExecutionFails, stored
<1>4. CASE FailAttempt(w)
  <2>1. worker[w].recording \in Recordings /\ worker[w].slot \in Slots
    BY <1>4 DEF FailAttempt, TypeInv, Placed
  <2> QED
    BY <1>4, <2>1, FailCurrentAttemptMoves DEF FailAttempt, TypeInv
<1>5. CASE Abandon(w)
  BY <1>5, NoMoves DEF Abandon, stored
<1> QED
  BY <1>1, <1>2, <1>3, <1>4, <1>5, ClaimMoves, CompleteGenerationMoves
     DEF WorkerStep, CompleteExecution

\* Every step of a recovery sweep is one of the moves.
LEMMA RecovererStepMoves ==
    ASSUME TypeInv, NEW v \in Recoverers, RecovererStep(v)
    PROVE  Moves
<1>1. ASSUME NEW r \in Recordings, NEW s \in Slots, ScanExpired(v, r, s)
      PROVE  Moves
  BY <1>1, NoMoves DEF ScanExpired, stored
<1>2. CASE ExpireAttempt(v)
  <2>1. recoverer[v].recording \in Recordings /\ recoverer[v].slot \in Slots
    BY <1>2 DEF ExpireAttempt, TypeInv, Placed
  <2> QED
    BY <1>2, <2>1, FailCurrentAttemptMoves DEF ExpireAttempt, TypeInv
<1>3. CASE RecoveryDeferred(v)
  BY <1>3, NoMoves DEF RecoveryDeferred, stored
<1> QED
  BY <1>1, <1>2, <1>3 DEF RecovererStep

\* The retention sweep deletes expired failures and, with the input, the
\* classification's success; never a job that produced a document.
LEMMA CleanupMoves ==
    ASSUME TypeInv, NEW c \in Cleaners, Cleanup(c)
    PROVE  Moves
<1> DEFINE r == cleaner[c]
           jobs == WithoutExpiredFailures(r)
           left == Delete(jobs, {s \in Slots : jobs[s].status # "ABSENT"})
<1>1. r \in Recordings /\ docs' = docs /\ job \in [Recordings -> [Slots -> Job]]
      /\ batch \in [Recordings -> Batch]
  BY DEF Cleanup, TypeInv, TypeOK
<1> HIDE DEF r
<1>2. \A s \in Slots : \/ jobs[s] = job[r][s]
                       \/ IsRetentionExpired(job[r][s]) /\ jobs[s] = DeletedJob
  BY DEF WithoutExpiredFailures, Delete, DeletedJob
<1> HIDE DEF jobs
<1>3. \A s \in Slots : RowMove(s, job[r][s], jobs[s], batch[r].registration)
  BY <1>2 DEF RowMove
<1>4. ASSUME ReleasesInput(r, jobs)
      PROVE  \A s \in Slots : RowMove(s, job[r][s], left[s], batch[r].registration)
  <2> SUFFICES ASSUME NEW s \in Slots
               PROVE  RowMove(s, job[r][s], left[s], batch[r].registration)
    OBVIOUS
  <2>1. CASE jobs[s].status = "ABSENT"
    <3>1. left[s] = jobs[s]
      BY <2>1 DEF Delete
    <3> QED
      BY <1>3, <3>1
  <2>2. CASE jobs[s].status # "ABSENT"
    <3>1. left[s] = DeletedJob
      BY <2>2 DEF Delete, DeletedJob
    <3>2. jobs[s].status = "DELETED" \/ (jobs[s].status = "SUCCEEDED" /\ s = Classification)
      BY <1>4, <2>2 DEF ReleasesInput, RequiresInput
    <3> QED
      BY <1>2, <3>1, <3>2 DEF RowMove
  <2> QED
    BY <2>1, <2>2
<1>5. \E rows : /\ job' = [job EXCEPT ![r] = rows]
                /\ \A s \in Slots : RowMove(s, job[r][s], rows[s], batch[r].registration)
  <2>1. CASE ReleasesInput(r, jobs) /\ ReleaseInput(r, jobs)
    BY <1>4, <2>1 DEF ReleaseInput
  <2>2. CASE job' = [job EXCEPT ![r] = jobs]
    BY <1>3, <2>2
  <2> QED
    BY <2>1, <2>2 DEF Cleanup, r, jobs
<1>6. \A q \in Recordings : /\ batch'[q].registration = batch[q].registration
                            /\ batch'[q].topics = batch[q].topics
  <2>1. batch' = [batch EXCEPT ![r].released = TRUE] \/ batch' = batch
    BY DEF Cleanup, ReleaseInput, r
  <2> QED
    BY <1>1, <2>1 DEF Batch
<1>7. ASSUME NEW q \in Recordings, NEW s \in Slots
      PROVE  RowMove(s, job[q][s], job'[q][s], batch'[q].registration)
  <2>1. CASE q = r
    BY <1>1, <1>5, <1>6, <2>1
  <2>2. CASE q # r
    BY <1>1, <1>5, <2>2 DEF RowMove
  <2> QED
    BY <2>1, <2>2
<1>8. ASSUME NEW q \in Recordings
      PROVE  DocumentMove(q)
  <2>1. \A s \in Slots : job'[q][s] = job[q][s] \/ job'[q][s] = DeletedJob
    <3>1. CASE q = r
      <4>1. \A s \in Slots : jobs[s] = job[r][s] \/ jobs[s] = DeletedJob
        BY <1>2
      <4>2. \A s \in Slots : left[s] = jobs[s] \/ left[s] = DeletedJob
        BY DEF Delete, DeletedJob
      <4>3. job' = [job EXCEPT ![r] = left] \/ job' = [job EXCEPT ![r] = jobs]
        BY DEF Cleanup, ReleaseInput, r, jobs
      <4> QED
        BY <1>1, <3>1, <4>1, <4>2, <4>3
    <3>2. CASE q # r
      BY <1>1, <1>5, <3>2
    <3> QED
      BY <3>1, <3>2
  <2>2. DeletedJob.status = "DELETED"
    BY DEF DeletedJob, NoJob
  <2> QED
    BY <1>1, <2>1, <2>2 DEF DocumentMove, Slots
<1>9. \A q \in Recordings : BatchMove(q)
  BY <1>6 DEF BatchMove
<1> QED
  BY <1>7, <1>8, <1>9 DEF Moves

\* The intake queues a classification where there was no job.
LEMMA AcceptMoves ==
    ASSUME TypeInv, Staged, NEW r \in Recordings, NEW content \in {"TEXT", "BLANK"},
           AcceptCompletedTranscript(r, content)
    PROVE  Moves
<1> DEFINE accepted == [NoBatch EXCEPT !.registration = "WAITING_CLASSIFICATION"]
<1>1. /\ ~WorkspaceDeleted
      /\ batch[r].registration = "NONE"
      /\ docs' = docs
      /\ batch \in [Recordings -> Batch] /\ job \in [Recordings -> [Slots -> Job]]
      /\ Classification \in Slots
  BY DEF AcceptCompletedTranscript, Accepted, TypeInv, TypeOK, Slots
<1>2. /\ accepted.registration = "WAITING_CLASSIFICATION" /\ accepted.topics = {}
      /\ RegisterTopics(accepted, {}).registration = "NO_CONTENT"
      /\ RegisterTopics(accepted, {}).topics = {}
  BY DEF RegisterTopics, NoBatch
<1>3. \/ batch' = [batch EXCEPT ![r] = RegisterTopics(accepted, {})] /\ job' = job
      \/ /\ batch' = [batch EXCEPT ![r] = accepted]
         /\ job' = [job EXCEPT ![r][Classification] = QueuedJob]
  BY DEF AcceptCompletedTranscript
<1> HIDE DEF accepted
<1>4. \A q \in Recordings : BatchMove(q)
  BY <1>1, <1>2, <1>3 DEF BatchMove
<1>5. ASSUME NEW q \in Recordings, NEW s \in Slots
      PROVE  /\ RowMove(s, job[q][s], job'[q][s], batch'[q].registration)
             /\ job'[q][s] = job[q][s] \/ job'[q][s] = QueuedJob
  <2>1. job[r][Classification].status = "ABSENT"
    BY <1>1 DEF Staged
  <2>2. CASE job'[q][s] = job[q][s]
    BY <2>2 DEF RowMove
  <2>3. CASE job'[q][s] # job[q][s]
    <3>1. /\ q = r /\ s = Classification /\ job'[q][s] = QueuedJob
          /\ batch'[r].registration = "WAITING_CLASSIFICATION"
      BY <1>1, <1>2, <1>3, <2>3
    <3> QED
      BY <1>1, <2>1, <3>1 DEF RowMove
  <2> QED
    BY <2>2, <2>3
<1>6. QueuedJob.status = "QUEUED"
  BY DEF QueuedJob
<1>7. \A q \in Recordings : DocumentMove(q)
  BY <1>1, <1>5, <1>6 DEF DocumentMove, Slots
<1> QED
  BY <1>4, <1>5, <1>7 DEF Moves

\* Every step of the intake, a member or a time limit is one of the moves.
LEMMA RecordingStepMoves ==
    ASSUME TypeInv, Staged, NEW r \in Recordings, RecordingStep(r)
    PROVE  Moves
<1>1. ASSUME NEW s \in Slots, RetryJob(r, s)
      PROVE  Moves
  <2> DEFINE j == job[r][s]
  <2>1. j \in Job
    BY DEF TypeInv, TypeOK
  <2>2. /\ ~WorkspaceDeleted /\ CanRetryByUser(j) /\ j.status \in JobRow
        /\ Transition(r, s, RetryByUser(j)) /\ docs' = docs
    BY <1>1 DEF RetryJob, WorkspaceDeleted, CanRetryByUser, JobRow
  <2> HIDE DEF j
  <2>3. RowMove(s, j, RetryByUser(j), batch[r].registration)
    BY <2>2 DEF RowMove
  <2> QED
    BY <2>1, <2>2, <2>3, JobOperations, TransitionMoves DEF JobRow, TypeInv, j
<1>2. ASSUME NEW s \in Slots, LimitReached(r, s)
      PROVE  Moves
  <2> DEFINE k == [job[r][s] EXCEPT !.due = TRUE]
  <2>1. job' = [job EXCEPT ![r][s] = k]
    BY <1>2, Zenon DEF LimitReached
  <2>2. /\ job[r][s].status \in {"QUEUED", "RUNNING", "FAILED"}
        /\ batch' = batch /\ docs' = docs
        /\ job \in [Recordings -> [Slots -> Job]]
    BY <1>2 DEF LimitReached, TypeInv, TypeOK
  <2>3. RowMove(s, job[r][s], k, batch[r].registration)
    BY <2>2 DEF RowMove
  <2>4. k.status = job[r][s].status
    BY <2>2 DEF Job
  <2> HIDE DEF k
  <2>5. /\ job'[r][s] = k
        /\ \A q \in Recordings, x \in Slots : q # r \/ x # s => job'[q][x] = job[q][x]
    BY <2>1, <2>2
  <2>6. ASSUME NEW q \in Recordings, NEW x \in Slots
        PROVE  RowMove(x, job[q][x], job'[q][x], batch'[q].registration)
    <3>1. CASE q = r /\ x = s
      BY <2>2, <2>3, <2>5, <3>1
    <3>2. CASE q # r \/ x # s
      BY <2>5, <3>2 DEF RowMove
    <3> QED
      BY <3>1, <3>2
  <2>7. \A q \in Recordings : BatchMove(q) /\ DocumentMove(q)
    BY <2>2, <2>4, <2>5 DEF BatchMove, DocumentMove, Slots
  <2> QED
    BY <2>6, <2>7 DEF Moves
<1>3. CASE CompleteAudioUpload(r)
  BY <1>3, NoMoves DEF CompleteAudioUpload
<1>4. CASE ScheduleAudioDeletion(r)
  BY <1>4, NoMoves DEF ScheduleAudioDeletion
<1> QED
  BY <1>1, <1>2, <1>3, <1>4, AcceptMoves DEF RecordingStep

\* Whatever one step does to a row, a batch or the documents is one of the moves.
LEMMA NextMoves ==
    ASSUME TypeInv, Staged, [Next]_vars
    PROVE  Moves
<1>1. ASSUME NEW c \in Cleaners, CleanerStep(c)
      PROVE  Moves
  <2>1. ASSUME NEW r \in Recordings, ScanRetention(c, r)
        PROVE  Moves
    BY <2>1, NoMoves DEF ScanRetention, stored
  <2>2. CASE CleanupDeferred(c)
    BY <2>2, NoMoves DEF CleanupDeferred, stored
  <2> QED
    BY <1>1, <2>1, <2>2, CleanupMoves DEF CleanerStep
<1>2. ASSUME NEW m \in Members, Join(m) \/ Leave(m)
      PROVE  Moves
  BY <1>2, NoMoves DEF Join, Leave
<1>3. CASE UNCHANGED vars
  BY <1>3, NoMoves DEF vars
<1> QED
  BY <1>1, <1>2, <1>3, WorkerStepMoves, RecovererStepMoves, RecordingStepMoves DEF Next

-----------------------------------------------------------------------------
(* The stages of a batch *)

\* A move never makes an ABSENT or QUEUED row of anything but its source.
LEMMA RowMoveStatus ==
    ASSUME NEW s \in Slots, NEW j \in Job, NEW k \in Job, NEW registration,
           RowMove(s, j, k, registration)
    PROVE  /\ j.status = "ABSENT" =>
                \/ k = j
                \/ /\ k = QueuedJob
                   /\ registration = IF s = Classification THEN "WAITING_CLASSIFICATION"
                                     ELSE "TOPICS_REGISTERED"
           /\ j.status = "DELETED" => k.status = "DELETED"
<1>1. DeletedJob.status = "DELETED"
  BY DEF DeletedJob, NoJob
<1> QED
  BY <1>1 DEF RowMove, IsReady, IsRetentionExpired, CanRetryByUser, Live

\* The jobs of a stage exist only once their batch has reached it
\* (DocumentGenerationIntakeService queues the classification job with the
\* batch, DocumentClassificationResultService the generation jobs with the
\* topics).
THEOREM StagedCorrect == Spec => []Staged
<1>1. Init => Staged
  BY DEF Init, Staged, NoJob, Slots
<1>2. TypeInv /\ TypeInv' /\ Staged /\ [Next]_vars => Staged'
  <2> SUFFICES ASSUME TypeInv, TypeInv', Staged, [Next]_vars PROVE Staged'
    OBVIOUS
  <2>1. Moves
    BY NextMoves
  <2>2. ASSUME NEW r \in Recordings, NEW s \in Slots
        PROVE  job[r][s].status = "ABSENT" =>
                  \/ job'[r][s] = job[r][s]
                  \/ batch'[r].registration = IF s = Classification THEN "WAITING_CLASSIFICATION"
                                              ELSE "TOPICS_REGISTERED"
    <3>1. job[r][s] \in Job /\ job'[r][s] \in Job
      BY DEF TypeInv, TypeOK
    <3>2. RowMove(s, job[r][s], job'[r][s], batch'[r].registration)
      BY <2>1 DEF Moves
    <3> QED
      BY <3>1, <3>2, RowMoveStatus
  <2>3. ASSUME NEW r \in Recordings, batch'[r].registration = "NONE", NEW s \in Slots
        PROVE  job'[r][s].status = "ABSENT"
    <3>1. batch[r].registration = "NONE"
      BY <2>1, <2>3 DEF Moves, BatchMove
    <3> QED
      BY <2>2, <2>3, <3>1 DEF Staged
  <2>4. ASSUME NEW r \in Recordings, NEW t \in Topics,
               batch'[r].registration \in {"WAITING_CLASSIFICATION", "NO_CONTENT"}
        PROVE  job'[r][t].status = "ABSENT"
    <3>1. batch[r].registration \in {"NONE", "WAITING_CLASSIFICATION", "NO_CONTENT"}
      BY <2>1, <2>4 DEF Moves, BatchMove
    <3>2. t \in Slots /\ t # Classification
      BY SlotsAssumption DEF Slots
    <3> QED
      BY <2>2, <2>4, <3>1, <3>2 DEF Staged
  <2> QED
    BY <2>3, <2>4 DEF Staged
<1> QED
  BY <1>1, <1>2, TypeCorrect, PTL DEF Spec, TypeInv

-----------------------------------------------------------------------------
(* Rows *)

\* The automatic retry is spent at most once in a job's life and a member's
\* retries at most MaxUserRetries times, whoever reports which failure when; the
\* attempt number counts both (the database CHECK of V27 and
\* DocumentGenerationJob.retryAutomatically, retryByUser).
THEOREM RetryBudgetCorrect == Spec => []RetryBudget
<1> DEFINE Budget(j) == Stored(j) => /\ j.attempt = 1 + j.user + j.automatic
                                     /\ j.user <= MaxUserRetries
                                     /\ j.automatic <= MaxAutomaticRetries
<1>1. Init => RetryBudget
  BY DEF Init, RetryBudget, NoJob, Stored
<1>2. ASSUME NEW s \in Slots, NEW j \in Job, NEW k, NEW registration, Budget(j),
             RowMove(s, j, k, registration)
      PROVE  Budget(k)
  <2>0. /\ j.attempt \in Nat /\ j.user \in Nat /\ j.automatic \in Nat
        /\ MaxUserRetries \in Nat /\ MaxAutomaticRetries \in Nat
    BY RetryAssumption DEF Job
  <2>1. CASE k = j
    BY <1>2, <2>1
  <2>2. CASE k = QueuedJob
    BY <2>0, <2>2 DEF QueuedJob
  <2>3. CASE /\ Stored(j)
             /\ \/ k \in {StartRunning(j), RecordSuccess(j), RecordFailure(j)}
                \/ k = [j EXCEPT !.due = TRUE]
    <3>1. k.attempt = j.attempt /\ k.user = j.user /\ k.automatic = j.automatic
      BY <2>3, JobEffects DEF SameNumbers
    <3> QED
      BY <1>2, <2>3, <3>1
  <2>4. CASE Stored(j) /\ CanRetryAutomatically(j) /\ k = RetryAutomatically(RecordFailure(j))
    <3>1. k.attempt = j.attempt + 1 /\ k.user = j.user /\ k.automatic = j.automatic + 1
      BY <2>4, JobEffects
    <3> QED
      BY <1>2, <2>0, <2>4, <3>1 DEF CanRetryAutomatically
  <2>5. CASE Stored(j) /\ CanRetryByUser(j) /\ k = RetryByUser(j)
    <3>1. k.attempt = j.attempt + 1 /\ k.user = j.user + 1 /\ k.automatic = j.automatic
      BY <2>5, JobEffects
    <3> QED
      BY <1>2, <2>0, <2>5, <3>1 DEF CanRetryByUser
  <2>6. j.status \in {"QUEUED", "RUNNING", "FAILED"} => Stored(j)
    BY DEF Stored
  <2>7. CASE k = DeletedJob
    BY <2>7 DEF DeletedJob, NoJob, Stored
  <2> HIDE DEF Budget
  <2> QED
    BY <1>2, <2>1, <2>2, <2>3, <2>4, <2>5, <2>6, <2>7
       DEF RowMove, IsReady, Live, CanRetryByUser
<1>3. TypeInv /\ Staged /\ RetryBudget /\ [Next]_vars => RetryBudget'
  <2> SUFFICES ASSUME TypeInv, Staged, RetryBudget, [Next]_vars,
                      NEW r \in Recordings, NEW s \in Slots
               PROVE  Budget(job'[r][s])
    BY DEF RetryBudget, Stored
  <2>1. RowMove(s, job[r][s], job'[r][s], batch'[r].registration)
    BY NextMoves DEF Moves
  <2>2. job[r][s] \in Job /\ Budget(job[r][s])
    BY DEF TypeInv, TypeOK, RetryBudget
  <2> QED
    BY <1>2, <2>1, <2>2
<1> QED
  BY <1>1, <1>3, TypeCorrect, StagedCorrect, PTL DEF Spec, TypeInv

\* The topics of a batch are frozen by the one classification that registered
\* them (DocumentGenerationBatch.registerTopics): neither a late classification
\* result nor a repeated intake changes them or the registration.
THEOREM TopicsFrozenCorrect == Spec => TopicsFrozen
<1>1. TypeInv /\ Staged /\ [Next]_vars =>
        \A r \in Recordings : batch[r].registration \in {"TOPICS_REGISTERED", "NO_CONTENT"} =>
          /\ batch'[r].registration = batch[r].registration
          /\ batch'[r].topics = batch[r].topics
  BY NextMoves DEF Moves, BatchMove
<1> QED
  BY <1>1, TypeCorrect, StagedCorrect, PTL DEF Spec, TopicsFrozen, TypeInv

\* A row that is not there, or not there any more, carries nothing.
Cleared ==
    \A r \in Recordings, s \in Slots :
        /\ job[r][s].status = "ABSENT" => job[r][s] = NoJob
        /\ job[r][s].status = "DELETED" => job[r][s] = DeletedJob

\* A deleted row is gone: it never comes back under the same slot.
LEMMA ClearedCorrect == Spec => []Cleared
<1> DEFINE Clear(j) == /\ j.status = "ABSENT" => j = NoJob
                       /\ j.status = "DELETED" => j = DeletedJob
<1>1. Init => Cleared
  BY DEF Init, Cleared, NoJob
<1>2. ASSUME NEW s \in Slots, NEW j \in Job, NEW k, NEW registration,
             RowMove(s, j, k, registration), Clear(j)
      PROVE  Clear(k)
  <2>1. CASE k = j
    BY <1>2, <2>1
  <2>2. CASE k \in {QueuedJob, StartRunning(j), RecordFailure(j), RecordSuccess(j)}
    BY <2>2, JobOperations
  <2>3. CASE k \in {RetryAutomatically(RecordFailure(j)), RetryByUser(j)}
    BY <2>3, JobEffects
  <2>4. CASE j.status \in {"QUEUED", "RUNNING", "FAILED"} /\ k = [j EXCEPT !.due = TRUE]
    BY <2>4, JobEffects
  <2>5. CASE k = DeletedJob
    BY <2>5 DEF DeletedJob, NoJob
  <2> HIDE DEF Clear
  <2> QED
    BY <1>2, <2>1, <2>2, <2>3, <2>4, <2>5 DEF RowMove
<1>3. TypeInv /\ Staged /\ Cleared /\ [Next]_vars => Cleared'
  <2> SUFFICES ASSUME TypeInv, Staged, Cleared, [Next]_vars,
                      NEW r \in Recordings, NEW s \in Slots
               PROVE  Clear(job'[r][s])
    BY DEF Cleared, DeletedJob, NoJob
  <2>1. job[r][s] \in Job /\ RowMove(s, job[r][s], job'[r][s], batch'[r].registration)
    BY NextMoves DEF Moves, TypeInv, TypeOK
  <2>2. Clear(job[r][s])
    BY DEF Cleared
  <2> HIDE DEF Clear
  <2> QED
    BY <1>2, <2>1, <2>2
<1> QED
  BY <1>1, <1>3, TypeCorrect, StagedCorrect, PTL DEF Spec, TypeInv

\* What a step may never do to a job, for any number of threads, sweeps and
\* retries: take a generation success back, bring a deleted row back, queue a
\* job again without the next attempt number, record a success after the lease
\* (executionDeadlineAt) ran out, or delete a row that is neither an expired
\* failure nor a classification whose input is given up.
THEOREM JobHistoryCorrect == Spec => JobHistory
<1> DEFINE Step(s, j, k) ==
       /\ j.status = "SUCCEEDED" /\ s # Classification => k = j
       /\ j.status = "DELETED" => k = j
       /\ j.status # "QUEUED" /\ k.status = "QUEUED" => k.attempt = j.attempt + 1
       /\ k.status = "SUCCEEDED" /\ j.status # "SUCCEEDED" => ~j.due
       /\ k.status = "DELETED" /\ j.status # "DELETED" =>
             (j.status = "FAILED" /\ j.due) \/ (j.status = "SUCCEEDED" /\ s = Classification)
<1>1. ASSUME NEW s \in Slots, NEW j \in Job, NEW k, NEW registration,
             RowMove(s, j, k, registration),
             j.status = "ABSENT" => j = NoJob, j.status = "DELETED" => j = DeletedJob
      PROVE  Step(s, j, k)
  <2>0. /\ RecordFailure(j) \in Job
        /\ DeletedJob.status = "DELETED"
        /\ NoJob.attempt = 0 /\ QueuedJob.attempt = 1
    BY JobOperations DEF DeletedJob, NoJob, QueuedJob
  <2>1. CASE k = j
    <3>1. k.status = j.status
      BY <2>1
    <3> QED
      BY <2>1, <3>1
  <2>2. CASE j.status = "ABSENT" /\ k = QueuedJob
    <3>1. k.status = "QUEUED" /\ k.attempt = j.attempt + 1
      <4>1. j.attempt = 0
        BY <1>1, <2>0, <2>2
      <4>2. QueuedJob.status = "QUEUED"
        BY JobOperations
      <4> QED
        BY <2>0, <2>2, <4>1, <4>2
    <3> QED
      BY <2>2, <3>1
  <2>3. CASE j.status = "QUEUED" /\ k = StartRunning(j)
    BY <2>3, JobOperations
  <2>4. CASE j.status \in Live /\ k = RecordFailure(j)
    BY <2>4, JobOperations DEF Live
  <2>5. CASE j.status = "RUNNING" /\ ~j.due /\ k = RecordSuccess(j)
    BY <2>5, JobOperations
  <2>6. CASE j.status = "RUNNING" /\ k = RetryAutomatically(RecordFailure(j))
    BY <2>6, JobEffects
  <2>7. CASE j.status = "FAILED" /\ k = RetryByUser(j)
    BY <2>7, JobEffects
  <2>8. CASE j.status \in {"QUEUED", "RUNNING", "FAILED"} /\ k = [j EXCEPT !.due = TRUE]
    BY <2>8, JobEffects
  <2>9. CASE /\ IsRetentionExpired(j) \/ j.status = "DELETED"
                \/ (j.status = "SUCCEEDED" /\ s = Classification)
             /\ k = DeletedJob
    BY <1>1, <2>0, <2>9 DEF IsRetentionExpired
  <2> HIDE DEF Step
  <2> QED
    BY <1>1, <2>1, <2>2, <2>3, <2>4, <2>5, <2>6, <2>7, <2>8, <2>9
       DEF RowMove, IsReady, CanRetryByUser
<1>2. TypeInv /\ Staged /\ Cleared /\ [Next]_vars =>
        \A r \in Recordings, s \in Slots : Step(s, job[r][s], job'[r][s])
  <2> SUFFICES ASSUME TypeInv, Staged, Cleared, [Next]_vars,
                      NEW r \in Recordings, NEW s \in Slots
               PROVE  Step(s, job[r][s], job'[r][s])
    OBVIOUS
  <2>1. job[r][s] \in Job /\ RowMove(s, job[r][s], job'[r][s], batch'[r].registration)
    BY NextMoves DEF Moves, TypeInv, TypeOK
  <2>2. /\ job[r][s].status = "ABSENT" => job[r][s] = NoJob
        /\ job[r][s].status = "DELETED" => job[r][s] = DeletedJob
    BY DEF Cleared
  <2> HIDE DEF Step
  <2> QED
    BY <1>1, <2>1, <2>2
<1> QED
  BY <1>2, TypeCorrect, StagedCorrect, ClearedCorrect, PTL DEF Spec, JobHistory, TypeInv

\* Whatever is settled stays, in the jobs and in the batch.
THEOREM SettledStaysCorrect == Spec => SettledStays
BY JobHistoryCorrect, TopicsFrozenCorrect DEF SettledStays

-----------------------------------------------------------------------------
(* Documents *)

\* A document exists exactly for a generation job that succeeded, and it was
\* written by the attempt the job stood at (DocumentGenerationResultService
\* saves the document and records the success of the current attempt in one
\* transaction; nothing else writes or deletes either).
THEOREM DocumentsCorrect == Spec => []DocumentsMatchJobs
<1> DEFINE Of(d, t) == {x \in d : x.topic = t}
           Match(d, t, j) == Of(d, t) = IF j.status = "SUCCEEDED"
                                        THEN {[topic |-> t, attempt |-> j.attempt]} ELSE {}
<1>0. \A t \in Topics : t \in Slots /\ t # Classification
  BY SlotsAssumption DEF Slots
<1>1. Init => DocumentsMatchJobs
  BY <1>0 DEF Init, DocumentsMatchJobs, NoJob
<1>2. TypeInv /\ Staged /\ DocumentsMatchJobs /\ [Next]_vars => DocumentsMatchJobs'
  <2> SUFFICES ASSUME TypeInv, Staged, DocumentsMatchJobs, [Next]_vars,
                      NEW r \in Recordings, NEW t \in Topics
               PROVE  Match(docs'[r], t, job'[r][t])
    BY DEF DocumentsMatchJobs
  <2>1. /\ Match(docs[r], t, job[r][t])
        /\ job[r][t] \in Job
        /\ RowMove(t, job[r][t], job'[r][t], batch'[r].registration)
        /\ DocumentMove(r)
    BY <1>0, NextMoves DEF DocumentsMatchJobs, Moves, TypeInv, TypeOK
  <2>2. CASE /\ docs'[r] = docs[r]
             /\ job'[r][t].status = "SUCCEEDED" => job'[r][t] = job[r][t]
    <3>1. CASE job'[r][t].status = "SUCCEEDED"
      BY <2>1, <2>2, <3>1
    <3>2. CASE job'[r][t].status # "SUCCEEDED"
      <4>1. job[r][t].status # "SUCCEEDED"
        BY <1>0, <2>1, <3>2 DEF RowMove, IsReady, Live, CanRetryByUser, IsRetentionExpired
      <4> QED
        BY <2>1, <2>2, <3>2, <4>1
    <3> QED
      BY <3>1, <3>2
  <2>3. ASSUME NEW u \in Topics,
               docs'[r] = docs[r] \cup {[topic |-> u, attempt |-> job[r][u].attempt]},
               job[r][u].status = "RUNNING",
               job'[r][u] = RecordSuccess(job[r][u]),
               \A x \in Topics \ {u} : job'[r][x] = job[r][x]
        PROVE  Match(docs'[r], t, job'[r][t])
    <3>1. CASE t = u
      <4>1. Of(docs[r], t) = {}
        <5>1. job[r][t].status # "SUCCEEDED"
          BY <2>3, <3>1
        <5> HIDE DEF Of
        <5> QED
          BY <2>1, <5>1
      <4>2. job'[r][t].status = "SUCCEEDED" /\ job'[r][t].attempt = job[r][t].attempt
        <5> DEFINE j == job[r][t]
        <5>1. j \in Job /\ job'[r][t] = RecordSuccess(j)
          BY <2>1, <2>3, <3>1
        <5> HIDE DEF j
        <5>2. RecordSuccess(j).status = "SUCCEEDED" /\ RecordSuccess(j).attempt = j.attempt
          BY <5>1, JobOperations, JobEffects DEF SameNumbers
        <5> QED
          BY <5>1, <5>2 DEF j
      <4> QED
        BY <2>3, <3>1, <4>1, <4>2
    <3>2. CASE t # u
      <4>1. Of(docs'[r], t) = Of(docs[r], t)
        BY <2>3, <3>2
      <4> QED
        BY <2>1, <2>3, <3>2, <4>1
    <3> QED
      BY <3>1, <3>2
  <2> QED
    BY <2>1, <2>2, <2>3 DEF DocumentMove
<1> QED
  BY <1>1, <1>2, TypeCorrect, StagedCorrect, PTL DEF Spec, TypeInv

-----------------------------------------------------------------------------
(* Threads *)

Executing(w) == worker[w].pc \in {"EXECUTING", "FAILING"}

\* A thread starts to execute only by a claim, and then it alone moves.
ThreadMove(w) ==
    \/ worker'[w].pc \notin {"EXECUTING", "FAILING"}
    \/ /\ Executing(w)
       /\ worker'[w].recording = worker[w].recording
       /\ worker'[w].slot = worker[w].slot
       /\ worker'[w].attempt = worker[w].attempt
    \/ /\ IsReady(job[worker[w].recording][worker[w].slot])
       /\ worker[w].recording \in Recordings /\ worker[w].slot \in Slots
       /\ worker'[w].recording = worker[w].recording
       /\ worker'[w].slot = worker[w].slot
       /\ worker'[w].attempt = job[worker[w].recording][worker[w].slot].attempt
       /\ job'[worker[w].recording][worker[w].slot] =
             StartRunning(job[worker[w].recording][worker[w].slot])
       /\ \A u \in Workers \ {w} : worker'[u] = worker[u]

\* A claim gives the thread the attempt number the row stands at.
LEMMA ClaimThreadMove ==
    ASSUME TypeInv, NEW w \in Workers, Claim(w)
    PROVE  ThreadMove(w)
<1> DEFINE r == worker[w].recording
           s == worker[w].slot
           j == job[r][s]
           e == [worker[w] EXCEPT !.pc = "EXECUTING", !.attempt = j.attempt]
<1>1. r \in Recordings /\ s \in Slots /\ j \in Job /\ worker \in [Workers -> Execution]
  BY DEF Claim, TypeInv, TypeOK, Placed
<1>2. CASE Release(w)
  BY <1>1, <1>2 DEF Release, Hold, Idle, ThreadMove
<1>3. CASE IsReady(j) /\ Transition(r, s, StartRunning(j)) /\ Hold(w, e)
  <2>1. job'[r][s] = StartRunning(j)
    <3>1. StartRunning(j) \in Job /\ StartRunning(j).status \in JobRow /\ j.status \in JobRow
      BY <1>1, <1>3, JobOperations DEF IsReady, JobRow
    <3> QED
      BY <1>1, <1>3, <3>1, TransitionType DEF TypeInv
  <2>2. e.recording = r /\ e.slot = s /\ e.attempt = j.attempt
    BY <1>1 DEF Execution
  <2>3. worker'[w] = e /\ \A u \in Workers \ {w} : worker'[u] = worker[u]
    <3> HIDE DEF e
    <3> QED
      BY <1>1, <1>3 DEF Hold
  <2> QED
    BY <1>1, <1>3, <2>1, <2>2, <2>3 DEF ThreadMove
<1> QED
  BY <1>2, <1>3 DEF Claim

\* Every step leaves a thread as it was, ends its execution or claims a row.
LEMMA ThreadMoves ==
    ASSUME TypeInv, [Next]_vars, NEW w \in Workers
    PROVE  ThreadMove(w)
<1>0. worker[w] \in Execution /\ worker \in [Workers -> Execution]
  BY DEF TypeInv, TypeOK
<1>1. CASE worker'[w] = worker[w]
  BY <1>1 DEF ThreadMove, Executing
<1>2. CASE WorkerStep(w)
  <2>1. CASE Release(w)
    BY <1>0, <2>1 DEF Release, Hold, Idle, ThreadMove
  <2>2. ASSUME NEW r \in Recordings, NEW s \in Slots, Dispatch(w, r, s)
        PROVE  ThreadMove(w)
    <3>1. worker'[w].pc = "DISPATCHED"
      BY <1>0, <2>2 DEF Dispatch, Hold, Idle
    <3> QED
      BY <3>1 DEF ThreadMove
  <2>3. ASSUME NEW cause \in Cause, ExecutionFails(w, cause)
        PROVE  ThreadMove(w)
    <3> DEFINE e == [worker[w] EXCEPT !.pc = "FAILING", !.cause = cause]
    <3>1. e.recording = worker[w].recording /\ e.slot = worker[w].slot /\ e.attempt = worker[w].attempt
      BY <1>0 DEF Execution
    <3>2. worker'[w] = e
      BY <1>0, <2>3 DEF ExecutionFails, Hold
    <3> QED
      BY <2>3, <3>1, <3>2 DEF ExecutionFails, ThreadMove, Executing
  <2>4. ASSUME Committed(w), worker[w].pc = "EXECUTING"
        PROVE  ThreadMove(w)
    <3> DEFINE e == [worker[w] EXCEPT !.pc = "FAILING", !.cause = "TRANSIENT"]
    <3>1. e.recording = worker[w].recording /\ e.slot = worker[w].slot /\ e.attempt = worker[w].attempt
      BY <1>0 DEF Execution
    <3>2. Release(w) \/ worker'[w] = e
      BY <1>0, <2>4 DEF Committed, Hold
    <3> QED
      BY <2>1, <2>4, <3>1, <3>2 DEF ThreadMove, Executing
  <2> QED
    BY <1>2, <2>1, <2>2, <2>3, <2>4, ClaimThreadMove
       DEF WorkerStep, CompleteExecution, CompleteClassification, CompleteGeneration,
           ResultAccepted, FailAttempt, Abandon
<1>3. ASSUME NEW u \in Workers, WorkerStep(u), u # w
      PROVE  worker'[w] = worker[w]
  BY <1>0, <1>3 DEF WorkerStep, Dispatch, Claim, CompleteExecution, CompleteClassification,
        CompleteGeneration, ExecutionFails, FailAttempt, Abandon, Committed, Release, Hold
<1>4. ASSUME NEW v \in Recoverers, RecovererStep(v)
      PROVE  worker'[w] = worker[w]
  BY <1>4 DEF RecovererStep, ScanExpired, ExpireAttempt, RecoveryDeferred
<1>5. ASSUME NEW c \in Cleaners, CleanerStep(c)
      PROVE  worker'[w] = worker[w]
  BY <1>5 DEF CleanerStep, ScanRetention, Cleanup, CleanupDeferred
<1>6. ASSUME NEW r \in Recordings, RecordingStep(r)
      PROVE  worker'[w] = worker[w]
  BY <1>6 DEF RecordingStep, AcceptCompletedTranscript, RetryJob, LimitReached,
        CompleteAudioUpload, ScheduleAudioDeletion
<1>7. CASE \/ \E m \in Members : Join(m) \/ Leave(m)
           \/ UNCHANGED vars
  BY <1>1, <1>7 DEF Join, Leave, vars
<1> QED
  BY <1>1, <1>2, <1>3, <1>4, <1>5, <1>6, <1>7 DEF Next

\* An attempt that a thread has begun is never current and queued again, so a
\* row says whether it is over.
LEMMA FencedRow ==
    ASSUME NEW s \in Slots, NEW j \in Job, NEW k, NEW registration, NEW attempt \in Nat,
           RowMove(s, j, k, registration),
           \/ j.status = "DELETED"
           \/ j.status \notin {"ABSENT", "DELETED"} /\ attempt < j.attempt
           \/ j.status \in {"RUNNING", "SUCCEEDED", "FAILED"} /\ attempt = j.attempt
    PROVE  \/ k.status = "DELETED"
           \/ k.status \notin {"ABSENT", "DELETED"} /\ attempt < k.attempt
           \/ k.status \in {"RUNNING", "SUCCEEDED", "FAILED"} /\ attempt = k.attempt
<1>0. j.attempt \in Nat
  BY DEF Job
<1>1. CASE k = j \/ k = DeletedJob
  BY <1>1 DEF DeletedJob, NoJob
<1>2. CASE j.status \in {"QUEUED", "RUNNING", "FAILED"} /\ k = [j EXCEPT !.due = TRUE]
  BY <1>2, JobEffects DEF SameNumbers
<1>3. CASE /\ j.status \in {"QUEUED", "RUNNING"}
           /\ k \in {StartRunning(j), RecordFailure(j), RecordSuccess(j)}
  <2>1. k.status \in {"RUNNING", "SUCCEEDED", "FAILED"} /\ k.attempt = j.attempt
    <3>1. /\ StartRunning(j).status = "RUNNING"
          /\ RecordFailure(j).status = "FAILED"
          /\ RecordSuccess(j).status = "SUCCEEDED"
      BY JobOperations
    <3>2. /\ StartRunning(j).attempt = j.attempt
          /\ RecordFailure(j).attempt = j.attempt
          /\ RecordSuccess(j).attempt = j.attempt
      BY JobEffects DEF SameNumbers
    <3> QED
      BY <1>3, <3>1, <3>2
  <2> QED
    BY <1>3, <2>1
<1>4. CASE /\ j.status \in {"RUNNING", "FAILED"}
           /\ k \in {RetryAutomatically(RecordFailure(j)), RetryByUser(j)}
  <2>1. k.status = "QUEUED" /\ k.attempt = j.attempt + 1
    BY <1>4, JobEffects
  <2> QED
    BY <1>0, <1>4, <2>1
<1> QED
  BY <1>1, <1>2, <1>3, <1>4 DEF RowMove, IsReady, Live, CanRetryByUser

\* However many schedulers offer the same job, no two threads execute the same
\* attempt of it (DocumentGenerationClaimService takes only a QUEUED job, and a
\* job that is queued again has a new attempt number).
THEOREM SingleExecutionCorrect == Spec => [](SingleExecution /\ Fenced)
<1>1. Init => SingleExecution /\ Fenced
  BY DEF Init, SingleExecution, Fenced, Idle
<1>2. TypeInv /\ TypeInv' /\ Staged /\ Fenced /\ [Next]_vars => Fenced'
  <2> SUFFICES ASSUME TypeInv, TypeInv', Staged, Fenced, [Next]_vars,
                      NEW w \in Workers, worker'[w].pc \in {"EXECUTING", "FAILING"}
               PROVE  LET k == job'[worker'[w].recording][worker'[w].slot]
                      IN  \/ k.status = "DELETED"
                          \/ k.status \notin {"ABSENT", "DELETED"} /\ worker'[w].attempt < k.attempt
                          \/ k.status \in {"RUNNING", "SUCCEEDED", "FAILED"}
                             /\ worker'[w].attempt = k.attempt
    BY DEF Fenced
  <2> DEFINE r == worker[w].recording
             s == worker[w].slot
             j == job[r][s]
             k == job'[r][s]
  <2>1. ThreadMove(w)
    BY ThreadMoves
  <2>2. /\ worker'[w].recording = r /\ worker'[w].slot = s
        /\ r \in Recordings /\ s \in Slots
    BY <2>1 DEF ThreadMove, Executing, TypeInv, Placed
  <2>3. j \in Job /\ worker[w].attempt \in Nat /\ RowMove(s, j, k, batch'[r].registration)
    BY <2>2, NextMoves DEF Moves, TypeInv, TypeOK, Execution
  <2>4. CASE Executing(w) /\ worker'[w].attempt = worker[w].attempt
    <3>1. \/ j.status = "DELETED"
          \/ j.status \notin {"ABSENT", "DELETED"} /\ worker[w].attempt < j.attempt
          \/ j.status \in {"RUNNING", "SUCCEEDED", "FAILED"} /\ worker[w].attempt = j.attempt
      BY <2>4 DEF Executing, Fenced
    <3> HIDE DEF j, k, r, s
    <3>2. \/ k.status = "DELETED"
          \/ k.status \notin {"ABSENT", "DELETED"} /\ worker[w].attempt < k.attempt
          \/ k.status \in {"RUNNING", "SUCCEEDED", "FAILED"} /\ worker[w].attempt = k.attempt
      BY <2>2, <2>3, <3>1, FencedRow
    <3> QED
      BY <2>2, <2>4, <3>2 DEF k
  <2>5. CASE k = StartRunning(j) /\ worker'[w].attempt = j.attempt
    <3> HIDE DEF j
    <3>1. k.status = "RUNNING" /\ k.attempt = j.attempt
      <4>1. StartRunning(j).status = "RUNNING"
        BY <2>3, JobOperations
      <4>2. StartRunning(j).attempt = j.attempt
        BY <2>3, JobEffects DEF SameNumbers
      <4> QED
        BY <2>5, <4>1, <4>2
    <3> QED
      BY <2>2, <2>5, <3>1
  <2> QED
    BY <2>1, <2>4, <2>5 DEF ThreadMove
<1>3. TypeInv /\ Staged /\ Fenced /\ SingleExecution /\ [Next]_vars => SingleExecution'
  <2> SUFFICES ASSUME TypeInv, Fenced, SingleExecution, [Next]_vars,
                      NEW w1 \in Workers, NEW w2 \in Workers, w1 # w2,
                      worker'[w1].pc \in {"EXECUTING", "FAILING"},
                      worker'[w2].pc \in {"EXECUTING", "FAILING"},
                      worker'[w1].recording = worker'[w2].recording,
                      worker'[w1].slot = worker'[w2].slot,
                      worker'[w1].attempt = worker'[w2].attempt
               PROVE  FALSE
    BY DEF SingleExecution
  <2>1. ThreadMove(w1) /\ ThreadMove(w2)
    BY ThreadMoves
  <2>2. ASSUME NEW u \in Workers, NEW x \in Workers, u # x,
               IsReady(job[worker[u].recording][worker[u].slot]),
               worker'[u].recording = worker[u].recording,
               worker'[u].slot = worker[u].slot,
               worker'[u].attempt = job[worker[u].recording][worker[u].slot].attempt,
               worker'[x] = worker[x],
               worker[x].pc \in {"EXECUTING", "FAILING"},
               worker'[x].recording = worker'[u].recording,
               worker'[x].slot = worker'[u].slot,
               worker'[x].attempt = worker'[u].attempt
        PROVE  FALSE
    <3> DEFINE j == job[worker[x].recording][worker[x].slot]
    <3>1. j.status = "QUEUED" /\ worker[x].attempt = j.attempt
      BY <2>2 DEF IsReady
    <3>2. \/ j.status = "DELETED"
          \/ j.status \notin {"ABSENT", "DELETED"} /\ worker[x].attempt < j.attempt
          \/ j.status \in {"RUNNING", "SUCCEEDED", "FAILED"} /\ worker[x].attempt = j.attempt
      BY <2>2 DEF Fenced
    <3>3. j.attempt \in Nat
      BY <2>2, <3>1 DEF TypeInv, TypeOK, Placed, Job
    <3> QED
      BY <3>1, <3>2, <3>3
  <2>3. CASE Executing(w1) /\ Executing(w2) /\ worker'[w1].recording = worker[w1].recording
             /\ worker'[w1].slot = worker[w1].slot /\ worker'[w1].attempt = worker[w1].attempt
             /\ worker'[w2].recording = worker[w2].recording
             /\ worker'[w2].slot = worker[w2].slot /\ worker'[w2].attempt = worker[w2].attempt
    BY <2>3 DEF SingleExecution, Executing
  <2> QED
    BY <2>1, <2>2, <2>3 DEF ThreadMove, Executing
<1> QED
  BY <1>1, <1>2, <1>3, TypeCorrect, StagedCorrect, PTL DEF Spec, TypeInv

\* Once the last member has left, nothing starts any more: no document, no new
\* topic, no job queued again or claimed, although jobs are still ended and
\* deleted (every transaction looks at the locked workspace row).
THEOREM DeletedWorkspaceIsQuietCorrect == Spec => DeletedWorkspaceIsQuiet
<1> DEFINE Quiet == /\ docs' = docs /\ members' = {}
                    /\ \A r \in Recordings :
                          /\ batch'[r].topics = batch[r].topics
                          /\ \A s \in Slots :
                                job'[r][s].status \in Live => job'[r][s].status = job[r][s].status
<1>1. TypeInv /\ TypeInv' /\ Staged /\ [Next]_vars => (WorkspaceDeleted => Quiet)
  <2> SUFFICES ASSUME TypeInv, TypeInv', Staged, [Next]_vars, WorkspaceDeleted PROVE Quiet
    OBVIOUS
  <2>0. WorkspaceDeleted
    OBVIOUS
  <2>1. Moves
    BY NextMoves
  <2>2. docs' = docs
    <3>1. \A r \in Recordings : docs'[r] = docs[r]
      BY <2>1 DEF Moves, DocumentMove
    <3> QED
      BY <3>1 DEF TypeInv, TypeOK
  <2>3. members' = {}
    <3>1. members' = members \/ (\E m \in Members : Join(m) \/ Leave(m))
      BY DEF Next, vars, stored, WorkerStep, Dispatch, Claim, CompleteExecution,
         CompleteClassification, CompleteGeneration, ExecutionFails, FailAttempt, Abandon,
         RecovererStep, ScanExpired, ExpireAttempt, RecoveryDeferred, CleanerStep,
         ScanRetention, Cleanup, CleanupDeferred, RecordingStep, AcceptCompletedTranscript,
         RetryJob, LimitReached, CompleteAudioUpload, ScheduleAudioDeletion
    <3> QED
      BY <3>1 DEF Join, Leave, WorkspaceDeleted
  <2>4. ASSUME NEW r \in Recordings
        PROVE  batch'[r].topics = batch[r].topics
    BY <2>1 DEF Moves, BatchMove
  <2>5. ASSUME NEW r \in Recordings, NEW s \in Slots, job'[r][s].status \in Live
        PROVE  job'[r][s].status = job[r][s].status
    <3> DEFINE j == job[r][s]
               k == job'[r][s]
    <3>1. /\ j \in Job
          /\ k.status \in Live
          /\ RowMove(s, j, k, batch'[r].registration)
      BY <2>1, <2>5 DEF Moves, TypeInv, TypeOK
    <3> HIDE DEF j, k
    <3>2. DeletedJob.status \notin Live /\ RecordFailure(j).status \notin Live
      BY <3>1, JobOperations DEF DeletedJob, NoJob, Live
    <3>3. k = j \/ k = [j EXCEPT !.due = TRUE]
      BY <2>0, <3>1, <3>2 DEF RowMove
    <3> QED
      BY <3>1, <3>3, JobEffects DEF j, k
  <2> QED
    BY <2>2, <2>3, <2>4, <2>5
<1> QED
  BY <1>1, TypeCorrect, StagedCorrect, PTL DEF Spec, DeletedWorkspaceIsQuiet, TypeInv

-----------------------------------------------------------------------------
(* The books of one recording: its batch, its jobs and its transcript *)

CountIn(topics, rows, statuses) == Cardinality({t \in topics : rows[t].status \in statuses})

\* The counters of b are those of the rows of its topics.
Counted(b, rows) ==
    /\ b.queued = CountIn(b.topics, rows, {"QUEUED"})
    /\ b.running = CountIn(b.topics, rows, {"RUNNING"})
    /\ b.succeeded = CountIn(b.topics, rows, {"SUCCEEDED"})
    /\ b.failed = CountIn(b.topics, rows, {"FAILED", "DELETED"})

\* A batch waits for its classification, and reports that job's status.
Waiting(b, rows) ==
    LET c == rows[Classification].status
    IN  /\ b.topics = {}
        /\ c \in {"QUEUED", "RUNNING", "FAILED", "DELETED"}
        /\ b.status = IF c = "DELETED" THEN "FAILED" ELSE c
        /\ b.finished <=> c \notin Live

\* A batch has topics, one job for each, and reports what its counters say.
Registered(b, rows) ==
    /\ rows[Classification].status \in {"SUCCEEDED", "DELETED"}
    /\ b.topics # {}
    /\ \A t \in Topics : rows[t].status = "ABSENT" <=> t \notin b.topics
    /\ b = Refresh(b)

\* A batch ended without topics.
Contentless(b, rows) ==
    /\ rows[Classification].status \in {"ABSENT", "SUCCEEDED", "DELETED"}
    /\ b.topics = {}
    /\ b.status = "NO_CONTENT"
    /\ b.finished

Booked(b, rows, input) ==
    /\ Counted(b, rows)
    /\ b.registration = "NONE" => b = NoBatch /\ input = "NONE"
    /\ b.registration = "WAITING_CLASSIFICATION" => Waiting(b, rows)
    /\ b.registration = "TOPICS_REGISTERED" => Registered(b, rows)
    /\ b.registration = "NO_CONTENT" => Contentless(b, rows)
    /\ (\E s \in Slots : Stored(rows[s])) => input = "TEXT" /\ ~b.released

AllBooked == \A r \in Recordings : Booked(batch[r], job[r], transcript[r])

-----------------------------------------------------------------------------
(* Counting *)

\* A count depends on the statuses alone.
LEMMA CountSame ==
    ASSUME NEW topics, NEW rows, NEW rows2, NEW statuses,
           \A t \in topics : rows2[t].status \in statuses <=> rows[t].status \in statuses
    PROVE  CountIn(topics, rows2, statuses) = CountIn(topics, rows, statuses)
<1>1. {t \in topics : rows2[t].status \in statuses} = {t \in topics : rows[t].status \in statuses}
  OBVIOUS
<1> QED
  BY <1>1 DEF CountIn

\* Counts are natural numbers, and zero exactly when there is nothing to count.
LEMMA CountZero ==
    ASSUME NEW topics \in SUBSET Topics, NEW rows, NEW statuses
    PROVE  /\ CountIn(topics, rows, statuses) \in Nat
           /\ CountIn(topics, rows, statuses) = 0 <=> \A t \in topics : rows[t].status \notin statuses
<1> DEFINE set == {t \in topics : rows[t].status \in statuses}
<1>1. set \in SUBSET Topics
  OBVIOUS
<1>2. IsFiniteSet(set)
  BY <1>1, TopicsAssumption, FS_Subset
<1> QED
  BY <1>2, FS_CardinalityType, FS_EmptySet DEF CountIn

\* What the count of one status, or of statuses no row leaves, becomes when one
\* row goes from one status to another.
LEMMA CountMove ==
    ASSUME NEW topics \in SUBSET Topics, NEW rows, NEW rows2, NEW statuses, NEW s \in topics,
           NEW status \in JobRow, statuses \cap JobRow = {status},
           rows[s].status \in JobRow, rows2[s].status \in JobRow,
           \A t \in topics \ {s} : rows2[t].status = rows[t].status
    PROVE  CountIn(topics, rows2, statuses) =
              CountIn(topics, rows, statuses)
                + Is(status, rows2[s].status) - Is(status, rows[s].status)
<1> DEFINE p == rows[s].status
           n == rows2[s].status
           set == {t \in topics : rows[t].status \in statuses}
           set2 == {t \in topics : rows2[t].status \in statuses}
<1>1. set \in SUBSET Topics /\ (p \in statuses <=> s \in set) /\ (n \in statuses <=> s \in set2)
  OBVIOUS
<1>2. IsFiniteSet(set) /\ Cardinality(set) \in Nat
  BY <1>1, TopicsAssumption, FS_Subset, FS_CardinalityType
<1>3. (p \in statuses <=> p = status) /\ (n \in statuses <=> n = status)
  OBVIOUS
<1>4. set \ {s} = set2 \ {s}
  OBVIOUS
<1> HIDE DEF set, set2
<1>5. Cardinality(set2) = Cardinality(set) + Is(status, n) - Is(status, p)
  <2>1. CASE s \in set /\ s \notin set2
    <3>1. set2 = set \ {s}
      BY <1>4, <2>1
    <3>2. Cardinality(set2) = Cardinality(set) - 1
      BY <1>2, <2>1, <3>1, FS_RemoveElement
    <3> QED
      BY <1>1, <1>2, <1>3, <2>1, <3>2 DEF Is
  <2>2. CASE s \notin set /\ s \in set2
    <3>1. set2 = set \cup {s}
      BY <1>4, <2>2
    <3>2. Cardinality(set2) = Cardinality(set) + 1
      BY <1>2, <2>2, <3>1, FS_AddElement
    <3> QED
      BY <1>1, <1>2, <1>3, <2>2, <3>2 DEF Is
  <2>3. CASE s \in set <=> s \in set2
    <3>1. set2 = set
      BY <1>4, <2>3
    <3> QED
      BY <1>1, <1>2, <1>3, <2>3, <3>1 DEF Is
  <2> QED
    BY <2>1, <2>2, <2>3
<1> QED
  BY <1>5 DEF CountIn, set, set2

\* Nothing is counted in a batch without topics.
LEMMA CountEmpty ==
    ASSUME NEW rows
    PROVE  \A statuses : CountIn({}, rows, statuses) = 0
BY FS_EmptySet DEF CountIn

\* changeCount keeps the counters true when one job moves from one status to
\* another (DocumentGenerationBatch.recordJobTransition).
LEMMA MoveCountCounts ==
    ASSUME NEW b \in Batch, NEW rows, NEW rows2, NEW s \in b.topics,
           Counted(b, rows),
           rows[s].status \in JobRow, rows2[s].status \in JobRow,
           \A t \in b.topics \ {s} : rows2[t].status = rows[t].status
    PROVE  Counted(MoveCount(b, rows[s].status, rows2[s].status), rows2)
<1> DEFINE p == rows[s].status
           n == rows2[s].status
           c == MoveCount(b, p, n)
<1>1. b.topics \in SUBSET Topics /\ p \in JobRow /\ n \in JobRow
  BY DEF Batch
<1>2. /\ c.topics = b.topics
      /\ c.queued = b.queued + Is("QUEUED", n) - Is("QUEUED", p)
      /\ c.running = b.running + Is("RUNNING", n) - Is("RUNNING", p)
      /\ c.succeeded = b.succeeded + Is("SUCCEEDED", n) - Is("SUCCEEDED", p)
      /\ c.failed = b.failed + Is("FAILED", n) - Is("FAILED", p)
  BY DEF MoveCount, Batch
<1> HIDE DEF c
<1>3. ASSUME NEW statuses, NEW status \in JobRow,
             statuses \cap JobRow = {status}
      PROVE  CountIn(b.topics, rows2, statuses) =
                CountIn(b.topics, rows, statuses) + Is(status, n) - Is(status, p)
  BY <1>1, <1>3, CountMove
<1>4. /\ {"QUEUED"} \cap JobRow = {"QUEUED"} /\ {"RUNNING"} \cap JobRow = {"RUNNING"}
      /\ {"SUCCEEDED"} \cap JobRow = {"SUCCEEDED"} /\ {"FAILED", "DELETED"} \cap JobRow = {"FAILED"}
      /\ JobRow = {"QUEUED", "RUNNING", "SUCCEEDED", "FAILED"}
  BY DEF JobRow
<1>5. /\ CountIn(b.topics, rows2, {"QUEUED"}) = b.queued + Is("QUEUED", n) - Is("QUEUED", p)
      /\ CountIn(b.topics, rows2, {"RUNNING"}) = b.running + Is("RUNNING", n) - Is("RUNNING", p)
      /\ CountIn(b.topics, rows2, {"SUCCEEDED"}) = b.succeeded + Is("SUCCEEDED", n) - Is("SUCCEEDED", p)
      /\ CountIn(b.topics, rows2, {"FAILED", "DELETED"}) = b.failed + Is("FAILED", n) - Is("FAILED", p)
  BY <1>3, <1>4 DEF Counted
<1> QED
  BY <1>2, <1>5 DEF Counted, c

-----------------------------------------------------------------------------
(* What one step may do to a batch, its jobs and its transcript *)

SameStatuses(rows, rows2) == \A s \in Slots : rows2[s].status = rows[s].status

\* One job goes from one status to another, and its batch with it.
TransitMove(b, rows, b2, rows2) ==
    \E s \in Slots :
        /\ rows[s].status \in {"QUEUED", "RUNNING", "FAILED"}
        /\ rows2[s].status \in JobRow
        /\ rows2[s].status = "SUCCEEDED" => s # Classification
        /\ \A x \in Slots \ {s} : rows2[x].status = rows[x].status
        /\ TransitionAccepted(b, s, rows[s].status)
        /\ b2 = RecordJobTransition(b, s, rows[s].status, rows2[s].status)

\* The intake finds no batch, and stores one with its transcript.
AcceptMove(b, rows, input, b2, rows2, input2) ==
    LET accepted == [NoBatch EXCEPT !.registration = "WAITING_CLASSIFICATION"]
    IN  /\ b.registration = "NONE"
        /\ input2 \in {"TEXT", "BLANK"}
        /\ IF input2 = "BLANK"
           THEN b2 = RegisterTopics(accepted, {}) /\ rows2 = rows
           ELSE /\ b2 = accepted
                /\ rows2[Classification].status = "QUEUED"
                /\ \A t \in Topics : rows2[t].status = rows[t].status

\* A classification ends, and the topics' jobs are queued.
ClassifyMove(b, rows, b2, rows2) ==
    \E topics \in SUBSET Topics :
        /\ b.registration = "WAITING_CLASSIFICATION"
        /\ rows[Classification].status = "RUNNING"
        /\ b2 = RegisterTopics(b, topics)
        /\ rows2[Classification].status = "SUCCEEDED"
        /\ \A t \in Topics : rows2[t].status = IF t \in topics THEN "QUEUED" ELSE rows[t].status

\* Expired failures are deleted.
ExpireMove(rows, rows2) ==
    \A s \in Slots : \/ rows2[s].status = rows[s].status
                     \/ rows[s].status = "FAILED" /\ rows2[s].status = "DELETED"

\* The input and whatever refers to it are deleted.
ReleaseMove(b, rows, input, b2, rows2, input2) ==
    /\ InputReleasable(b)
    /\ b2 = [b EXCEPT !.released = TRUE]
    /\ \A s \in Slots : rows2[s].status = IF rows[s].status = "ABSENT" THEN "ABSENT" ELSE "DELETED"

BookMove(b, rows, input, b2, rows2, input2) ==
    \/ b2 = b /\ SameStatuses(rows, rows2) /\ input2 = input
    \/ TransitMove(b, rows, b2, rows2) /\ input2 = input
    \/ AcceptMove(b, rows, input, b2, rows2, input2)
    \/ ClassifyMove(b, rows, b2, rows2) /\ input2 = input
    \/ b2 = b /\ ExpireMove(rows, rows2) /\ input2 = input
    \/ ReleaseMove(b, rows, input, b2, rows2, input2)

-----------------------------------------------------------------------------
(* Each of these moves keeps a recording booked *)

\* A batch and its rows as the tables hold them, with no topic's job before its stage.
Rows(b, rows) ==
    /\ b \in Batch
    /\ rows \in [Slots -> Job]
    /\ b.registration = "NONE" => \A s \in Slots : rows[s].status = "ABSENT"
    /\ b.registration \in {"WAITING_CLASSIFICATION", "NO_CONTENT"} =>
          \A t \in Topics : rows[t].status = "ABSENT"

\* Nothing is told from rows but their statuses.
LEMMA SameBooked ==
    ASSUME NEW b, NEW rows, NEW rows2, NEW input, b \in Batch,
           Booked(b, rows, input), SameStatuses(rows, rows2)
    PROVE  Booked(b, rows2, input)
<1>1. \A t \in b.topics : rows2[t].status = rows[t].status
  BY DEF SameStatuses, Slots, Batch
<1>2. \A statuses : CountIn(b.topics, rows2, statuses) = CountIn(b.topics, rows, statuses)
  BY <1>1, CountSame
<1>3. Counted(b, rows2)
  BY <1>2 DEF Counted, Booked
<1>4. Waiting(b, rows) => Waiting(b, rows2)
  BY DEF Waiting, SameStatuses, Slots
<1>5. Registered(b, rows) => Registered(b, rows2)
  BY DEF Registered, SameStatuses, Slots
<1>6. Contentless(b, rows) => Contentless(b, rows2)
  BY DEF Contentless, SameStatuses, Slots
<1>7. (\E s \in Slots : Stored(rows2[s])) => \E s \in Slots : Stored(rows[s])
  BY DEF Stored, SameStatuses
<1> QED
  BY <1>3, <1>4, <1>5, <1>6, <1>7 DEF Booked

\* A job's transition and its batch's record of it
\* (DocumentGenerationBatch.recordJobTransition).
LEMMA TransitBooked ==
    ASSUME NEW b, NEW rows, NEW b2, NEW rows2, NEW input, Rows(b, rows),
           Booked(b, rows, input), TransitMove(b, rows, b2, rows2)
    PROVE  Booked(b2, rows2, input)
<1>1. PICK s \in Slots :
        /\ rows[s].status \in {"QUEUED", "RUNNING", "FAILED"}
        /\ rows2[s].status \in JobRow
        /\ rows2[s].status = "SUCCEEDED" => s # Classification
        /\ \A x \in Slots \ {s} : rows2[x].status = rows[x].status
        /\ TransitionAccepted(b, s, rows[s].status)
        /\ b2 = RecordJobTransition(b, s, rows[s].status, rows2[s].status)
  BY DEF TransitMove
<1>2. rows[s].status \in JobRow /\ b \in Batch
  BY <1>1 DEF JobRow, Rows
<1>3. /\ b2 \in Batch /\ b2.registration = b.registration
      /\ b2.topics = b.topics /\ b2.released = b.released
  BY <1>1, <1>2, RecordJobTransitionType
<1>4. Stored(rows[s]) /\ input = "TEXT" /\ ~b2.released
  BY <1>1, <1>3 DEF Booked, Stored
<1>5. CASE s = Classification
  <2>1. b.registration = "WAITING_CLASSIFICATION"
    BY <1>1, <1>2, <1>5 DEF Booked, Registered, Contentless, Batch, RegistrationState, Rows
  <2>2. /\ b2.status = rows2[s].status
        /\ b2.finished <=> rows2[s].status \notin Live
        /\ b2.queued = b.queued /\ b2.running = b.running
        /\ b2.succeeded = b.succeeded /\ b2.failed = b.failed
    BY <1>1, <1>2, <1>5, <2>1 DEF RecordJobTransition, Batch
  <2>3. b.topics = {}
    BY <2>1 DEF Booked, Waiting
  <2>4. Counted(b2, rows2)
    BY <1>3, <2>2, <2>3, CountEmpty DEF Booked, Counted
  <2>5. Waiting(b2, rows2)
    BY <1>1, <1>3, <1>5, <2>2, <2>3 DEF Waiting, JobRow
  <2> QED
    BY <1>3, <1>4, <2>1, <2>4, <2>5 DEF Booked
<1>6. CASE s # Classification
  <2>1. b.registration = "TOPICS_REGISTERED" /\ CountOf(b, rows[s].status) > 0
    BY <1>1, <1>6 DEF TransitionAccepted
  <2>2. Registered(b, rows) /\ Counted(b, rows)
    BY <2>1 DEF Booked
  <2>3. s \in b.topics
    BY <1>1, <1>6, <2>2 DEF Registered, Slots
  <2> DEFINE c == MoveCount(b, rows[s].status, rows2[s].status)
  <2>4. c \in Batch
    BY <1>1, <1>2, <2>1, MoveCountType
  <2>5. b2 = Refresh(c)
    BY <1>1, <1>6 DEF RecordJobTransition
  <2>6. \A t \in b.topics \ {s} : rows2[t].status = rows[t].status
    BY <1>1, <1>2 DEF Slots, Batch
  <2>7. Counted(c, rows2)
    BY <1>1, <1>2, <2>2, <2>3, <2>6, MoveCountCounts
  <2> HIDE DEF c
  <2>8. /\ b2.queued = c.queued /\ b2.running = c.running
        /\ b2.succeeded = c.succeeded /\ b2.failed = c.failed
        /\ b2.topics = c.topics
        /\ Refresh(b2) = b2
    BY <2>4, <2>5 DEF Refresh, Batch
  <2>9. Counted(b2, rows2)
    BY <2>7, <2>8 DEF Counted
  <2>10. rows2[s].status # "ABSENT" /\ rows2[Classification].status = rows[Classification].status
    BY <1>1, <1>6 DEF JobRow, Slots
  <2>11. \A t \in Topics : rows2[t].status = "ABSENT" <=> t \notin b2.topics
    <3> SUFFICES ASSUME NEW t \in Topics
                 PROVE  rows2[t].status = "ABSENT" <=> t \notin b2.topics
      OBVIOUS
    <3>1. CASE t = s
      BY <1>3, <2>3, <2>10, <3>1
    <3>2. CASE t # s
      BY <1>1, <1>3, <2>2, <3>2 DEF Registered, Slots
    <3> QED
      BY <3>1, <3>2
  <2>12. Registered(b2, rows2)
    BY <1>3, <2>2, <2>8, <2>10, <2>11 DEF Registered
  <2> QED
    BY <1>3, <1>4, <2>1, <2>9, <2>12 DEF Booked
<1> QED
  BY <1>5, <1>6

\* The intake's batch and its classification job
\* (DocumentGenerationIntakeService.acceptCompletedTranscript).
LEMMA AcceptBooked ==
    ASSUME NEW b, NEW rows, NEW input, NEW b2, NEW rows2, NEW input2, Rows(b, rows),
           Booked(b, rows, input), AcceptMove(b, rows, input, b2, rows2, input2)
    PROVE  Booked(b2, rows2, input2)
<1> DEFINE accepted == [NoBatch EXCEPT !.registration = "WAITING_CLASSIFICATION"]
<1>1. \A s \in Slots : rows[s].status = "ABSENT"
  BY DEF AcceptMove, Rows
<1>2. Classification \in Slots /\ Topics \subseteq Slots
  BY DEF Slots
<1>3. \A statuses : CountIn({}, rows2, statuses) = 0
  BY CountEmpty
<1>4. CASE input2 = "BLANK"
  <2>1. /\ b2.registration = "NO_CONTENT" /\ b2.status = "NO_CONTENT" /\ b2.finished
        /\ b2.topics = {} /\ b2.queued = 0 /\ b2.running = 0 /\ b2.succeeded = 0 /\ b2.failed = 0
        /\ rows2 = rows
    BY <1>4 DEF AcceptMove, RegisterTopics, NoBatch
  <2>2. Counted(b2, rows2)
    BY <1>3, <2>1 DEF Counted
  <2>3. Contentless(b2, rows2)
    BY <1>1, <1>2, <2>1 DEF Contentless
  <2>4. \A s \in Slots : ~Stored(rows2[s])
    BY <1>1, <2>1 DEF Stored
  <2> QED
    BY <2>1, <2>2, <2>3, <2>4 DEF Booked
<1>5. CASE input2 # "BLANK"
  <2>1. /\ b2.registration = "WAITING_CLASSIFICATION" /\ b2.status = "QUEUED" /\ ~b2.finished
        /\ ~b2.released
        /\ b2.topics = {} /\ b2.queued = 0 /\ b2.running = 0 /\ b2.succeeded = 0 /\ b2.failed = 0
        /\ rows2[Classification].status = "QUEUED"
        /\ input2 = "TEXT"
    BY <1>5 DEF AcceptMove, NoBatch
  <2>2. Counted(b2, rows2)
    BY <1>3, <2>1 DEF Counted
  <2>3. Waiting(b2, rows2)
    BY <2>1 DEF Waiting, Live
  <2> QED
    BY <2>1, <2>2, <2>3 DEF Booked
<1> QED
  BY <1>4, <1>5

\* A classification's answer: one queued job for each topic, or none at all
\* (DocumentClassificationResultService, DocumentGenerationBatch.registerTopics).
LEMMA ClassifyBooked ==
    ASSUME NEW b, NEW rows, NEW input, NEW b2, NEW rows2, Rows(b, rows),
           Booked(b, rows, input), ClassifyMove(b, rows, b2, rows2)
    PROVE  Booked(b2, rows2, input)
<1>1. PICK topics \in SUBSET Topics :
        /\ b.registration = "WAITING_CLASSIFICATION"
        /\ rows[Classification].status = "RUNNING"
        /\ b2 = RegisterTopics(b, topics)
        /\ rows2[Classification].status = "SUCCEEDED"
        /\ \A t \in Topics : rows2[t].status = IF t \in topics THEN "QUEUED" ELSE rows[t].status
  BY DEF ClassifyMove
<1>2. /\ b \in Batch /\ Classification \in Slots
      /\ \A t \in Topics : rows[t].status = "ABSENT"
  BY <1>1 DEF Rows, Slots
<1>3. b.topics = {}
  BY <1>1 DEF Booked, Waiting
<1>4. \A statuses : CountIn({}, rows, statuses) = 0 /\ CountIn({}, rows2, statuses) = 0
  BY CountEmpty
<1>5. b.queued = 0 /\ b.running = 0 /\ b.succeeded = 0 /\ b.failed = 0
  BY <1>3, <1>4 DEF Booked, Counted
<1>6. input = "TEXT" /\ ~b.released
  BY <1>1, <1>2 DEF Booked, Stored
<1>7. CASE topics = {}
  <2>1. /\ b2.registration = "NO_CONTENT" /\ b2.status = "NO_CONTENT" /\ b2.finished
        /\ b2.topics = {} /\ b2.released = b.released
        /\ b2.queued = 0 /\ b2.running = 0 /\ b2.succeeded = 0 /\ b2.failed = 0
    BY <1>1, <1>2, <1>3, <1>5, <1>7 DEF RegisterTopics, Batch
  <2>2. Counted(b2, rows2) /\ Contentless(b2, rows2)
    BY <1>1, <1>4, <2>1 DEF Counted, Contentless
  <2> QED
    BY <1>6, <2>1, <2>2 DEF Booked
<1>8. CASE topics # {}
  <2>1. /\ b2.registration = "TOPICS_REGISTERED" /\ b2.status = "QUEUED" /\ ~b2.finished
        /\ b2.topics = topics /\ b2.released = b.released
        /\ b2.queued = Cardinality(topics)
        /\ b2.running = 0 /\ b2.succeeded = 0 /\ b2.failed = 0
        /\ b2 \in Batch
    BY <1>1, <1>2, <1>3, <1>5, <1>8, RegisterTopicsType DEF RegisterTopics, Batch
  <2>2. \A t \in topics : rows2[t].status = "QUEUED"
    BY <1>1
  <2>3. {t \in topics : rows2[t].status \in {"QUEUED"}} = topics
    BY <2>2
  <2>4. /\ CountIn(topics, rows2, {"RUNNING"}) = 0
        /\ CountIn(topics, rows2, {"SUCCEEDED"}) = 0
        /\ CountIn(topics, rows2, {"FAILED", "DELETED"}) = 0
    BY <2>2, CountZero
  <2>5. Counted(b2, rows2)
    BY <2>1, <2>3, <2>4 DEF Counted, CountIn
  <2>6. b2.queued > 0
    BY <1>8, <2>1, TopicsAreFinite, TopicsAssumption, FS_Subset, FS_EmptySet
  <2>7. b2 = Refresh(b2)
    <3>1. b2.finished = FALSE
      BY <2>1 DEF Batch
    <3>2. Refresh(b2) = [b2 EXCEPT !.status = "QUEUED", !.finished = FALSE]
      <4> DEFINE status == IF b2.running > 0 THEN "RUNNING"
                           ELSE IF b2.queued > 0 THEN "QUEUED"
                           ELSE IF b2.failed > 0 THEN "FAILED"
                           ELSE "SUCCEEDED"
      <4>1. Refresh(b2) = [b2 EXCEPT !.status = status, !.finished = status \notin Live]
        BY Zenon DEF Refresh
      <4>2. status = "QUEUED"
        BY <2>1, <2>6
      <4>3. (status \notin Live) = FALSE
        BY <4>2 DEF Live
      <4> HIDE DEF status
      <4> QED
        BY <4>1, <4>2, <4>3, Zenon
    <3>3. b2 = [b2 EXCEPT !.status = b2.status, !.finished = b2.finished]
      BY <2>1 DEF Batch
    <3> QED
      BY <2>1, <3>1, <3>2, <3>3
  <2>8. \A t \in Topics : rows2[t].status = "ABSENT" <=> t \notin b2.topics
    BY <1>1, <1>2, <2>1
  <2>9. Registered(b2, rows2)
    BY <1>1, <1>8, <2>1, <2>7, <2>8 DEF Registered
  <2> QED
    BY <1>6, <2>1, <2>5, <2>9 DEF Booked
<1> QED
  BY <1>7, <1>8

\* A deleted failure stays counted as the failure it was
\* (DocumentRetentionCleanupService.deleteExpiredFailures).
LEMMA ExpireBooked ==
    ASSUME NEW b, NEW rows, NEW input, NEW rows2, Rows(b, rows),
           Booked(b, rows, input), ExpireMove(rows, rows2)
    PROVE  Booked(b, rows2, input)
<1>1. b \in Batch /\ b.topics \subseteq Slots /\ Classification \in Slots /\ Topics \subseteq Slots
  BY DEF Rows, Batch, Slots
<1>2. \A s \in Slots : \/ rows2[s].status = rows[s].status
                       \/ rows[s].status = "FAILED" /\ rows2[s].status = "DELETED"
  BY DEF ExpireMove
<1>3. Counted(b, rows2)
  <2>1. ASSUME NEW statuses, "FAILED" \in statuses <=> "DELETED" \in statuses
        PROVE  CountIn(b.topics, rows2, statuses) = CountIn(b.topics, rows, statuses)
    <3>1. \A t \in b.topics : rows2[t].status \in statuses <=> rows[t].status \in statuses
      BY <1>1, <1>2, <2>1
    <3> QED
      BY <3>1, CountSame
  <2>2. /\ CountIn(b.topics, rows2, {"QUEUED"}) = CountIn(b.topics, rows, {"QUEUED"})
        /\ CountIn(b.topics, rows2, {"RUNNING"}) = CountIn(b.topics, rows, {"RUNNING"})
        /\ CountIn(b.topics, rows2, {"SUCCEEDED"}) = CountIn(b.topics, rows, {"SUCCEEDED"})
        /\ CountIn(b.topics, rows2, {"FAILED", "DELETED"}) = CountIn(b.topics, rows, {"FAILED", "DELETED"})
    BY <2>1
  <2> QED
    BY <2>2 DEF Booked, Counted
<1>4. Waiting(b, rows) => Waiting(b, rows2)
  BY <1>1, <1>2 DEF Waiting, Live
<1>5. Registered(b, rows) => Registered(b, rows2)
  BY <1>1, <1>2 DEF Registered
<1>6. Contentless(b, rows) => Contentless(b, rows2)
  BY <1>1, <1>2 DEF Contentless
<1>7. \A s \in Slots : Stored(rows2[s]) => Stored(rows[s])
  BY <1>2 DEF Stored
<1> QED
  BY <1>3, <1>4, <1>5, <1>6, <1>7 DEF Booked, Rows

\* Giving the input up deletes every job that is left; the batch allows it only
\* when all its generation jobs have failed (DocumentGenerationBatch.releaseInput).
LEMMA ReleaseBooked ==
    ASSUME NEW b, NEW rows, NEW input, NEW b2, NEW rows2, NEW input2, Rows(b, rows),
           Booked(b, rows, input), ReleaseMove(b, rows, input, b2, rows2, input2)
    PROVE  Booked(b2, rows2, input2)
<1>1. /\ b \in Batch /\ b.topics \subseteq Slots /\ b.topics \in SUBSET Topics
      /\ Classification \in Slots /\ Topics \subseteq Slots
  BY DEF Rows, Batch, Slots
<1>2. /\ b.status \in {"FAILED", "NO_CONTENT"} /\ b.finished
      /\ b.queued = 0 /\ b.running = 0 /\ b.succeeded = 0
  BY DEF ReleaseMove, InputReleasable
<1>3. \A s \in Slots : rows2[s].status = IF rows[s].status = "ABSENT" THEN "ABSENT" ELSE "DELETED"
  BY DEF ReleaseMove
<1>4. /\ b2.registration = b.registration /\ b2.topics = b.topics
      /\ b2.status = b.status /\ b2.finished = b.finished
      /\ b2.queued = b.queued /\ b2.running = b.running
      /\ b2.succeeded = b.succeeded /\ b2.failed = b.failed
      /\ b2 = [b EXCEPT !.released = TRUE]
  BY <1>1 DEF ReleaseMove, Batch
<1>5. b.registration # "NONE"
  BY <1>2 DEF Booked, NoBatch
<1>6. ~\E s \in Slots : Stored(rows2[s])
  BY <1>3 DEF Stored
<1>7. CASE b.topics = {}
  <2>1. Counted(b2, rows2)
    BY <1>4, <1>7, CountEmpty DEF Booked, Counted
  <2>2. b.registration # "TOPICS_REGISTERED"
    BY <1>7 DEF Booked, Registered
  <2>3. Waiting(b, rows) => Waiting(b2, rows2)
    BY <1>1, <1>2, <1>3, <1>4 DEF Waiting, Live
  <2>4. Contentless(b, rows) => Contentless(b2, rows2)
    BY <1>1, <1>3, <1>4 DEF Contentless
  <2> QED
    BY <1>4, <1>5, <1>6, <2>1, <2>2, <2>3, <2>4 DEF Booked
<1>8. CASE b.topics # {}
  <2>1. b.registration = "TOPICS_REGISTERED" /\ Registered(b, rows) /\ Counted(b, rows)
    BY <1>1, <1>5, <1>8 DEF Booked, Waiting, Contentless, Batch, RegistrationState
  <2>2. \A t \in b.topics : rows[t].status \notin {"QUEUED", "RUNNING", "SUCCEEDED"}
    <3>1. /\ CountIn(b.topics, rows, {"QUEUED"}) = 0
          /\ CountIn(b.topics, rows, {"RUNNING"}) = 0
          /\ CountIn(b.topics, rows, {"SUCCEEDED"}) = 0
      BY <1>2, <2>1 DEF Counted
    <3>2. /\ \A t \in b.topics : rows[t].status \notin {"QUEUED"}
          /\ \A t \in b.topics : rows[t].status \notin {"RUNNING"}
          /\ \A t \in b.topics : rows[t].status \notin {"SUCCEEDED"}
      BY <1>1, <3>1, CountZero
    <3> QED
      BY <3>2
  <2>3. \A t \in b.topics : rows[t].status # "ABSENT" /\ rows[t] \in Job
    BY <1>1, <2>1 DEF Registered, Rows
  <2>4. \A t \in b.topics : rows[t].status \in {"FAILED", "DELETED"}
    BY <2>2, <2>3 DEF Job, JobStatus
  <2>5. \A t \in b.topics : rows2[t].status = "DELETED"
    BY <1>1, <1>3, <2>3
  <2>6. /\ CountIn(b.topics, rows2, {"QUEUED"}) = 0
        /\ CountIn(b.topics, rows2, {"RUNNING"}) = 0
        /\ CountIn(b.topics, rows2, {"SUCCEEDED"}) = 0
    BY <1>1, <2>5, CountZero
  <2>7. CountIn(b.topics, rows2, {"FAILED", "DELETED"}) = CountIn(b.topics, rows, {"FAILED", "DELETED"})
    BY <2>4, <2>5, CountSame
  <2>8. Counted(b2, rows2)
    BY <1>2, <1>4, <2>1, <2>6, <2>7 DEF Counted
  <2>9. b2 = Refresh(b2)
    BY <1>1, <1>4, <2>1 DEF Registered, Refresh, Batch
  <2>10. Registered(b2, rows2)
    BY <1>1, <1>3, <1>4, <2>1, <2>9 DEF Registered
  <2> QED
    BY <1>4, <1>6, <2>1, <2>8, <2>10 DEF Booked
<1> QED
  BY <1>7, <1>8

\* Every move keeps a recording booked.
LEMMA MoveBooked ==
    ASSUME NEW b, NEW rows, NEW input, NEW b2, NEW rows2, NEW input2, Rows(b, rows),
           Booked(b, rows, input), BookMove(b, rows, input, b2, rows2, input2)
    PROVE  Booked(b2, rows2, input2)
<1>1. CASE b2 = b /\ SameStatuses(rows, rows2) /\ input2 = input
  BY <1>1, SameBooked DEF Rows
<1>2. CASE TransitMove(b, rows, b2, rows2) /\ input2 = input
  BY <1>2, TransitBooked
<1>3. CASE AcceptMove(b, rows, input, b2, rows2, input2)
  BY <1>3, AcceptBooked
<1>4. CASE ClassifyMove(b, rows, b2, rows2) /\ input2 = input
  BY <1>4, ClassifyBooked
<1>5. CASE b2 = b /\ ExpireMove(rows, rows2) /\ input2 = input
  BY <1>5, ExpireBooked
<1>6. CASE ReleaseMove(b, rows, input, b2, rows2, input2)
  BY <1>6, ReleaseBooked
<1> QED
  BY <1>1, <1>2, <1>3, <1>4, <1>5, <1>6 DEF BookMove

-----------------------------------------------------------------------------
(* Every step is, for each recording, one of these moves *)

Move(r) == BookMove(batch[r], job[r], transcript[r], batch'[r], job'[r], transcript'[r])

\* A step that leaves batches, jobs and transcripts alone.
LEMMA NoBookMove ==
    ASSUME UNCHANGED <<batch, job, transcript>>, NEW r \in Recordings
    PROVE  Move(r)
BY DEF Move, BookMove, SameStatuses

\* A step that changes one job through its batch.
LEMMA TransitionBookMove ==
    ASSUME TypeOK, NEW r \in Recordings, NEW s \in Slots, NEW next \in Job,
           job[r][s].status \in {"QUEUED", "RUNNING", "FAILED"}, next.status \in JobRow,
           next.status = "SUCCEEDED" => s # Classification,
           Transition(r, s, next), transcript' = transcript, NEW q \in Recordings
    PROVE  Move(q)
<1>1. /\ job'[r][s] = next
      /\ \A p \in Recordings, x \in Slots : p # r \/ x # s => job'[p][x] = job[p][x]
  BY TransitionType DEF JobRow
<1>2. /\ TransitionAccepted(batch[r], s, job[r][s].status)
      /\ batch' = [batch EXCEPT ![r] =
                      RecordJobTransition(@, s, job[r][s].status, next.status)]
      /\ batch \in [Recordings -> Batch]
  BY DEF Transition, TypeOK
<1>3. CASE q = r
  <2>1. batch'[r] = RecordJobTransition(batch[r], s, job[r][s].status, job'[r][s].status)
    BY <1>1, <1>2
  <2>2. TransitMove(batch[r], job[r], batch'[r], job'[r])
    BY <1>1, <1>2, <2>1 DEF TransitMove
  <2> QED
    BY <1>3, <2>2 DEF Move, BookMove
<1>4. CASE q # r
  BY <1>1, <1>2, <1>4 DEF Move, BookMove, SameStatuses
<1> QED
  BY <1>3, <1>4

\* A failure recorded by a thread or by the recovery sweep.
LEMMA FailCurrentAttemptBookMove ==
    ASSUME TypeOK, NEW r \in Recordings, NEW s \in Slots, NEW attempt, NEW cause,
           NEW onlyExpired, FailCurrentAttempt(r, s, attempt, cause, onlyExpired),
           transcript' = transcript, NEW q \in Recordings
    PROVE  Move(q)
<1> DEFINE j == job[r][s]
<1>1. CASE UNCHANGED <<job, batch>>
  BY <1>1, NoBookMove
<1>2. CASE j.status = "RUNNING" /\ Transition(r, s, FailedJob(j, cause))
  <2>1. j \in Job
    BY DEF TypeOK
  <2> HIDE DEF j
  <2>2. RecordFailure(j) \in Job
    BY <2>1, JobOperations
  <2>3. FailedJob(j, cause) \in Job /\ FailedJob(j, cause).status \in JobRow \ {"SUCCEEDED"}
    BY <2>1, <2>2, JobOperations DEF FailedJob, JobRow
  <2> QED
    BY <1>2, <2>3, TransitionBookMove DEF j
<1> QED
  BY <1>1, <1>2 DEF FailCurrentAttempt, IsCurrentExecution

\* A claim starts a queued job or ends it.
LEMMA ClaimBookMove ==
    ASSUME TypeInv, NEW w \in Workers, Claim(w), NEW q \in Recordings
    PROVE  Move(q)
<1> DEFINE r == worker[w].recording
           s == worker[w].slot
           j == job[r][s]
<1>1. r \in Recordings /\ s \in Slots /\ j \in Job /\ transcript' = transcript
  BY DEF Claim, TypeInv, TypeOK, Placed
<1>2. CASE UNCHANGED <<job, batch>>
  BY <1>1, <1>2, NoBookMove
<1>3. CASE IsReady(j) /\ Transition(r, s, RecordFailure(j))
  <2> HIDE DEF j, r, s
  <2> QED
    BY <1>1, <1>3, JobOperations, TransitionBookMove DEF IsReady, JobRow, TypeInv, j
<1>4. CASE IsReady(j) /\ Transition(r, s, StartRunning(j))
  <2> HIDE DEF j, r, s
  <2> QED
    BY <1>1, <1>4, JobOperations, TransitionBookMove DEF IsReady, JobRow, TypeInv, j
<1> QED
  BY <1>2, <1>3, <1>4 DEF Claim

\* A classification result.
LEMMA CompleteClassificationBookMove ==
    ASSUME TypeInv, NEW w \in Workers, NEW topics \in SUBSET Topics,
           CompleteClassification(w, topics), NEW q \in Recordings
    PROVE  Move(q)
<1> DEFINE r == worker[w].recording
           b == RegisterTopics(batch[r], topics)
           rows == [s \in Slots |-> IF s = Classification THEN RecordSuccess(job[r][s])
                                    ELSE IF s \in topics THEN QueuedJob ELSE job[r][s]]
<1>1. /\ r \in Recordings
      /\ job[r][Classification].status = "RUNNING"
      /\ batch[r].registration = "WAITING_CLASSIFICATION"
      /\ transcript' = transcript
      /\ job' = [job EXCEPT ![r] = rows]
      /\ batch' = [batch EXCEPT ![r] = b]
  BY DEF CompleteClassification, ResultAccepted, IsCurrentExecution, TypeInv, Placed
<1>2. /\ batch \in [Recordings -> Batch] /\ job \in [Recordings -> [Slots -> Job]]
      /\ Classification \in Slots /\ Topics \subseteq Slots /\ Classification \notin Topics
  BY SlotsAssumption DEF TypeInv, TypeOK, Slots
<1>3. rows[Classification].status = "SUCCEEDED"
  <2>1. rows[Classification] = RecordSuccess(job[r][Classification])
    BY <1>2
  <2>2. job[r][Classification] \in Job
    BY <1>1, <1>2
  <2>3. RecordSuccess(job[r][Classification]).status = "SUCCEEDED"
    BY <2>2, JobOperations
  <2> HIDE DEF rows
  <2> QED
    BY <2>1, <2>3
<1>4. QueuedJob.status = "QUEUED"
  BY DEF QueuedJob
<1>5. \A t \in Topics : rows[t].status = IF t \in topics THEN "QUEUED" ELSE job[r][t].status
  BY <1>2, <1>4
<1> HIDE DEF rows, r, b
<1>6. CASE q = r
  <2>1. batch'[r] = b /\ job'[r] = rows
    BY <1>1, <1>2
  <2>2. ClassifyMove(batch[r], job[r], b, rows)
    BY <1>1, <1>3, <1>5 DEF ClassifyMove, b
  <2> QED
    BY <1>1, <1>6, <2>1, <2>2 DEF Move, BookMove
<1>7. CASE q # r
  BY <1>1, <1>2, <1>7 DEF Move, BookMove, SameStatuses
<1> QED
  BY <1>6, <1>7

\* Every step of a thread is one of the moves.
LEMMA WorkerStepBookMove ==
    ASSUME TypeInv, NEW w \in Workers, WorkerStep(w), NEW q \in Recordings
    PROVE  Move(q)
<1>1. ASSUME NEW r \in Recordings, NEW s \in Slots, Dispatch(w, r, s)
      PROVE  Move(q)
  BY <1>1, NoBookMove DEF Dispatch, stored
<1>2. ASSUME NEW topics \in SUBSET Topics, CompleteClassification(w, topics)
      PROVE  Move(q)
  BY <1>2, CompleteClassificationBookMove
<1>3. CASE CompleteGeneration(w)
  <2> DEFINE r == worker[w].recording
             s == worker[w].slot
             j == job[r][s]
  <2>1. /\ r \in Recordings /\ s \in Slots /\ j \in Job /\ transcript' = transcript
        /\ s # Classification /\ j.status = "RUNNING"
        /\ Transition(r, s, RecordSuccess(j))
    BY <1>3 DEF CompleteGeneration, ResultAccepted, IsCurrentExecution, TypeInv, TypeOK, Placed
  <2> HIDE DEF j, r, s
  <2> QED
    BY <2>1, JobOperations, TransitionBookMove DEF JobRow, TypeInv, j
<1>4. ASSUME NEW cause \in Cause, ExecutionFails(w, cause)
      PROVE  Move(q)
  BY <1>4, NoBookMove DEF ExecutionFails, stored
<1>5. CASE FailAttempt(w)
  <2>1. worker[w].recording \in Recordings /\ worker[w].slot \in Slots
    BY <1>5 DEF FailAttempt, TypeInv, Placed
  <2> QED
    BY <1>5, <2>1, FailCurrentAttemptBookMove DEF FailAttempt, TypeInv
<1>6. CASE Abandon(w)
  BY <1>6, NoBookMove DEF Abandon, stored
<1> QED
  BY <1>1, <1>2, <1>3, <1>4, <1>5, <1>6, ClaimBookMove DEF WorkerStep, CompleteExecution

\* Every step of a recovery sweep is one of the moves.
LEMMA RecovererStepBookMove ==
    ASSUME TypeInv, NEW v \in Recoverers, RecovererStep(v), NEW q \in Recordings
    PROVE  Move(q)
<1>1. ASSUME NEW r \in Recordings, NEW s \in Slots, ScanExpired(v, r, s)
      PROVE  Move(q)
  BY <1>1, NoBookMove DEF ScanExpired, stored
<1>2. CASE ExpireAttempt(v)
  <2>1. recoverer[v].recording \in Recordings /\ recoverer[v].slot \in Slots
    BY <1>2 DEF ExpireAttempt, TypeInv, Placed
  <2> QED
    BY <1>2, <2>1, FailCurrentAttemptBookMove DEF ExpireAttempt, TypeInv
<1>3. CASE RecoveryDeferred(v)
  BY <1>3, NoBookMove DEF RecoveryDeferred, stored
<1> QED
  BY <1>1, <1>2, <1>3 DEF RecovererStep

\* The retention sweep deletes expired failures, or everything with the input.
LEMMA CleanupBookMove ==
    ASSUME TypeInv, NEW c \in Cleaners, Cleanup(c), NEW q \in Recordings
    PROVE  Move(q)
<1> DEFINE r == cleaner[c]
           jobs == WithoutExpiredFailures(r)
           left == Delete(jobs, {s \in Slots : jobs[s].status # "ABSENT"})
<1>1. /\ r \in Recordings
      /\ batch \in [Recordings -> Batch] /\ job \in [Recordings -> [Slots -> Job]]
      /\ transcript \in [Recordings -> TranscriptState]
  BY DEF Cleanup, TypeInv, TypeOK
<1>2. DeletedJob.status = "DELETED"
  BY DEF DeletedJob, NoJob
<1>3. \A s \in Slots : \/ jobs[s] = job[r][s]
                       \/ IsRetentionExpired(job[r][s]) /\ jobs[s] = DeletedJob
  BY DEF WithoutExpiredFailures, Delete, DeletedJob
<1>4. \A s \in Slots : left[s] = IF jobs[s].status # "ABSENT" THEN DeletedJob ELSE jobs[s]
  BY DEF Delete, DeletedJob
<1>5. \/ /\ InputReleasable(batch[r])
         /\ job' = [job EXCEPT ![r] = left]
         /\ batch' = [batch EXCEPT ![r].released = TRUE]
         /\ transcript' = [transcript EXCEPT ![r] = "DELETED"]
      \/ job' = [job EXCEPT ![r] = jobs] /\ UNCHANGED <<batch, transcript>>
  BY DEF Cleanup, ReleaseInput
<1> HIDE DEF r, jobs, left
<1>6. CASE q # r
  BY <1>1, <1>5, <1>6 DEF Move, BookMove, SameStatuses
<1>7. CASE q = r /\ job' = [job EXCEPT ![r] = jobs] /\ UNCHANGED <<batch, transcript>>
  <2>1. job'[r] = jobs
    BY <1>1, <1>7
  <2>2. ExpireMove(job[r], jobs)
    BY <1>2, <1>3 DEF ExpireMove, IsRetentionExpired
  <2> QED
    BY <1>7, <2>1, <2>2 DEF Move, BookMove
<1>8. CASE /\ q = r /\ InputReleasable(batch[r])
           /\ job' = [job EXCEPT ![r] = left]
           /\ batch' = [batch EXCEPT ![r].released = TRUE]
           /\ transcript' = [transcript EXCEPT ![r] = "DELETED"]
  <2>1. job'[r] = left /\ batch'[r] = [batch[r] EXCEPT !.released = TRUE]
    BY <1>1, <1>8
  <2>2. \A s \in Slots : left[s].status = IF job[r][s].status = "ABSENT" THEN "ABSENT" ELSE "DELETED"
    BY <1>2, <1>3, <1>4 DEF IsRetentionExpired
  <2>3. ReleaseMove(batch[r], job[r], transcript[r], batch'[r], job'[r], transcript'[r])
    BY <1>8, <2>1, <2>2 DEF ReleaseMove
  <2> QED
    BY <1>8, <2>3 DEF Move, BookMove
<1> QED
  BY <1>5, <1>6, <1>7, <1>8

\* Every step of the intake, a member or a time limit is one of the moves.
LEMMA RecordingStepBookMove ==
    ASSUME TypeInv, NEW r \in Recordings, RecordingStep(r), NEW q \in Recordings
    PROVE  Move(q)
<1>0. /\ batch \in [Recordings -> Batch] /\ job \in [Recordings -> [Slots -> Job]]
      /\ transcript \in [Recordings -> TranscriptState]
      /\ Classification \in Slots /\ Topics \subseteq Slots /\ Classification \notin Topics
  BY SlotsAssumption DEF TypeInv, TypeOK, Slots
<1>1. ASSUME NEW content \in {"TEXT", "BLANK"}, AcceptCompletedTranscript(r, content)
      PROVE  Move(q)
  <2> DEFINE accepted == [NoBatch EXCEPT !.registration = "WAITING_CLASSIFICATION"]
  <2>1. /\ batch[r].registration = "NONE"
        /\ transcript' = [transcript EXCEPT ![r] = content]
        /\ IF content = "BLANK"
           THEN batch' = [batch EXCEPT ![r] = RegisterTopics(accepted, {})] /\ job' = job
           ELSE /\ batch' = [batch EXCEPT ![r] = accepted]
                /\ job' = [job EXCEPT ![r][Classification] = QueuedJob]
    BY <1>1 DEF AcceptCompletedTranscript, Accepted
  <2>2. QueuedJob.status = "QUEUED"
    BY DEF QueuedJob
  <2>3. CASE q # r
    BY <1>0, <2>1, <2>3 DEF Move, BookMove, SameStatuses
  <2>4. CASE q = r
    <3>1. transcript'[r] = content
      BY <1>0, <2>1
    <3>2. IF content = "BLANK"
          THEN batch'[r] = RegisterTopics(accepted, {}) /\ job'[r] = job[r]
          ELSE /\ batch'[r] = accepted
               /\ job'[r][Classification].status = "QUEUED"
               /\ \A t \in Topics : job'[r][t].status = job[r][t].status
      <4> HIDE DEF accepted
      <4> QED
        BY <1>0, <2>1, <2>2
    <3>3. AcceptMove(batch[r], job[r], transcript[r], batch'[r], job'[r], transcript'[r])
      BY <2>1, <3>1, <3>2 DEF AcceptMove
    <3> QED
      BY <2>4, <3>3 DEF Move, BookMove
  <2> QED
    BY <2>3, <2>4
<1>2. ASSUME NEW s \in Slots, RetryJob(r, s)
      PROVE  Move(q)
  <2> DEFINE j == job[r][s]
  <2>1. j \in Job
    BY <1>0
  <2>2. j.status = "FAILED" /\ Transition(r, s, RetryByUser(j)) /\ transcript' = transcript
    BY <1>2 DEF RetryJob, CanRetryByUser
  <2> HIDE DEF j
  <2> QED
    BY <2>1, <2>2, JobOperations, TransitionBookMove DEF JobRow, TypeInv, j
<1>3. ASSUME NEW s \in Slots, LimitReached(r, s)
      PROVE  Move(q)
  <2>1. /\ job' = [job EXCEPT ![r][s] = [job[r][s] EXCEPT !.due = TRUE]]
        /\ UNCHANGED <<batch, transcript>>
    BY <1>3, Zenon DEF LimitReached
  <2>2. [job[r][s] EXCEPT !.due = TRUE].status = job[r][s].status
    BY <1>0 DEF Job
  <2> DEFINE k == [job[r][s] EXCEPT !.due = TRUE]
  <2> HIDE DEF k
  <2>3. \A x \in Slots : job'[q][x].status = job[q][x].status
    BY <1>0, <2>1, <2>2 DEF k
  <2> QED
    BY <2>1, <2>3 DEF Move, BookMove, SameStatuses
<1>4. CASE CompleteAudioUpload(r)
  BY <1>4, NoBookMove DEF CompleteAudioUpload
<1>5. CASE ScheduleAudioDeletion(r)
  BY <1>5, NoBookMove DEF ScheduleAudioDeletion
<1> QED
  BY <1>1, <1>2, <1>3, <1>4, <1>5 DEF RecordingStep

\* Whatever one step does to a recording is one of the moves.
LEMMA NextBookMove ==
    ASSUME TypeInv, [Next]_vars, NEW q \in Recordings
    PROVE  Move(q)
<1>1. ASSUME NEW c \in Cleaners, CleanerStep(c)
      PROVE  Move(q)
  <2>1. ASSUME NEW r \in Recordings, ScanRetention(c, r)
        PROVE  Move(q)
    BY <2>1, NoBookMove DEF ScanRetention, stored
  <2>2. CASE CleanupDeferred(c)
    BY <2>2, NoBookMove DEF CleanupDeferred, stored
  <2> QED
    BY <1>1, <2>1, <2>2, CleanupBookMove DEF CleanerStep
<1>2. ASSUME NEW m \in Members, Join(m) \/ Leave(m)
      PROVE  Move(q)
  BY <1>2, NoBookMove DEF Join, Leave
<1>3. CASE UNCHANGED vars
  BY <1>3, NoBookMove DEF vars
<1> QED
  BY <1>1, <1>2, <1>3, WorkerStepBookMove, RecovererStepBookMove, RecordingStepBookMove DEF Next

-----------------------------------------------------------------------------
(* The theorems *)

\* Every recording stays booked: its batch, its jobs and its transcript agree at
\* each stage, whichever transactions commit in whichever order.
THEOREM AllBookedCorrect == Spec => []AllBooked
<1>1. Init => AllBooked
  <2> SUFFICES ASSUME Init, NEW r \in Recordings
               PROVE  Booked(batch[r], job[r], transcript[r])
    BY DEF AllBooked
  <2>1. batch[r] = NoBatch /\ transcript[r] = "NONE" /\ \A s \in Slots : job[r][s] = NoJob
    BY DEF Init
  <2>2. /\ NoBatch.registration = "NONE" /\ NoBatch.topics = {}
        /\ NoBatch.queued = 0 /\ NoBatch.running = 0
        /\ NoBatch.succeeded = 0 /\ NoBatch.failed = 0
    BY DEF NoBatch
  <2>3. Counted(NoBatch, job[r])
    BY <2>2, CountEmpty DEF Counted
  <2>4. ~Stored(NoJob)
    BY DEF Stored, NoJob
  <2> QED
    BY <2>1, <2>2, <2>3, <2>4 DEF Booked
<1>2. TypeInv /\ Staged /\ AllBooked /\ [Next]_vars => AllBooked'
  <2> SUFFICES ASSUME TypeInv, Staged, AllBooked, [Next]_vars, NEW r \in Recordings
               PROVE  Booked(batch[r], job[r], transcript[r])'
    BY DEF AllBooked
  <2>1. Rows(batch[r], job[r])
    BY DEF Rows, TypeInv, TypeOK, Staged
  <2>2. Booked(batch[r], job[r], transcript[r])
    BY DEF AllBooked
  <2>3. Move(r)
    BY NextBookMove
  <2> QED
    BY <2>1, <2>2, <2>3, MoveBooked DEF Move
<1> QED
  BY <1>1, <1>2, TypeCorrect, StagedCorrect, PTL DEF Spec, TypeInv

\* What Refresh computes.
LEMMA RegisteredReports ==
    ASSUME NEW b \in Batch, NEW rows, Registered(b, rows)
    PROVE  /\ b.status = IF b.running > 0 THEN "RUNNING"
                         ELSE IF b.queued > 0 THEN "QUEUED"
                         ELSE IF b.failed > 0 THEN "FAILED"
                         ELSE "SUCCEEDED"
           /\ b.finished <=> b.status \notin Live
<1> DEFINE status == IF b.running > 0 THEN "RUNNING"
                     ELSE IF b.queued > 0 THEN "QUEUED"
                     ELSE IF b.failed > 0 THEN "FAILED"
                     ELSE "SUCCEEDED"
<1>1. b = [b EXCEPT !.status = status, !.finished = status \notin Live]
  BY Zenon DEF Registered, Refresh
<1> HIDE DEF status
<1>2. b.status = status /\ b.finished = (status \notin Live)
  BY <1>1, Zenon DEF Batch
<1> QED
  BY <1>2 DEF status

\* The counters follow from Booked, and what a batch reports from its counters
\* and the documents.
LEMMA BookedBatchIsTrue ==
    ASSUME TypeInv, Staged, AllBooked, DocumentsMatchJobs
    PROVE  BatchIsTrue
<1>1. CountersMatchJobs
  BY DEF AllBooked, Booked, Counted, CountIn, CountersMatchJobs, With
<1>2. ASSUME NEW r \in Recordings, batch[r].registration # "NONE"
      PROVE  LET b == batch[r]
                 some(status) == \E s \in Slots : job[r][s].status = status
             IN  /\ b.finished <=> ~some("QUEUED") /\ ~some("RUNNING")
                 /\ b.status = "RUNNING" <=> some("RUNNING")
                 /\ b.status = "QUEUED" <=> some("QUEUED") /\ ~some("RUNNING")
                 /\ b.status = "SUCCEEDED" <=>
                       /\ b.registration = "TOPICS_REGISTERED"
                       /\ {d.topic : d \in docs[r]} = b.topics
                 /\ b.status = "NO_CONTENT" <=> b.registration = "NO_CONTENT"
  <2> DEFINE b == batch[r]
             some(status) == \E s \in Slots : job[r][s].status = status
  <2>1. /\ b \in Batch /\ b.topics \in SUBSET Topics /\ job[r] \in [Slots -> Job]
        /\ Booked(b, job[r], transcript[r])
        /\ docs[r] \in SUBSET Document
    BY DEF AllBooked, TypeInv, TypeOK, Batch
  <2>2. Slots = Topics \cup {Classification} /\ Classification \notin Topics
    BY SlotsAssumption DEF Slots
  <2>3. CASE b.registration = "WAITING_CLASSIFICATION"
    <3>1. Waiting(b, job[r]) /\ \A t \in Topics : job[r][t].status = "ABSENT"
      BY <2>1, <2>3 DEF Booked, Staged
    <3>2. \A status \in {"QUEUED", "RUNNING"} : some(status) <=> job[r][Classification].status = status
      BY <2>2, <3>1
    <3> HIDE DEF some
    <3> QED
      BY <2>3, <3>1, <3>2 DEF Waiting, Live, some
  <2>4. CASE b.registration = "NO_CONTENT"
    <3>1. Contentless(b, job[r]) /\ \A t \in Topics : job[r][t].status = "ABSENT"
      BY <2>1, <2>4 DEF Booked, Staged
    <3> QED
      BY <2>2, <2>4, <3>1 DEF Contentless
  <2>5. CASE b.registration = "TOPICS_REGISTERED"
    <3>1. Registered(b, job[r]) /\ Counted(b, job[r])
      BY <2>1, <2>5 DEF Booked
    <3>2. \A status \in {"QUEUED", "RUNNING"} :
             some(status) <=> \E t \in b.topics : job[r][t].status = status
      BY <2>1, <2>2, <3>1 DEF Registered
    <3>3. /\ b.queued \in Nat /\ b.running \in Nat /\ b.succeeded \in Nat /\ b.failed \in Nat
          /\ b.queued = 0 <=> ~some("QUEUED")
          /\ b.running = 0 <=> ~some("RUNNING")
          /\ b.failed = 0 <=> \A t \in b.topics : job[r][t].status \notin {"FAILED", "DELETED"}
      <4>1. /\ b.queued = 0 <=> \A t \in b.topics : job[r][t].status \notin {"QUEUED"}
            /\ b.running = 0 <=> \A t \in b.topics : job[r][t].status \notin {"RUNNING"}
            /\ b.failed = 0 <=> \A t \in b.topics : job[r][t].status \notin {"FAILED", "DELETED"}
        <5>1. ASSUME NEW statuses
              PROVE  CountIn(b.topics, job[r], statuses) = 0
                        <=> \A t \in b.topics : job[r][t].status \notin statuses
          <6>1. b.topics \in SUBSET Topics
            BY <2>1
          <6> HIDE DEF b
          <6> QED
            BY <6>1, CountZero
        <5>2. /\ b.queued = CountIn(b.topics, job[r], {"QUEUED"})
              /\ b.running = CountIn(b.topics, job[r], {"RUNNING"})
              /\ b.failed = CountIn(b.topics, job[r], {"FAILED", "DELETED"})
          BY <3>1 DEF Counted
        <5> HIDE DEF b
        <5> QED
          BY <5>1, <5>2
      <4> HIDE DEF some
      <4> QED
        BY <2>1, <3>2, <4>1 DEF Batch
    <3>4. /\ b.status = IF b.running > 0 THEN "RUNNING"
                        ELSE IF b.queued > 0 THEN "QUEUED"
                        ELSE IF b.failed > 0 THEN "FAILED"
                        ELSE "SUCCEEDED"
          /\ b.finished <=> b.status \notin Live
      BY <2>1, <3>1, RegisteredReports
    <3>5. (\A t \in b.topics : job[r][t].status = "SUCCEEDED") <=> {d.topic : d \in docs[r]} = b.topics
      <4>1. \A d \in docs[r] : d.topic \in Topics
        BY <2>1 DEF Document
      <4>2. \A t \in Topics : job[r][t].status = "SUCCEEDED" <=> \E d \in docs[r] : d.topic = t
        <5> SUFFICES ASSUME NEW t \in Topics
                     PROVE  job[r][t].status = "SUCCEEDED" <=> \E d \in docs[r] : d.topic = t
          OBVIOUS
        <5>1. {d \in docs[r] : d.topic = t} = IF job[r][t].status = "SUCCEEDED"
                                              THEN {[topic |-> t, attempt |-> job[r][t].attempt]}
                                              ELSE {}
          BY DEF DocumentsMatchJobs
        <5> QED
          BY <5>1
      <4>3. \A t \in Topics : job[r][t].status = "SUCCEEDED" => t \in b.topics
        BY <3>1 DEF Registered
      <4> QED
        BY <2>1, <4>1, <4>2, <4>3
    <3>6. b.running = 0 /\ b.queued = 0 /\ b.failed = 0 <=>
             \A t \in b.topics : job[r][t].status = "SUCCEEDED"
      <4>1. \A t \in b.topics : job[r][t].status \in JobStatus \ {"ABSENT"}
        BY <2>1, <2>2, <3>1 DEF Registered, Job
      <4> HIDE DEF some
      <4> QED
        BY <3>2, <3>3, <4>1 DEF JobStatus
    <3> HIDE DEF some
    <3> QED
      BY <2>5, <3>3, <3>4, <3>5, <3>6 DEF Live, some
  <2> QED
    BY <1>2, <2>1, <2>3, <2>4, <2>5 DEF Batch, RegistrationState
<1>3. BatchReportsJobs
  BY <1>2 DEF BatchReportsJobs
<1> QED
  BY <1>1, <1>3 DEF BatchIsTrue

\* A batch's four counters are the numbers of its jobs in each status, and its
\* status and finish say what the jobs are doing
\* (DocumentGenerationBatch.recordJobTransition and refreshProcessingStatus).
THEOREM BatchIsTrueCorrect == Spec => []BatchIsTrue
<1>1. TypeInv /\ Staged /\ AllBooked /\ DocumentsMatchJobs => BatchIsTrue
  BY BookedBatchIsTrue
<1> QED
  BY <1>1, TypeCorrect, StagedCorrect, AllBookedCorrect, DocumentsCorrect, PTL DEF TypeInv

\* Nothing that still needs the transcript outlives it, and every job that can
\* run has the input it will be claimed with
\* (DocumentGenerationJobClaimService.hasUsableInput).
THEOREM InputHeldCorrect == Spec => []InputHeldWhileNeeded
<1>1. ASSUME TypeInv, Staged, AllBooked, DocumentsMatchJobs
      PROVE  InputHeldWhileNeeded
  <2> SUFFICES ASSUME NEW r \in Recordings
               PROVE  /\ (\E s \in Slots : Stored(job[r][s])) \/ docs[r] # {} =>
                            transcript[r] = "TEXT" /\ ~batch[r].released
                      /\ \A s \in Slots : job[r][s].status \in Live => UsableInput(r, s)
    BY DEF InputHeldWhileNeeded
  <2>1. /\ batch[r] \in Batch /\ Booked(batch[r], job[r], transcript[r])
        /\ docs[r] \in SUBSET Document
        /\ Slots = Topics \cup {Classification} /\ Classification \notin Topics
    BY <1>1, SlotsAssumption DEF AllBooked, TypeInv, TypeOK, Slots
  <2>2. docs[r] # {} => \E s \in Slots : Stored(job[r][s])
    <3> SUFFICES ASSUME NEW d \in docs[r]
                 PROVE  \E s \in Slots : Stored(job[r][s])
      OBVIOUS
    <3>1. d.topic \in Topics
      BY <2>1 DEF Document
    <3>2. job[r][d.topic].status = "SUCCEEDED"
      BY <1>1, <3>1 DEF DocumentsMatchJobs
    <3> QED
      BY <2>1, <3>1, <3>2 DEF Stored
  <2>3. ASSUME NEW s \in Slots, job[r][s].status \in Live
        PROVE  UsableInput(r, s)
    <3>1. Stored(job[r][s])
      BY <2>3 DEF Stored, Live
    <3>2. transcript[r] = "TEXT" /\ ~batch[r].released
      BY <2>1, <3>1 DEF Booked
    <3>3. CASE s = Classification
      <4>1. batch[r].registration = "WAITING_CLASSIFICATION"
        BY <1>1, <2>1, <2>3, <3>3
           DEF Booked, Registered, Contentless, Staged, Live, Batch, RegistrationState
      <4> QED
        BY <3>2, <3>3, <4>1 DEF UsableInput
    <3>4. CASE s \in Topics
      <4>1. job[r][s].status # "ABSENT"
        BY <2>3 DEF Live
      <4>2. batch[r].registration = "TOPICS_REGISTERED"
        BY <1>1, <2>1, <3>4, <4>1 DEF Staged, Batch, RegistrationState
      <4>3. s \in batch[r].topics
        BY <2>1, <3>4, <4>1, <4>2 DEF Booked, Registered
      <4> QED
        BY <2>1, <3>2, <3>4, <4>2, <4>3 DEF UsableInput
    <3> QED
      BY <2>1, <3>3, <3>4
  <2> QED
    BY <2>1, <2>2, <2>3 DEF Booked
<1> QED
  BY <1>1, TypeCorrect, StagedCorrect, AllBookedCorrect, DocumentsCorrect, PTL DEF TypeInv

\* Whenever the retention sweep decides to give the input up, the batch agrees:
\* what DocumentRetentionCleanupService reads from the jobs and the documents
\* implies what DocumentGenerationBatch.validateReleasableInput asks.
THEOREM CleanupNeverRefusedCorrect == Spec => []CleanupNeverRefused
<1>1. ASSUME TypeInv, Staged, AllBooked, DocumentsMatchJobs
      PROVE  CleanupNeverRefused
  <2> SUFFICES ASSUME NEW r \in Recordings, ReleasesInput(r, WithoutExpiredFailures(r))
               PROVE  InputReleasable(batch[r])
    BY DEF CleanupNeverRefused
  <2> DEFINE b == batch[r]
  <2>1. /\ b \in Batch /\ b.topics \in SUBSET Topics
        /\ Booked(b, job[r], transcript[r])
        /\ b.status \in {"FAILED", "NO_CONTENT"} /\ docs[r] = {}
    BY <1>1 DEF AllBooked, TypeInv, TypeOK, Batch, ReleasesInput
  <2>2. b.registration # "NONE"
    BY <2>1 DEF Booked, NoBatch
  <2>3. CASE b.registration = "TOPICS_REGISTERED"
    <3>1. Registered(b, job[r]) /\ Counted(b, job[r])
      BY <2>1, <2>3 DEF Booked
    <3>2. \A t \in b.topics : job[r][t].status \notin {"SUCCEEDED"}
      <4> SUFFICES ASSUME NEW t \in b.topics, job[r][t].status = "SUCCEEDED"
                   PROVE  FALSE
        OBVIOUS
      <4>1. {d \in docs[r] : d.topic = t} = {[topic |-> t, attempt |-> job[r][t].attempt]}
        BY <1>1, <2>1 DEF DocumentsMatchJobs
      <4> QED
        BY <2>1, <4>1
    <3>3. b.succeeded = 0
      BY <2>1, <3>1, <3>2, CountZero DEF Counted
    <3>4. /\ b.status = IF b.running > 0 THEN "RUNNING"
                        ELSE IF b.queued > 0 THEN "QUEUED"
                        ELSE IF b.failed > 0 THEN "FAILED"
                        ELSE "SUCCEEDED"
          /\ b.finished <=> b.status \notin Live
      BY <2>1, <3>1, RegisteredReports
    <3>5. b.running = 0 /\ b.queued = 0 /\ b.finished
      BY <2>1, <3>4 DEF Batch, Live
    <3> QED
      BY <2>1, <3>3, <3>5 DEF InputReleasable
  <2>4. CASE b.topics = {} /\ b.finished
    <3>1. b.queued = 0 /\ b.running = 0 /\ b.succeeded = 0
      BY <2>1, <2>4, CountEmpty DEF Booked, Counted
    <3> QED
      BY <2>1, <2>4, <3>1 DEF InputReleasable
  <2>5. CASE b.registration \in {"WAITING_CLASSIFICATION", "NO_CONTENT"}
    BY <2>1, <2>4, <2>5 DEF Booked, Waiting, Contentless, Live
  <2> QED
    BY <2>1, <2>2, <2>3, <2>5 DEF Batch, RegistrationState
<1> QED
  BY <1>1, TypeCorrect, StagedCorrect, AllBookedCorrect, DocumentsCorrect, PTL DEF TypeInv

-----------------------------------------------------------------------------
(* What DocumentProduction sees of the pipeline *)

Alive == ~WorkspaceDeleted
Outcomes == [r \in Recordings |-> [s \in Slots |-> OutcomeOf(job[r][s])]]
Retries == [r \in Recordings |-> [s \in Slots |-> job[r][s].user]]
Answers == [r \in Recordings |-> batch[r].topics]
Inputs == [r \in Recordings |->
              IF transcript[r] \in {"TEXT", "BLANK"} THEN "HELD" ELSE transcript[r]]

\* Nothing that was promised changes.
Silent == UNCHANGED <<Alive, Outcomes, Retries, Answers, Inputs>>

Promised == Production!Next \/ Silent

LEMMA TasksAreSlots == Production!Tasks = Slots
BY DEF Production!Tasks, Slots

\* A step that leaves members, transcripts and topics alone, and every job's
\* outcome and count of retries, is no step of the promise.
LEMMA SilentStep ==
    ASSUME \A r \in Recordings, s \in Slots :
              OutcomeOf(job'[r][s]) = OutcomeOf(job[r][s]) /\ job'[r][s].user = job[r][s].user,
           \A r \in Recordings : batch'[r].topics = batch[r].topics,
           Alive' = Alive, transcript' = transcript
    PROVE  Silent
<1>1. Outcomes' = Outcomes
  BY DEF Outcomes
<1>2. Retries' = Retries
  BY DEF Retries
<1>3. Answers' = Answers /\ Inputs' = Inputs
  BY DEF Answers, Inputs
<1> QED
  BY <1>1, <1>2, <1>3 DEF Silent

\* The step of a thread or a sweep in its memory only.
LEMMA UnseenStep ==
    ASSUME UNCHANGED <<members, transcript, batch, job>>
    PROVE  Silent
BY DEF Silent, Alive, WorkspaceDeleted, Outcomes, Retries, Answers, Inputs

\* The rows of one recording change.
LEMMA RowsStep ==
    ASSUME TypeOK, NEW r \in Recordings, NEW rows \in [Slots -> Job], job' = [job EXCEPT ![r] = rows]
    PROVE  /\ Outcomes' = [Outcomes EXCEPT ![r] = [s \in Slots |-> OutcomeOf(rows[s])]]
           /\ Retries' = [Retries EXCEPT ![r] = [s \in Slots |-> rows[s].user]]
<1>1. job \in [Recordings -> [Slots -> Job]]
  BY DEF TypeOK
<1>2. \A q \in Recordings : job'[q] = IF q = r THEN rows ELSE job[q]
  BY <1>1
<1>3. Outcomes' = [Outcomes EXCEPT ![r] = [s \in Slots |-> OutcomeOf(rows[s])]]
  <2> DEFINE new == [s \in Slots |-> OutcomeOf(rows[s])]
             old(q) == [s \in Slots |-> OutcomeOf(job[q][s])]
  <2>1. Outcomes = [q \in Recordings |-> old(q)]
    BY DEF Outcomes
  <2>2. Outcomes' = [q \in Recordings |-> IF q = r THEN new ELSE old(q)]
    <3>1. Outcomes' = [q \in Recordings |-> [s \in Slots |-> OutcomeOf(job'[q][s])]]
      BY DEF Outcomes
    <3>2. \A q \in Recordings : [s \in Slots |-> OutcomeOf(job'[q][s])] = IF q = r THEN new ELSE old(q)
      BY <1>2
    <3> HIDE DEF new, old
    <3> QED
      BY <3>1, <3>2
  <2> HIDE DEF new, old
  <2>3. Outcomes' = [Outcomes EXCEPT ![r] = new]
    BY <2>1, <2>2
  <2> QED
    BY <2>3 DEF new
<1>4. Retries' = [Retries EXCEPT ![r] = [s \in Slots |-> rows[s].user]]
  <2> DEFINE new == [s \in Slots |-> rows[s].user]
             old(q) == [s \in Slots |-> job[q][s].user]
  <2>1. Retries = [q \in Recordings |-> old(q)]
    BY DEF Retries
  <2>2. Retries' = [q \in Recordings |-> IF q = r THEN new ELSE old(q)]
    <3>1. Retries' = [q \in Recordings |-> [s \in Slots |-> job'[q][s].user]]
      BY DEF Retries
    <3>2. \A q \in Recordings : [s \in Slots |-> job'[q][s].user] = IF q = r THEN new ELSE old(q)
      BY <1>2
    <3> HIDE DEF new, old
    <3> QED
      BY <3>1, <3>2
  <2> HIDE DEF new, old
  <2>3. Retries' = [Retries EXCEPT ![r] = new]
    BY <2>1, <2>2
  <2> QED
    BY <2>3 DEF new
<1> QED
  BY <1>3, <1>4

\* One job changes with its batch.
LEMMA TransitionStep ==
    ASSUME TypeOK, NEW r \in Recordings, NEW s \in Slots, NEW next \in Job,
           job[r][s].status \in JobRow, next.status \in JobRow, Transition(r, s, next),
           members' = members, transcript' = transcript
    PROVE  /\ Outcomes' = [Outcomes EXCEPT ![r][s] = OutcomeOf(next)]
           /\ Retries' = [Retries EXCEPT ![r][s] = next.user]
           /\ Alive' = Alive /\ Answers' = Answers /\ Inputs' = Inputs
           /\ OutcomeOf(next) = OutcomeOf(job[r][s]) /\ next.user = job[r][s].user => Silent
<1>1. /\ job'[r][s] = next
      /\ \A q \in Recordings, x \in Slots : q # r \/ x # s => job'[q][x] = job[q][x]
      /\ \A q \in Recordings : batch'[q].topics = batch[q].topics
  BY TransitionType
<1> DEFINE rows == [job[r] EXCEPT ![s] = next]
<1>0. /\ rows \in [Slots -> Job] /\ job' = [job EXCEPT ![r] = rows]
      /\ rows[s] = next /\ \A x \in Slots \ {s} : rows[x] = job[r][x]
  BY DEF TypeOK, Transition
<1> HIDE DEF rows
<1>2. Outcomes' = [Outcomes EXCEPT ![r][s] = OutcomeOf(next)]
  <2>1. Outcomes[r] = [x \in Slots |-> OutcomeOf(job[r][x])]
    BY DEF Outcomes
  <2>2. [x \in Slots |-> OutcomeOf(rows[x])] = [Outcomes[r] EXCEPT ![s] = OutcomeOf(next)]
    BY <1>0, <2>1
  <2> QED
    BY <1>0, <2>2, RowsStep
<1>3. Retries' = [Retries EXCEPT ![r][s] = next.user]
  <2>1. Retries[r] = [x \in Slots |-> job[r][x].user]
    BY DEF Retries
  <2>2. [x \in Slots |-> rows[x].user] = [Retries[r] EXCEPT ![s] = next.user]
    BY <1>0, <2>1
  <2> QED
    BY <1>0, <2>2, RowsStep
<1>4. Alive' = Alive /\ Answers' = Answers /\ Inputs' = Inputs
  BY <1>1 DEF Alive, WorkspaceDeleted, Answers, Inputs
<1>5. OutcomeOf(next) = OutcomeOf(job[r][s]) /\ next.user = job[r][s].user => Silent
  BY <1>1, <1>4, SilentStep
<1> QED
  BY <1>2, <1>3, <1>4, <1>5

\* A job that can run ends as a failure: the task is given up.
LEMMA FailureIsGiveUp ==
    ASSUME TypeOK, NEW r \in Recordings, NEW s \in Slots, NEW next \in Job,
           job[r][s].status \in Live, next.status = "FAILED", next.user = job[r][s].user,
           Transition(r, s, next), members' = members, transcript' = transcript
    PROVE  Promised
<1>1. job[r][s].status \in JobRow /\ next.status \in JobRow
  BY DEF JobRow, Live
<1>2. /\ Outcomes' = [Outcomes EXCEPT ![r][s] = OutcomeOf(next)]
      /\ Retries' = [Retries EXCEPT ![r][s] = next.user]
      /\ Alive' = Alive /\ Answers' = Answers /\ Inputs' = Inputs
  BY <1>1, TransitionStep
<1>3. OutcomeOf(next) = "FAILED" /\ OutcomeOf(job[r][s]) = "OPEN"
  BY DEF OutcomeOf, Live
<1>4. Outcomes[r][s] = "OPEN"
  BY <1>3 DEF Outcomes
<1>5. Retries' = Retries
  <2>1. Retries = [q \in Recordings |-> [x \in Slots |-> job[q][x].user]]
    BY DEF Retries
  <2>2. Retries[r] = [Retries[r] EXCEPT ![s] = next.user]
    BY <2>1
  <2> QED
    BY <1>2, <2>1, <2>2
<1>6. Production!GiveUp(r, s)
  BY <1>2, <1>3, <1>4, <1>5 DEF Production!GiveUp, Alive, Outcomes, Retries, Answers, Inputs
<1> QED
  BY <1>6, TasksAreSlots DEF Promised, Production!Next, Production!Resolve

\* A member's retry takes the failed task up again.
LEMMA RetryIsTakeUpAgain ==
    ASSUME TypeOK, NEW r \in Recordings, NEW s \in Slots, RetryJob(r, s)
    PROVE  Promised
<1> DEFINE j == job[r][s]
           next == RetryByUser(j)
<1>1. /\ j \in Job /\ j.status = "FAILED" /\ j.user < MaxUserRetries
      /\ ~WorkspaceDeleted /\ Transition(r, s, next)
      /\ members' = members /\ transcript' = transcript
  BY DEF RetryJob, CanRetryByUser, WorkspaceDeleted, TypeOK
<1> HIDE DEF j
<1>2. next \in Job /\ next.status = "QUEUED" /\ next.user = j.user + 1
  BY <1>1, JobOperations, JobEffects
<1> HIDE DEF next
<1>3. /\ Outcomes' = [Outcomes EXCEPT ![r][s] = OutcomeOf(next)]
      /\ Retries' = [Retries EXCEPT ![r][s] = next.user]
      /\ Alive' = Alive /\ Answers' = Answers /\ Inputs' = Inputs
  BY <1>1, <1>2, TransitionStep DEF JobRow, j
<1>4. OutcomeOf(next) = "OPEN" /\ OutcomeOf(j) = "FAILED"
  BY <1>1, <1>2 DEF OutcomeOf, Live
<1>5. Outcomes[r][s] = "FAILED" /\ Retries[r][s] = j.user
  BY <1>4 DEF Outcomes, Retries, j
<1>6. Retries' = [Retries EXCEPT ![r][s] = @ + 1]
  BY <1>2, <1>3, <1>5
<1>7. Outcomes' = [Outcomes EXCEPT ![r][s] = "OPEN"]
  BY <1>3, <1>4
<1>8. Alive /\ Retries[r][s] < MaxUserRetries
  BY <1>1, <1>5 DEF Alive
<1>9. Production!TakeUpAgain(r, s)
  BY <1>3, <1>5, <1>6, <1>7, <1>8
     DEF Production!TakeUpAgain, Alive, Outcomes, Retries, Answers, Inputs
<1> QED
  BY <1>9, TasksAreSlots DEF Promised, Production!Next

\* A stored document resolves its topic.
LEMMA GenerationIsProduce ==
    ASSUME TypeInv, NEW w \in Workers, CompleteGeneration(w)
    PROVE  Promised
<1> DEFINE r == worker[w].recording
           s == worker[w].slot
           j == job[r][s]
           next == RecordSuccess(j)
<1>1. /\ r \in Recordings /\ s \in Slots /\ s # Classification
      /\ j \in Job /\ j.status = "RUNNING" /\ ~WorkspaceDeleted /\ Transition(r, s, next)
      /\ members' = members /\ transcript' = transcript
  BY DEF CompleteGeneration, ResultAccepted, IsCurrentExecution, TypeInv, TypeOK, Placed
<1> HIDE DEF r, s, j
<1>2. next \in Job /\ next.status = "SUCCEEDED" /\ next.user = j.user
  BY <1>1, JobOperations, JobEffects DEF SameNumbers
<1> HIDE DEF next
<1>3. /\ Outcomes' = [Outcomes EXCEPT ![r][s] = OutcomeOf(next)]
      /\ Retries' = [Retries EXCEPT ![r][s] = next.user]
      /\ Alive' = Alive /\ Answers' = Answers /\ Inputs' = Inputs
  BY <1>1, <1>2, TransitionStep DEF JobRow, TypeInv, j
<1>4. OutcomeOf(next) = "DONE" /\ OutcomeOf(j) = "OPEN"
  BY <1>1, <1>2 DEF OutcomeOf, Live
<1>5. Outcomes[r][s] = "OPEN"
  BY <1>1, <1>4 DEF Outcomes, j
<1>6. Retries' = Retries
  <2>1. Retries = [q \in Recordings |-> [x \in Slots |-> job[q][x].user]]
    BY DEF Retries
  <2>2. Retries[r] = [Retries[r] EXCEPT ![s] = next.user]
    BY <1>1, <1>2, <2>1 DEF j
  <2> QED
    BY <1>1, <1>3, <2>1, <2>2
<1>7. Outcomes' = [Outcomes EXCEPT ![r][s] = "DONE"] /\ Alive
  BY <1>1, <1>3, <1>4 DEF Alive
<1>8. Production!Produce(r, s)
  BY <1>3, <1>5, <1>6, <1>7
     DEF Production!Produce, Alive, Outcomes, Retries, Answers, Inputs
<1> QED
  BY <1>1, <1>8, TasksAreSlots DEF Promised, Production!Next, Production!Resolve

\* A classification result resolves the classification and opens its topics.
LEMMA ClassificationIsClassify ==
    ASSUME TypeInv, Staged, Cleared, AllBooked, NEW w \in Workers, NEW topics \in SUBSET Topics,
           CompleteClassification(w, topics)
    PROVE  Promised
<1> DEFINE r == worker[w].recording
           rows == [s \in Slots |-> IF s = Classification THEN RecordSuccess(job[r][s])
                                    ELSE IF s \in topics THEN QueuedJob ELSE job[r][s]]
<1>1. /\ r \in Recordings
      /\ ~WorkspaceDeleted
      /\ job[r][Classification].status = "RUNNING"
      /\ batch[r].registration = "WAITING_CLASSIFICATION"
      /\ members' = members /\ transcript' = transcript
      /\ job' = [job EXCEPT ![r] = rows]
      /\ batch' = [batch EXCEPT ![r] = RegisterTopics(batch[r], topics)]
  BY DEF CompleteClassification, ResultAccepted, IsCurrentExecution, TypeInv, Placed
<1> HIDE DEF r
<1>2. /\ TypeOK /\ batch \in [Recordings -> Batch] /\ job[r] \in [Slots -> Job]
      /\ Classification \in Slots /\ Slots = Topics \cup {Classification}
  BY <1>1 DEF TypeInv, TypeOK, Slots
<1>3. \A t \in Topics : job[r][t] = NoJob
  BY <1>1, <1>2 DEF Staged, Cleared
<1>4. RecordSuccess(job[r][Classification]) \in Job /\ QueuedJob \in Job
  BY <1>2, JobOperations
<1>5. rows \in [Slots -> Job]
  BY <1>2, <1>4
<1>6. \A s \in Slots : OutcomeOf(rows[s]) = IF s = Classification THEN "DONE"
                                            ELSE IF s \in topics THEN "OPEN" ELSE "NONE"
  <2> SUFFICES ASSUME NEW s \in Slots
               PROVE  OutcomeOf(rows[s]) = IF s = Classification THEN "DONE"
                                           ELSE IF s \in topics THEN "OPEN" ELSE "NONE"
    OBVIOUS
  <2>1. CASE s = Classification
    <3>1. rows[s] = RecordSuccess(job[r][Classification])
      BY <2>1
    <3>2. RecordSuccess(job[r][Classification]).status = "SUCCEEDED"
      BY <1>2, JobOperations
    <3> HIDE DEF rows
    <3> QED
      BY <2>1, <3>1, <3>2 DEF OutcomeOf, Live
  <2>2. CASE s # Classification /\ s \in topics
    <3>1. rows[s] = QueuedJob
      BY <2>2
    <3> HIDE DEF rows
    <3> QED
      BY <2>2, <3>1 DEF OutcomeOf, Live, QueuedJob
  <2>3. CASE s # Classification /\ s \notin topics
    <3>1. rows[s] = NoJob
      BY <1>2, <1>3, <2>3
    <3> HIDE DEF rows
    <3> QED
      BY <2>3, <3>1 DEF OutcomeOf, Live, NoJob
  <2> QED
    BY <2>1, <2>2, <2>3
<1>7. \A s \in Slots : rows[s].user = job[r][s].user
  <2> SUFFICES ASSUME NEW s \in Slots
               PROVE  rows[s].user = job[r][s].user
    OBVIOUS
  <2>1. CASE s = Classification
    <3>1. rows[s] = RecordSuccess(job[r][s])
      BY <2>1
    <3>2. RecordSuccess(job[r][s]).user = job[r][s].user
      BY <1>2, JobEffects DEF SameNumbers
    <3> HIDE DEF rows
    <3> QED
      BY <3>1, <3>2
  <2>2. CASE s # Classification
    <3>1. job[r][s] = NoJob /\ (rows[s] = QueuedJob \/ rows[s] = NoJob)
      BY <1>2, <1>3, <2>2
    <3> HIDE DEF rows
    <3> QED
      BY <3>1 DEF QueuedJob, NoJob
  <2> QED
    BY <2>1, <2>2
<1> HIDE DEF rows
<1>8. Outcomes' = [Outcomes EXCEPT ![r] =
                     [s \in Slots |-> IF s = Classification THEN "DONE"
                                      ELSE IF s \in topics THEN "OPEN" ELSE "NONE"]]
  <2>1. [s \in Slots |-> OutcomeOf(rows[s])] =
           [s \in Slots |-> IF s = Classification THEN "DONE"
                            ELSE IF s \in topics THEN "OPEN" ELSE "NONE"]
    BY <1>6
  <2>2. Outcomes' = [Outcomes EXCEPT ![r] = [s \in Slots |-> OutcomeOf(rows[s])]]
    BY <1>1, <1>2, <1>5, RowsStep
  <2> QED
    BY <2>1, <2>2, Zenon
<1>9. Retries' = Retries
  <2>1. Retries = [q \in Recordings |-> [x \in Slots |-> job[q][x].user]]
    BY DEF Retries
  <2>2. [s \in Slots |-> rows[s].user] = Retries[r]
    BY <1>1, <1>7, <2>1
  <2>3. Retries' = [Retries EXCEPT ![r] = [s \in Slots |-> rows[s].user]]
    BY <1>1, <1>2, <1>5, RowsStep
  <2> QED
    BY <1>1, <2>1, <2>2, <2>3
<1>10. Answers' = [Answers EXCEPT ![r] = topics]
  <2>1. batch[r].topics = {}
    BY <1>1 DEF AllBooked, Booked, Waiting
  <2>2. RegisterTopics(batch[r], topics).topics = topics
    BY <1>1, <1>2, <2>1 DEF RegisterTopics, Batch
  <2>3. \A q \in Recordings : batch'[q].topics = IF q = r THEN topics ELSE batch[q].topics
    BY <1>1, <1>2, <2>2
  <2> QED
    BY <2>3 DEF Answers
<1>11. /\ Alive' = Alive /\ Alive /\ Inputs' = Inputs
       /\ Outcomes[r][Classification] = "OPEN"
  BY <1>1, <1>2 DEF Alive, WorkspaceDeleted, Inputs, Outcomes, OutcomeOf, Live
<1>12. Production!Classify(r, topics)
  BY <1>8, <1>9, <1>10, <1>11, TasksAreSlots
     DEF Production!Classify, Alive, Outcomes, Retries, Answers, Inputs
<1> QED
  BY <1>1, <1>2, <1>12, TasksAreSlots DEF Promised, Production!Next, Production!Resolve

\* The intake accepts a recording.
LEMMA IntakeIsAccept ==
    ASSUME TypeInv, Staged, Cleared, AllBooked, NEW r \in Recordings,
           NEW content \in {"TEXT", "BLANK"}, AcceptCompletedTranscript(r, content)
    PROVE  Promised
<1> DEFINE accepted == [NoBatch EXCEPT !.registration = "WAITING_CLASSIFICATION"]
<1>1. /\ ~WorkspaceDeleted /\ batch[r].registration = "NONE"
      /\ transcript' = [transcript EXCEPT ![r] = content]
      /\ members' = members
      /\ IF content = "BLANK"
         THEN batch' = [batch EXCEPT ![r] = RegisterTopics(accepted, {})] /\ job' = job
         ELSE /\ batch' = [batch EXCEPT ![r] = accepted]
              /\ job' = [job EXCEPT ![r][Classification] = QueuedJob]
  BY DEF AcceptCompletedTranscript, Accepted
<1>2. accepted.topics = {} /\ RegisterTopics(accepted, {}).topics = {}
  BY DEF RegisterTopics, NoBatch
<1> HIDE DEF accepted
<1>3. /\ TypeOK /\ batch \in [Recordings -> Batch] /\ job \in [Recordings -> [Slots -> Job]]
      /\ transcript \in [Recordings -> TranscriptState]
      /\ Classification \in Slots /\ Slots = Topics \cup {Classification}
  BY DEF TypeInv, TypeOK, Slots
<1>4. batch[r] = NoBatch /\ transcript[r] = "NONE" /\ job[r][Classification] = NoJob
  BY <1>1, <1>3 DEF AllBooked, Booked, Staged, Cleared
<1>5. Answers' = Answers
  <2>1. batch[r].topics = {}
    BY <1>4 DEF NoBatch
  <2>2. \A q \in Recordings : batch'[q].topics = batch[q].topics
    BY <1>1, <1>2, <1>3, <2>1
  <2> QED
    BY <2>2 DEF Answers
<1>6. Inputs[r] = "NONE" /\ Inputs' = [Inputs EXCEPT ![r] = "HELD"]
  <2>1. \A q \in Recordings : transcript'[q] = IF q = r THEN content ELSE transcript[q]
    BY <1>1, <1>3
  <2>2. Inputs = [q \in Recordings |->
                    IF transcript[q] \in {"TEXT", "BLANK"} THEN "HELD" ELSE transcript[q]]
    BY DEF Inputs
  <2>3. Inputs' = [q \in Recordings |->
                     IF transcript'[q] \in {"TEXT", "BLANK"} THEN "HELD" ELSE transcript'[q]]
    BY DEF Inputs
  <2> QED
    BY <1>4, <2>1, <2>2, <2>3
<1>7. Alive' = Alive /\ Alive
  BY <1>1 DEF Alive, WorkspaceDeleted
<1>8. CASE content = "BLANK"
  <2>1. Outcomes' = Outcomes /\ Retries' = Retries
    BY <1>1, <1>8 DEF Outcomes, Retries
  <2>2. Production!Accept(r)
    BY <1>5, <1>6, <1>7, <2>1 DEF Production!Accept, Alive, Outcomes, Retries, Answers, Inputs
  <2> QED
    BY <2>2 DEF Promised, Production!Next
<1>9. CASE content # "BLANK"
  <2> DEFINE rows == [job[r] EXCEPT ![Classification] = QueuedJob]
  <2>1. /\ job' = [job EXCEPT ![r] = rows] /\ rows \in [Slots -> Job]
        /\ rows[Classification] = QueuedJob
        /\ \A s \in Slots \ {Classification} : rows[s] = job[r][s]
    <3>1. QueuedJob \in Job
      BY <1>3, <1>4, JobOperations
    <3> QED
      BY <1>1, <1>3, <1>9, <3>1
  <2> HIDE DEF rows
  <2>2. /\ OutcomeOf(QueuedJob) = "OPEN"
        /\ QueuedJob.user = job[r][Classification].user
    BY <1>4 DEF OutcomeOf, Live, QueuedJob, NoJob
  <2>3. Outcomes' = [Outcomes EXCEPT ![r][Classification] = "OPEN"]
    <3>1. Outcomes' = [Outcomes EXCEPT ![r] = [s \in Slots |-> OutcomeOf(rows[s])]]
      BY <1>3, <2>1, RowsStep
    <3>2. Outcomes[r] = [s \in Slots |-> OutcomeOf(job[r][s])]
      BY DEF Outcomes
    <3>3. [s \in Slots |-> OutcomeOf(rows[s])] = [Outcomes[r] EXCEPT ![Classification] = "OPEN"]
      BY <2>1, <2>2, <3>2
    <3> QED
      BY <3>1, <3>3
  <2>4. Retries' = Retries
    <3>1. Retries' = [Retries EXCEPT ![r] = [s \in Slots |-> rows[s].user]]
      BY <1>3, <2>1, RowsStep
    <3>2. Retries = [q \in Recordings |-> [x \in Slots |-> job[q][x].user]]
      BY DEF Retries
    <3>3. [s \in Slots |-> rows[s].user] = Retries[r]
      BY <2>1, <2>2, <3>2
    <3> QED
      BY <3>1, <3>2, <3>3
  <2>5. Production!Accept(r)
    BY <1>5, <1>6, <1>7, <2>3, <2>4 DEF Production!Accept, Alive, Outcomes, Retries, Answers, Inputs
  <2> QED
    BY <2>5 DEF Promised, Production!Next
<1> QED
  BY <1>8, <1>9

\* The retention sweep forgets expired failures, or gives the input up.
LEMMA CleanupIsForget ==
    ASSUME TypeInv, Cleared, NEW c \in Cleaners, Cleanup(c),
           NEW r \in Recordings, cleaner[c] = r
    PROVE  Promised
<1>0. PICK doomed \in SUBSET Slots :
        doomed = {s \in Slots : IsRetentionExpired(job[r][s]) /\ ~\E d \in docs[r] : d.topic = s}
  OBVIOUS
<1> DEFINE jobs == Delete(job[r], doomed)
           left == Delete(jobs, {s \in Slots : jobs[s].status # "ABSENT"})
<1>1. /\ TypeOK
      /\ batch \in [Recordings -> Batch] /\ job \in [Recordings -> [Slots -> Job]]
      /\ transcript \in [Recordings -> TranscriptState]
      /\ members' = members
  BY DEF Cleanup, TypeInv, TypeOK
<1>2. \/ /\ ReleasesInput(r, jobs)
         /\ job' = [job EXCEPT ![r] = left]
         /\ batch' = [batch EXCEPT ![r].released = TRUE]
         /\ transcript' = [transcript EXCEPT ![r] = "DELETED"]
      \/ job' = [job EXCEPT ![r] = jobs] /\ UNCHANGED <<batch, transcript>>
  BY <1>0 DEF Cleanup, ReleaseInput, WithoutExpiredFailures
<1>3. /\ doomed \in SUBSET Slots
      /\ \A s \in doomed : job[r][s].status = "FAILED"
  BY <1>0 DEF IsRetentionExpired
<1>4. /\ \A s \in Slots : jobs[s] = IF s \in doomed THEN DeletedJob ELSE job[r][s]
      /\ \A s \in Slots : left[s] = IF jobs[s].status # "ABSENT" THEN DeletedJob ELSE jobs[s]
      /\ jobs \in [Slots -> Job] /\ left \in [Slots -> Job]
  <2>1. jobs \in [Slots -> Job]
    BY <1>1, DeleteType
  <2>2. left \in [Slots -> Job]
    BY <2>1, DeleteType
  <2> QED
    BY <2>1, <2>2 DEF Delete, DeletedJob
<1> HIDE DEF jobs, left
<1>5. /\ DeletedJob.status = "DELETED" /\ DeletedJob.user = 0 /\ OutcomeOf(DeletedJob) = "GONE"
      /\ NoJob.status = "ABSENT" /\ NoJob.user = 0 /\ OutcomeOf(NoJob) = "NONE"
  BY DEF DeletedJob, NoJob, OutcomeOf, Live
<1>6. Alive' = Alive /\ Answers' = Answers
  <2>1. \A q \in Recordings : batch'[q].topics = batch[q].topics
    BY <1>1, <1>2 DEF Batch
  <2> QED
    BY <1>1, <2>1 DEF Alive, WorkspaceDeleted, Answers
<1>7. /\ Outcomes[r] = [s \in Slots |-> OutcomeOf(job[r][s])]
      /\ Retries[r] = [s \in Slots |-> job[r][s].user]
      /\ Outcomes = [q \in Recordings |-> Outcomes[q]]
      /\ Retries = [q \in Recordings |-> Retries[q]]
  BY <1>1 DEF Outcomes, Retries
<1>8. CASE job' = [job EXCEPT ![r] = jobs] /\ UNCHANGED <<batch, transcript>>
  <2>1. Inputs' = Inputs
    BY <1>8 DEF Inputs
  <2>2. \A s \in doomed : Outcomes[r][s] = "FAILED"
    BY <1>3, <1>7 DEF OutcomeOf, Live
  <2>3. Outcomes' = [Outcomes EXCEPT ![r] = [s \in Slots |-> IF s \in doomed THEN "GONE" ELSE @[s]]]
    <3>1. Outcomes' = [Outcomes EXCEPT ![r] = [s \in Slots |-> OutcomeOf(jobs[s])]]
      BY <1>1, <1>4, <1>8, RowsStep
    <3>2. \A s \in Slots : OutcomeOf(jobs[s]) = IF s \in doomed THEN "GONE" ELSE Outcomes[r][s]
      BY <1>4, <1>5, <1>7
    <3>3. [s \in Slots |-> OutcomeOf(jobs[s])] =
             [s \in Slots |-> IF s \in doomed THEN "GONE" ELSE Outcomes[r][s]]
      BY <3>2
    <3> QED
      BY <1>1, <1>7, <3>1, <3>3
  <2>4. Retries' = [Retries EXCEPT ![r] = [s \in Slots |-> IF s \in doomed THEN 0 ELSE @[s]]]
    <3>1. Retries' = [Retries EXCEPT ![r] = [s \in Slots |-> jobs[s].user]]
      BY <1>1, <1>4, <1>8, RowsStep
    <3>2. \A s \in Slots : jobs[s].user = IF s \in doomed THEN 0 ELSE Retries[r][s]
      BY <1>4, <1>5, <1>7
    <3>3. [s \in Slots |-> jobs[s].user] =
             [s \in Slots |-> IF s \in doomed THEN 0 ELSE Retries[r][s]]
      BY <3>2
    <3> QED
      BY <1>1, <1>7, <3>1, <3>3
  <2>5. Production!Forget(r, doomed)
    BY <1>6, <2>1, <2>2, <2>3, <2>4, TasksAreSlots
       DEF Production!Forget, Alive, Outcomes, Retries, Answers, Inputs
  <2> QED
    BY <1>1, <1>3, <2>5, TasksAreSlots DEF Promised, Production!Next
<1>9. CASE /\ ReleasesInput(r, jobs)
           /\ job' = [job EXCEPT ![r] = left]
           /\ transcript' = [transcript EXCEPT ![r] = "DELETED"]
  <2>1. Inputs[r] = "HELD" /\ Inputs' = [Inputs EXCEPT ![r] = "DELETED"]
    <3>1. transcript[r] \in {"TEXT", "BLANK"}
      BY <1>9 DEF ReleasesInput
    <3>2. \A q \in Recordings : transcript'[q] = IF q = r THEN "DELETED" ELSE transcript[q]
      BY <1>1, <1>9
    <3>3. Inputs = [q \in Recordings |->
                      IF transcript[q] \in {"TEXT", "BLANK"} THEN "HELD" ELSE transcript[q]]
      BY DEF Inputs
    <3>4. Inputs' = [q \in Recordings |->
                       IF transcript'[q] \in {"TEXT", "BLANK"} THEN "HELD" ELSE transcript'[q]]
      BY DEF Inputs
    <3> QED
      BY <1>1, <3>1, <3>2, <3>3, <3>4
  <2>2. \A s \in Slots : \/ job[r][s].status \in {"ABSENT", "DELETED", "FAILED"}
                         \/ job[r][s].status = "SUCCEEDED" /\ s = Classification
    BY <1>3, <1>4, <1>9 DEF ReleasesInput, RequiresInput
  <2>3. /\ {s \in Slots : Outcomes[r][s] \notin {"NONE", "GONE", "FAILED"}} \subseteq {Classification}
        /\ Outcomes[r][Classification] # "OPEN"
    <3>1. \A s \in Slots : \/ Outcomes[r][s] \in {"NONE", "GONE", "FAILED"}
                           \/ Outcomes[r][s] = "DONE" /\ s = Classification
      BY <1>7, <2>2 DEF OutcomeOf, Live
    <3>2. Classification \in Slots
      BY DEF Slots
    <3> QED
      BY <3>1, <3>2
  <2>4. \A s \in Slots : left[s] = IF job[r][s].status = "ABSENT" THEN NoJob ELSE DeletedJob
    <3> SUFFICES ASSUME NEW s \in Slots
                 PROVE  left[s] = IF job[r][s].status = "ABSENT" THEN NoJob ELSE DeletedJob
      OBVIOUS
    <3>1. job[r][s].status = "ABSENT" => job[r][s] = NoJob
      BY <1>1 DEF Cleared
    <3> QED
      BY <1>3, <1>4, <1>5, <3>1
  <2>5. Outcomes' = [Outcomes EXCEPT ![r] = [s \in Slots |-> IF @[s] = "NONE" THEN "NONE" ELSE "GONE"]]
    <3>1. Outcomes' = [Outcomes EXCEPT ![r] = [s \in Slots |-> OutcomeOf(left[s])]]
      BY <1>1, <1>4, <1>9, RowsStep
    <3>2. \A s \in Slots : Outcomes[r][s] = "NONE" <=> job[r][s].status = "ABSENT"
      BY <1>7, <2>2 DEF OutcomeOf, Live
    <3>3. \A s \in Slots : OutcomeOf(left[s]) = IF Outcomes[r][s] = "NONE" THEN "NONE" ELSE "GONE"
      BY <1>5, <2>4, <3>2
    <3>4. [s \in Slots |-> OutcomeOf(left[s])] =
             [s \in Slots |-> IF Outcomes[r][s] = "NONE" THEN "NONE" ELSE "GONE"]
      BY <3>3
    <3> QED
      BY <1>1, <1>7, <3>1, <3>4
  <2>6. Retries' = [Retries EXCEPT ![r] = [s \in Slots |-> 0]]
    <3>1. Retries' = [Retries EXCEPT ![r] = [s \in Slots |-> left[s].user]]
      BY <1>1, <1>4, <1>9, RowsStep
    <3>2. [s \in Slots |-> left[s].user] = [s \in Slots |-> 0]
      BY <1>5, <2>4
    <3> QED
      BY <3>1, <3>2
  <2>7. Production!GiveUpInput(r)
    BY <1>6, <2>1, <2>3, <2>5, <2>6, TasksAreSlots
       DEF Production!GiveUpInput, Alive, Outcomes, Retries, Answers, Inputs
  <2> QED
    BY <1>1, <2>7 DEF Promised, Production!Next
<1> QED
  BY <1>2, <1>8, <1>9

\* A recorded failure gives the task up, unless the automatic retry keeps it open.
LEMMA FailCurrentAttemptPromised ==
    ASSUME TypeOK, NEW r \in Recordings, NEW s \in Slots, NEW attempt, NEW cause,
           NEW onlyExpired, FailCurrentAttempt(r, s, attempt, cause, onlyExpired),
           members' = members, transcript' = transcript
    PROVE  Promised
<1> DEFINE j == job[r][s]
<1>1. CASE UNCHANGED <<job, batch>>
  BY <1>1, UnseenStep DEF Promised
<1>2. CASE j.status = "RUNNING" /\ Transition(r, s, FailedJob(j, cause))
  <2>1. j \in Job
    BY DEF TypeOK
  <2> HIDE DEF j
  <2>2. RecordFailure(j) \in Job /\ RecordFailure(j).status = "FAILED" /\ RecordFailure(j).user = j.user
    BY <2>1, JobOperations, JobEffects DEF SameNumbers
  <2> DEFINE again == RetryAutomatically(RecordFailure(j))
  <2>3. again \in Job /\ again.status = "QUEUED" /\ again.user = j.user
    BY <2>1, <2>2, JobOperations, JobEffects
  <2>4. CASE FailedJob(j, cause) = RecordFailure(j)
    BY <1>2, <2>2, <2>4, FailureIsGiveUp DEF Live, j
  <2>5. CASE FailedJob(j, cause) = again
    <3> HIDE DEF again
    <3>1. OutcomeOf(again) = OutcomeOf(j)
      BY <1>2, <2>3 DEF OutcomeOf, Live
    <3> QED
      BY <1>2, <2>3, <2>5, <3>1, TransitionStep DEF JobRow, Promised, j
  <2> QED
    BY <2>4, <2>5 DEF FailedJob
<1> QED
  BY <1>1, <1>2 DEF FailCurrentAttempt, IsCurrentExecution

\* A claim that starts an execution is not seen; one that finds the job without
\* its input gives the task up.
LEMMA ClaimPromised ==
    ASSUME TypeInv, NEW w \in Workers, Claim(w)
    PROVE  Promised
<1> DEFINE r == worker[w].recording
           s == worker[w].slot
           j == job[r][s]
<1>1. /\ TypeOK /\ r \in Recordings /\ s \in Slots /\ j \in Job
      /\ members' = members /\ transcript' = transcript
  BY DEF Claim, TypeInv, TypeOK, Placed
<1>2. CASE UNCHANGED <<job, batch>>
  BY <1>1, <1>2, UnseenStep DEF Promised
<1>3. CASE IsReady(j) /\ Transition(r, s, RecordFailure(j))
  <2> HIDE DEF j, r, s
  <2>1. /\ RecordFailure(j) \in Job /\ RecordFailure(j).status = "FAILED"
        /\ RecordFailure(j).user = j.user /\ j.status \in Live
    BY <1>1, <1>3, JobOperations, JobEffects DEF SameNumbers, IsReady, Live
  <2> QED
    BY <1>1, <1>3, <2>1, FailureIsGiveUp DEF j
<1>4. CASE IsReady(j) /\ Transition(r, s, StartRunning(j))
  <2> HIDE DEF j, r, s
  <2> DEFINE next == StartRunning(j)
  <2>1. next \in Job /\ next.status = "RUNNING" /\ next.user = j.user /\ j.status = "QUEUED"
    BY <1>1, <1>4, JobOperations, JobEffects DEF SameNumbers, IsReady
  <2> HIDE DEF next
  <2>2. OutcomeOf(next) = OutcomeOf(j)
    BY <2>1 DEF OutcomeOf, Live
  <2> QED
    BY <1>1, <1>4, <2>1, <2>2, TransitionStep DEF JobRow, Promised, j, next
<1> QED
  BY <1>2, <1>3, <1>4 DEF Claim

\* Every step of the pipeline is a step of the promise or not seen by it.
LEMMA NextPromised ==
    ASSUME TypeInv, Staged, Cleared, AllBooked, [Next]_vars
    PROVE  Promised
<1>1. ASSUME UNCHANGED stored
      PROVE  Promised
  BY <1>1, UnseenStep DEF Promised, stored
<1>2. ASSUME NEW w \in Workers, WorkerStep(w)
      PROVE  Promised
  <2>1. ASSUME NEW r \in Recordings, NEW s \in Slots, Dispatch(w, r, s)
        PROVE  Promised
    BY <1>1, <2>1 DEF Dispatch
  <2>2. ASSUME NEW topics \in SUBSET Topics, CompleteClassification(w, topics)
        PROVE  Promised
    BY <2>2, ClassificationIsClassify
  <2>3. ASSUME NEW cause \in Cause, ExecutionFails(w, cause)
        PROVE  Promised
    BY <1>1, <2>3 DEF ExecutionFails
  <2>4. CASE FailAttempt(w)
    <3>1. worker[w].recording \in Recordings /\ worker[w].slot \in Slots
      BY <2>4 DEF FailAttempt, TypeInv, Placed
    <3> QED
      BY <2>4, <3>1, FailCurrentAttemptPromised DEF FailAttempt, TypeInv
  <2>5. CASE Abandon(w)
    BY <1>1, <2>5 DEF Abandon
  <2> QED
    BY <1>2, <2>1, <2>2, <2>3, <2>4, <2>5, ClaimPromised, GenerationIsProduce
       DEF WorkerStep, CompleteExecution
<1>3. ASSUME NEW v \in Recoverers, RecovererStep(v)
      PROVE  Promised
  <2>1. ASSUME NEW r \in Recordings, NEW s \in Slots, ScanExpired(v, r, s)
        PROVE  Promised
    BY <1>1, <2>1 DEF ScanExpired
  <2>2. CASE ExpireAttempt(v)
    <3>1. recoverer[v].recording \in Recordings /\ recoverer[v].slot \in Slots
      BY <2>2 DEF ExpireAttempt, TypeInv, Placed
    <3> QED
      BY <2>2, <3>1, FailCurrentAttemptPromised DEF ExpireAttempt, TypeInv
  <2>3. CASE RecoveryDeferred(v)
    BY <1>1, <2>3 DEF RecoveryDeferred
  <2> QED
    BY <1>3, <2>1, <2>2, <2>3 DEF RecovererStep
<1>4. ASSUME NEW c \in Cleaners, CleanerStep(c)
      PROVE  Promised
  <2>1. ASSUME NEW r \in Recordings, ScanRetention(c, r)
        PROVE  Promised
    BY <1>1, <2>1 DEF ScanRetention
  <2>2. CASE Cleanup(c)
    <3>1. cleaner[c] \in Recordings
      BY <2>2 DEF Cleanup, TypeInv, TypeOK
    <3> QED
      BY <2>2, <3>1, CleanupIsForget
  <2>3. CASE CleanupDeferred(c)
    BY <1>1, <2>3 DEF CleanupDeferred
  <2> QED
    BY <1>4, <2>1, <2>2, <2>3 DEF CleanerStep
<1>5. ASSUME NEW r \in Recordings, RecordingStep(r)
      PROVE  Promised
  <2>1. ASSUME NEW s \in Slots, LimitReached(r, s)
        PROVE  Promised
    <3>1. /\ job' = [job EXCEPT ![r][s] = [job[r][s] EXCEPT !.due = TRUE]]
          /\ UNCHANGED <<members, transcript, batch>>
          /\ job \in [Recordings -> [Slots -> Job]]
      BY <2>1, Zenon DEF LimitReached, TypeInv, TypeOK
    <3> DEFINE k == [job[r][s] EXCEPT !.due = TRUE]
    <3>2. k.status = job[r][s].status /\ k.user = job[r][s].user
      BY <3>1 DEF Job
    <3>3. OutcomeOf(k) = OutcomeOf(job[r][s])
      BY <3>2, Zenon DEF OutcomeOf
    <3> HIDE DEF k
    <3>4. \A q \in Recordings, x \in Slots :
             OutcomeOf(job'[q][x]) = OutcomeOf(job[q][x]) /\ job'[q][x].user = job[q][x].user
      <4>1. \A q \in Recordings, x \in Slots :
               job'[q][x] = IF q = r /\ x = s THEN k ELSE job[q][x]
        BY <3>1 DEF k
      <4> QED
        BY <3>2, <3>3, <4>1
    <3>5. Alive' = Alive /\ \A q \in Recordings : batch'[q].topics = batch[q].topics
      BY <3>1 DEF Alive, WorkspaceDeleted
    <3> QED
      BY <3>1, <3>4, <3>5, SilentStep DEF Promised
  <2>2. ASSUME NEW s \in Slots, RetryJob(r, s)
        PROVE  Promised
    BY <2>2, RetryIsTakeUpAgain DEF TypeInv
  <2>3. CASE CompleteAudioUpload(r) \/ ScheduleAudioDeletion(r)
    BY <2>3, UnseenStep DEF Promised, CompleteAudioUpload, ScheduleAudioDeletion
  <2> QED
    BY <1>5, <2>1, <2>2, <2>3, IntakeIsAccept DEF RecordingStep
<1>6. ASSUME NEW m \in Members, Join(m) \/ Leave(m)
      PROVE  Promised
  <2>1. Outcomes' = Outcomes /\ Retries' = Retries /\ Answers' = Answers /\ Inputs' = Inputs
    BY <1>6 DEF Join, Leave, Outcomes, Retries, Answers, Inputs
  <2>2. Alive' = Alive \/ (Alive /\ Alive' = FALSE)
    BY <1>6 DEF Join, Leave, Alive, WorkspaceDeleted
  <2>3. CASE Alive' = Alive
    BY <2>1, <2>3 DEF Promised, Silent
  <2>4. CASE Alive /\ Alive' = FALSE
    <3>1. Production!DeleteWorkspace
      BY <2>1, <2>4
         DEF Production!DeleteWorkspace, Alive, Outcomes, Retries, Answers, Inputs
    <3> QED
      BY <3>1 DEF Promised, Production!Next
  <2> QED
    BY <2>2, <2>3, <2>4
<1>7. CASE UNCHANGED vars
  BY <1>1, <1>7 DEF vars, stored
<1> QED
  BY <1>2, <1>3, <1>4, <1>5, <1>6, <1>7 DEF Next

\* Under every interleaving of threads, sweeps, members and crashes, with any
\* number of each, the pipeline classifies a recording once, resolves every
\* topic once until a member takes its failure up again, no more often than
\* MAX_USER_RETRIES, and gives the input up only when nothing can come of it.
THEOREM ImplementsProductionCorrect == Spec => ImplementsProduction
<1>1. Init => Production!Init
  <2> SUFFICES ASSUME Init PROVE Production!Init
    OBVIOUS
  <2>1. Alive = TRUE
    BY MembersAssumption DEF Init, Alive, WorkspaceDeleted
  <2>2. \A r \in Recordings, s \in Slots : job[r][s] = NoJob
    BY DEF Init
  <2>3. OutcomeOf(NoJob) = "NONE" /\ NoJob.user = 0
    BY DEF NoJob, OutcomeOf, Live
  <2>4. Outcomes = [r \in Recordings |-> [s \in Slots |-> "NONE"]]
    BY <2>2, <2>3 DEF Outcomes
  <2>5. Retries = [r \in Recordings |-> [s \in Slots |-> 0]]
    BY <2>2, <2>3 DEF Retries
  <2>6. Answers = [r \in Recordings |-> {}]
    BY DEF Init, Answers, NoBatch
  <2>7. Inputs = [r \in Recordings |-> "NONE"]
    BY DEF Init, Inputs
  <2> QED
    BY <2>1, <2>4, <2>5, <2>6, <2>7, TasksAreSlots
       DEF Production!Init, Alive, Outcomes, Retries, Answers, Inputs
<1>2. TypeInv /\ Staged /\ Cleared /\ AllBooked /\ [Next]_vars =>
         [Production!Next]_(Production!promises)
  <2> SUFFICES ASSUME TypeInv, Staged, Cleared, AllBooked, [Next]_vars
               PROVE  [Production!Next]_(Production!promises)
    OBVIOUS
  <2>1. Production!Next \/ Silent
    BY NextPromised DEF Promised
  <2>2. Silent => UNCHANGED Production!promises
    BY DEF Silent, Production!promises, Alive, Outcomes, Retries, Answers, Inputs
  <2> QED
    BY <2>1, <2>2
<1> QED
  BY <1>1, <1>2, TypeCorrect, StagedCorrect, ClearedCorrect, AllBookedCorrect, PTL
     DEF Spec, TypeInv, ImplementsProduction, Production!Spec

=============================================================================
