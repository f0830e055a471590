# Knot: a TLA+ model of the service

Knot records meetings: members of a workspace record on their devices, the browser uploads the
audio and the transcript, and the backend turns each recording into documents with an LLM, asks
the members to confirm them, and deletes what it no longer needs. The backend is a Spring
application on PostgreSQL that may run as several instances; the audio lies in an S3 bucket. The
frontend is a React application with a query cache, a recording store and its own rules about who
may see which screen; three scripts beside it let `claude` commit, review and describe a branch.

This directory holds TLA+ modules of the parts of all these where order matters, TLC runs that
check them on small instances, and TLAPS proofs of what matters most for every instance.
`PROJECT.json` lists the runs, the source lines of each definition, the hazards and the theorems.

    tlc -config MCDocumentGeneration_topics.cfg MCDocumentGeneration     # one run
    tlapm DocumentGenerationProofs.tla                                   # proofs, about five minutes

Paths of sections 3 to 5 are relative to `src/backend/src/main/java/com/knot/backend/`, those of
section 6 to `src/frontend/src/`.

## 1. Inventory

| Component | State it keeps | Operations that change it | Talks to | Status |
|---|---|---|---|---|
| Document generation pipeline (`document/application/DocumentGeneration*`, `document/domain`) | a batch with four counters, a job per topic and one for the classification, documents | intake, dispatch, claim, classification result, generation result, failure, expiry, user retry | LLM (blocking call outside a transaction), workspace row (lock), transcript | modelled |
| Document retention cleanup (`DocumentRetentionCleanupService`, `RetentionCleanupScheduler`) | deletes jobs, classification and transcript | candidate scan, cleanup | pipeline rows, audio retention | modelled |
| Recording audio upload and deletion (`recording/.../RecordingAudio*`, `S3RecordingAudioStorage`) | an upload row, a deletion task with lease and attempts, the object in S3 | issue a URL, confirm, schedule deletion, claim, erase, report | S3, clients holding presigned URLs, the batch's result | modelled |
| Workspace membership (`workspace/`) | members with role and departure, the last workspace viewed, workspace deletion | create, join, transfer ownership, leave, mark as viewed | discards recordings, archives documents, stops generation | modelled |
| Document confirmation and archival (`DocumentConfirmation*`, `DocumentArchivalService`) | a confirmation row per target, archived flag | confirm, departure of a target | result service, leave | modelled |
| Recording session control (`RecordingSession`, `Recording*Service`) | status, control proof, time limits | start, pause, resume, end, discard | intake, upload, leave | modelled |
| Workspace invitations (`WorkspaceInvitation*`) | link and code, preview rate limits in memory | issue, preview, accept | membership | partly: no rate limiter |
| Authentication sessions (`auth/`) | refresh token chain | login, refresh (rotation), logout | browser | not modelled |
| HTTP client (`shared/api/httpClient`) | the CSRF token of the tab | send, ask for the token, send again, fail | all hooks, the server's filter | modelled |
| API and query cache (`shared/api`) | an entry of the query client per key | fetch, poll, mutate, invalidate | HTTP client, all screens | modelled |
| Recording control in the browser (`recordingStore`, `useRecordingControl`, `RecorderBar`) | store, microphone with its recorder, start proof, calls under way | start, pause, resume, end, upload, lost microphone, leave | server sessions, upload URLs, other screens | modelled |
| Entry (`shared/routes`, `useWorkspaceEntry`, onboarding, invitation screens) | the tab's history, cached answers, the code card | guard, redirect, sign up, create, join, log in | server, query cache | modelled |
| Wait for the documents (`RecordingDocuments`) | two cached queries, the last retry | poll, retry, redirect | pipeline through the API | modelled |
| Document screen (`DocumentViewer`) | cached documents and confirmations, the mutation, the copy mark | step, retry, copy, confirm | confirmations through the API | modelled |
| Dock and its hint (`WorkspaceDock`, `useDockHint`) | draft, focus, history entries; two browser storages | type, submit, navigate, press outside; decide, count | other tabs (localStorage) | modelled |
| Panels and records (`DockablePanel`, `WorkspaceSidebar`, `SearchEvidence*`) | peeks, timers, the docked panel, the message named by the address | hover, focus, dock, open records | chat screens | modelled |
| Notion import card (`NotionSyncCard`) | the import that is followed, two timers | start, poll, show the result | server's imports | modelled |
| Commit script (`src/frontend/scripts/commit.mjs`) | git's three trees, a proposal, typed lines | list, propose, revise, approve, add, commit, push | `claude -p`, git, the user | modelled |
| Document scripts (`review.mjs`, `explain-diff.mjs`, `create-pr-content.mjs`) | files named by branch and day, gists | resolve the base, list targets, run, check, publish | `claude -p`, git, gh | modelled |
| Rest of the frontend | none that outlives a screen | rendering | - | not modelled |
| LLM client, read models, controllers, configuration | none | queries | all | environment, or not modelled |
| Tools, harness, operations | - | benchmarks, CI, deployment | - | not part of the service |

What is hard in each, and what makes it correct:

* **Pipeline.** Executor threads of all instances read ready jobs without a lock, claim one in a
  transaction, call the LLM with no transaction open for up to minutes, and report. In between the
  lease may run out and a recovery sweep give the attempt up, the automatic retry may be running
  in another thread, the last member may leave, or the process may die. Correct means: one
  document for a topic and only from the attempt that is current; counters that add up; retries
  that are not spent twice; a batch that ends whatever dies; and a transcript that is there as
  long as somebody may need it.
* **Retention.** Sweeps act on candidates read without locks, and a transaction that throws undoes
  the deletions before it. Correct means: nothing that can still be retried or read is deleted, no
  batch is refused for ever, and what is no longer needed goes.
* **Audio.** The object is not protected by any lock: whoever holds a URL may write it until the
  URL expires and a bit longer, and a deletion thread works outside transactions under a lease.
  Correct means: a confirmed file stays until its deletion is due, and once the deletion is
  recorded the file is gone for good.
* **Membership and confirmation.** Ownership moves, people leave and come back, and a document is
  archived when the last target confirmed or left. Correct means: one owner among the active
  members, and an archived document that is waiting for nobody.
* **Recording control.** Two tabs or devices hold, or believe they hold, the control of one
  recording; in the tab, a click overlaps a call that has not returned, a microphone that is lost or
  a recorder that hands its last chunk over late. Correct means: at most one active recording of a
  member, transitions in order, and of what was recorded everything is uploaded and nothing else.
* **Frontend.** Answers come late, twice, or to a screen that is no longer there; cached answers
  outlive what they say; a failure stands beside older data; timers fire for what is gone. Correct
  means: screens come to show what the server has, a change is made once, late answers move nobody,
  and whoever waits is told.
* **Scripts.** git's trees change while `claude` writes and the user reads, refs may be absent or
  unrelated, and a file of an earlier run lies where this one will write. Correct means: what is
  committed is what was approved, and what is published is the run's own.
* **Sessions.** A refresh whose answer was lost is repeated with the old token. Not modelled.

## 2. Plan

1. `DocumentGeneration`, with its abstract specification `DocumentProduction` and
   `DocumentGenerationProofs` - done.
2. `AudioRetention`, with `AudioLifecycle` and `AudioRetentionProofs` - done.
3. `WorkspaceService` - `Membership`, `Confirmations` and `RecordingSessions` composed into
   transactions - with its abstract specification `WorkspacePromise` and the proofs of both - done.
4. The frontend: ten modules side by side in `Frontend` - done; `HttpClientProofs`, `FrontendProofs`
   which takes them over to `Frontend` and adds the dock, its hint, the import card, the panels, the
   wait for documents, their viewer and the entry, `FrontendQueryProofs` and
   `FrontendRecordingProofs` - done.
5. The scripts: `CommitScript` and `DocumentScripts` over `ClaudeSession`, composed by `Scripts`, with
   `ScriptsProofs` - done.
6. `AuthSession`: refresh rotation under concurrent and repeated requests; `InvitationPreviewLimiter`:
   windows and capacity of the in-memory limiter; `JobClock`: the pipeline's time checks with one
   clock per instance (see `validateFailureTime`).

Each module has a type invariant and the properties of its hazards; where a run checks several
that belong together, the cfg names their conjunction (`SettledStays`, `OneOfEach`, `DockIsSafe`, ...),
and every part has a comment of its own. An operator marked `Fault:` is a way in which the code
could be wrong; put in the place of the definition that follows it, it violates the property that is
there to see it, part by part. A run takes some seconds to four minutes. No module that is proved about declares a RECURSIVE operator.

## 3. Document generation

`DocumentGeneration.tla` models the pipeline and its retention sweep. Every writing transaction
first locks the workspace row (`findIncludingDeletedByIdForUpdate` or `findByIdForUpdate`), so a
transaction is one action; what happens between transactions is a state of its own.

| Variable | In the code |
|---|---|
| `members` | active `WorkspaceMember` rows; `{}` is a deleted workspace |
| `transcript`, `batch`, `job`, `docs` | rows of `transcripts`, `document_generation_batches`, `document_generation_jobs`, `documents` |
| `audio` | the upload row as far as a batch without content asks for its deletion |
| `worker` | what `DocumentGenerationWorker` holds: a dispatched id, then a `DocumentGenerationExecution` |
| `recoverer`, `cleaner` | the candidate a sweep has read and not handled yet |

| Action | Code |
|---|---|
| `AcceptCompletedTranscript` | `DocumentGenerationIntakeService` |
| `Dispatch`, `Claim` | `DocumentGenerationScheduler.dispatchQueued`, `DocumentGenerationClaimService.claim` |
| `CompleteClassification`, `CompleteGeneration` | `DocumentClassificationResultService`, `DocumentGenerationResultService` |
| `ExecutionFails`, `FailAttempt`, `Abandon` | `DocumentGenerationWorker`, `DocumentGenerationFailureService.failAttempt`; a process that stops |
| `ScanExpired`, `ExpireAttempt`, `RecoveryDeferred` | `DocumentGenerationScheduler.recoverExpired`, `DocumentGenerationFailureService.expireAttempt` |
| `RetryJob` | `DocumentGenerationJobRetryService.retry` |
| `ScanRetention`, `Cleanup`, `CleanupDeferred` | `RetentionCleanupScheduler.cleanupExpiredData`, `DocumentRetentionCleanupService.cleanup` |
| `Join`, `Leave` | `WorkspaceInvitationAcceptanceService`, `WorkspaceLeaveService`: who is active, and nothing else |
| `LimitReached` | time: the job's lease, back-off or retention ran out |

The job's own operations (`StartRunning`, `RecordSuccess`, `RetryAutomatically`, ...) and the batch's
(`RegisterTopics`, `RecordJobTransition`, `Refresh`, `ReleaseInput`) are operators, so that a
counter moves exactly when and how the entity moves it. A thread whose result was committed and
whose call nevertheless failed (`ExecutionFails` after `Committed`) reports the failure as the code
does, under `STORAGE_FAILURE`.

**Data left out.** The text of transcripts, topics and documents (a topic is a model value; a
transcript is `TEXT` or `BLANK`), the LLM's validation rules (a failure is `TRANSIENT` or `PERMANENT`,
as `DocumentGenerationRetryPolicy` divides them), and the confirmation rows a result also writes
(section 5).

**Time.** A limit that was written may be reached at any later moment (`due`). Nothing is assumed
about how fast clocks run, so every interleaving of limits, answers and sweeps is explored. Clocks
of different instances that disagree are not in this module (plan, 7).

`DocumentProduction.tla` is the promise to members: a recording is classified once, every topic
ends in one document or one failure, a failure is taken up again a bounded number of times, and the
input is given up only when nothing can come of it. `ImplementsProduction` maps a job's row to its
outcome and hides attempts, leases, threads and sweeps.

### Runs

| Run | Instance | What it asks |
|---|---|---|
| `topics` | 1 recording, 2 topics, 2 threads, 1 sweep of each kind, 1 member | do the counters, the batch's status and the documents agree with the jobs in every order of two jobs; can a cleanup be refused |
| `threads` | 1 recording, 1 topic, 2 threads, 2 recovery and 2 retention sweeps, 2 members | two instances against each other, with members leaving: one execution of an attempt, retry budget, what is settled stays, transcript, deleted workspace, refinement |
| `live` | 1 recording, 1 topic, 1 of each, 1 member, fairness | do batches end, failures go, and inputs without use get deleted |

One recording is enough because batches share nothing but the workspace row and its members, and
the transactions of two batches change disjoint rows. Two topics are the least at which the
counters and the status of a batch can disagree with one of its jobs; two threads, and two sweeps,
the least that can collide. `MaxUserRetries` is 1 (3 in the code): the first retry and the refusal
of the next one both happen. Attempt numbers are bounded by the retries, so nothing else needs a
bound. The system may stop - every batch ended, everybody gone - so deadlock is not an error here.
Threads and topics are interchangeable and declared symmetric in the safety runs only.

### Fairness

`FairSpec` asks for what the schedulers give: polling goes on (`fixedDelay`), takes candidates in
the order of their time limits, and not every attempt at one job dies - strong fairness of dispatch,
claim, scan, expiry and cleanup *of one job or batch*, since other transactions may disable each of
them again and again; weak fairness of a thread that executes, because the LLM call has a timeout,
and of time limits. `Abandon`, `CleanupDeferred`, members, intake and the upload have none: a
thread may die any number of times.

### Proofs

`DocumentGenerationProofs.tla`, for any recordings, topics, members, threads and sweeps and any
retry limits, from the assumptions the module declares on its constants. The argument goes in
layers, each using the ones before:

1. `TypeInv` = `TypeOK /\ Placed`. That no counter goes below zero needs the guard in
   `TransitionAccepted`, that a thread names a job needs `Placed`.
2. `Staged`: jobs of a stage exist only once the batch reached it. Without it a result could meet
   jobs of a batch that was never classified.
3. `NextMoves` states what any step may do to a row (`RowMove`), to a batch (`BatchMove`) and to a
   thread (`ThreadMove`), action by action. The properties follow from it without going through the
   actions again.
4. `RetryBudget`, `JobHistory`, `TopicsFrozen`, `DocumentsMatchJobs` (with the inductive fact that a
   document's attempt is its job's), and `Fenced` with `SingleExecution`: an execution under way
   belongs to an attempt that is over or current, and a queued job's attempt was never executed -
   `SingleExecution` is not inductive without this.
5. `DeletedWorkspaceIsQuiet`; and `SettledStays`, which puts `JobHistory` and `TopicsFrozen` together.

The rest of the module uses one more assumption (`MembersAssumption`: a workspace is created with
its owner):

6. `Booked`, of one recording: the counters are the cardinalities, and at each stage the batch, its
   classification, its topics' jobs and its transcript can only be in the combinations the stage
   allows; in particular `b = Refresh(b)` once topics are registered, and a batch that waits reports
   its classification's status. `BatchIsTrue` is not inductive without this: that a job's old counter
   is positive and that a deleted job stays counted as a failure relates the batch to its jobs. The
   counting is done once, in `CountMove` (one row changes one status) from the library's facts on
   adding an element to a finite set and removing one.
7. `NextBookMove`: for each recording, any step is a stutter, a transition of one job, an intake, a
   classification, an expiry or a release (`BookMove`); each keeps `Booked`. From it, `BatchIsTrue`,
   `InputHeldWhileNeeded` and `CleanupNeverRefused`, the last two with `DocumentsMatchJobs`.
8. `ImplementsProduction`: one lemma per kind of step says which step of `DocumentProduction` it is
   (`FailureIsGiveUp`, `RetryIsTakeUpAgain`, `GenerationIsProduce`, `ClassificationIsClassify`,
   `IntakeIsAccept`, `CleanupIsForget`), or that nothing promised changes (`SilentStep`).

Only model-checked: liveness (`BatchFinishes`, `LeftoversGo`, `ImplementsFairProduction`), as fairness
and ENABLED are out of the prover's reach.

## 4. Audio retention

`AudioRetention.tla` models the upload row, the deletion task, the object in the bucket and the
threads between them. An instant of the code is kept as the time left until it, so
`now.isBefore(t)` is `t > 0`, and `Tick` lets one unit pass for all of them; the state space is finite
without a bound on the clock.

| Variable | In the code |
|---|---|
| `upload[u]` | `RecordingAudioUpload`: status, whether `last_upload_url_expires_at` is recorded, `quiet` (the time `confirmationAfter` will give), what is left of the thirty days, `deleted_at` |
| `task[u]` | `RecordingAudioDeletionTask`: status, attempt, next attempt, lease, confirmation time |
| `noContent` | recordings whose batch is `NO_CONTENT` (`DocumentGeneration`) |
| `object[u]`, `writable[u]` | the bucket, and how long the object may still be written |
| `client[c]`, `worker[w]` | a confirming request and a deletion thread between two transactions |

| Action | Code |
|---|---|
| `Issue` | `RecordingAudioUploadUrlService.issue` |
| `Put` | a client's PUT, external |
| `FindStoredObject`, `CompleteUpload`, `EndRequest` | `RecordingAudioUploadCompletionService` and `...Transaction`: looked up between two transactions |
| `EndWithoutContent` | the batch's result, as `hasNoContentResult` sees it |
| `Schedule` | `RecordingAudioRetentionService.schedule` and `scheduleNoContent` |
| `Dispatch`, `Claim`, `Succeed`, `Fail` | `RetentionCleanupScheduler.dispatchAudioDeletion`, `RecordingAudioDeletionStateService` |
| `DeleteStoredObject`, `DeletionFails`, `Abandon` | `RecordingAudioDeletionWorker`, `S3RecordingAudioStorage`; a process that stops |
| `Tick` | time |

A transaction that writes a task locks the upload row first and refreshes the task after it
(`RecordingAudioDeletionRepositoryAdapter.findTaskForUpdate`), so it is one action. A deletion that
fails may have erased the file or not (the versions of an object are deleted one by one). The
checks of file type and size, the ownership of the recording and the version listing are left out.
`Legacy` uploads were reserved before URL expiry times were recorded, and their URLs may be in use.

`AudioLifecycle.tla` is the promise: a confirmed file is KEPT until it is due, DOOMED once its
deletion was requested, and GONE only when it is not there, after which nobody can store it.

The assumption `InFlight + ExecutionLease <= UploadQuiescence` is the module's own: the code's defaults
(lease 2 minutes, quiescence 30 minutes) satisfy it with room for slow writes, but
`RetentionCleanupProperties.validate` accepts a lease of an hour beside a quiescence of less. It
is what the proof of `GoneForGood` rests on: the last write ends a whole lease before the
confirmation time, so the attempt that erased a file which is back is over by then, and every
later attempt erases it again. `UrlTtl <= LegacyUrlValidity` is S3's limit of seven days.

### Runs

| Run | Instance | What it asks |
|---|---|---|
| `audio` | 1 legacy upload, 2 requests, 2 threads; URL 2, write 1, lease 2, quiescence 3, retention 3; fairness | does a recorded deletion stay one, do late reports and takeovers keep apart, is the lifecycle implemented, is every confirmed upload deleted in the end |

Uploads share no row and no lock, so one is enough, and a legacy upload without a file whose URL is
issued again is from then on what a new one is. The times are the least at which a URL is
issued again before it expires, a write outlives its URL, a lease ends during an erasure and a
back-off doubles; lease and write together are exactly the quiescence, the tightest case the
assumption allows. `MaxAttempts` bounds attempt numbers: from 3 on the number 3 is given again, but
only while no thread holds it, so no state is merged that the code would tell apart. There is no
deadlock to exclude: time always passes.

**Fairness.** Time passes; a thread that has begun ends, one way or another (the storage call has a
deadline of its own); schedules and polls go on; and *some* deletion of an upload is in time and
succeeds. A store that always fails, or a thread that always dies, would keep the task for ever, and
the code promises no more.

### Proofs

`AudioRetentionProofs.tla`, for any uploads, requests, threads and times that satisfy the three
assumptions. `RetentionInv` is stated row by row:

* `UploadOK`, of an upload, its task, its object and its write window: while the file is writable, a
  whole lease lies between the end of writing and the time that is waited for; a confirmed file is
  there until its task is; a succeeded task has no file.
* `ThreadOK`, of a thread, its task and the object: its attempt was given out by the task; if it
  erased the file, is still the current attempt and the file is back, the lease ends before the
  confirmation time.
* `RequestOK`: a request that saw the file of a reserved upload can rely on it, since deletion begins
  only after confirmation.
* `OneCurrentAttempt`: no number is held twice, which `Claim` keeps because its number lies above all
  that are held.

`TaskKept` and `UploadKept` say what a step may do to a row without disturbing those who rely on it;
each action has one lemma. From the invariant follow the theorems `AudioTypeCorrect`,
`GoneForGoodCorrect`, `OneCurrentAttemptCorrect` and `RewritesAreErasedAgainCorrect`, and with it
`ImplementsLifecycleCorrect`: every step is a step of the lifecycle or leaves it alone.
`BackoffCorrect` bounds the back-off of every attempt number, which no run does. Only
`ConfirmedUploadIsDeleted`, liveness, stays with TLC.

Not covered: an upload that is reserved and never confirmed is never a candidate for deletion, so
its file, if it was written, stays; the code has no operation for it.

## 5. The workspace: members, recordings, confirmations

Three modules hold the rows and the steps of their entities: `Membership.tla`,
`RecordingSessions.tla` and `Confirmations.tla`. `WorkspaceService.tla` puts them together into the
transactions of the application services, because a departure takes recordings and documents along.

| Variable | In the code |
|---|---|
| `workspace[w]` | the `Workspace` row: status and `created_at` |
| `member[w][m]` | the latest `WorkspaceMember` row of `m` in `w` |
| `invited` | workspaces with an invitation that is still valid |
| `viewer[v]` | the rows that a request's `FOR UPDATE` has selected and not locked yet |
| `session[m][q]` | the `RecordingSession` that request `q` of `m` started |
| `document[d]`, `target[d]`, `confirmedAt[d][m]` | `Document`, and the `DocumentConfirmation` rows with their times |

| Action | Code |
|---|---|
| `Create`, `Issue`, `Expire`, `Accept` | `WorkspaceService.create`, `WorkspaceInvitationService.issue`, `WorkspaceInvitation.isValidAt`, `WorkspaceInvitationAcceptanceService` |
| `Leave`, `TransferOwnership` | `WorkspaceLeaveService`, `WorkspaceOwnershipTransferService`: the member's rows, `DiscardRecordings`, `ArchiveAfterDeparture` |
| `SelectView`, `MarkView` | `WorkspaceLastViewedService` before and after it gets its locks |
| `Start`, `Pause`, `Resume`, `End` | `RecordingStartService` with its replay, `Recording{Pause,Resume,End}Service` |
| `CompleteGeneration` | `DocumentGenerationResultService` as far as it writes the draft and its targets |
| `Confirm` | `DocumentConfirmationCommandService` with `archiveIfNoPendingTargets` |

Every one of these locks the workspace row before it reads, so it is one action, but for the last
workspace viewed. That one selects the member's active rows, waits for their locks and re-reads
them; meanwhile the member may leave one (the row no longer qualifies), or join and mark another
(a row that was not selected), which the unique index then refuses.

**Clocks.** A transaction may read any instant of `0..MaxTime`: instances have a clock each, and a
clock may be set back. Nothing orders one reading after another except what the code checks, and
each refusal undoes the whole transaction. A leave can still be refused by a clock that is behind
`joined_at` or the creation of a document it would archive; that a *recording* never refuses it is
`DiscardNeverRefused`. `TicksPerMilli` lets instants be finer than the milliseconds that are added up.

**Left out.** Older rows of a member who left (they are never written again and no query that
decides anything sees them), names, secrets and preview of invitations, the content of documents
and their link to a recording. `count(*) = 1` beside the actor's own active row is written
`Crew(w) = {m}`. The tab id and the hash of the control token are one `proof`.

`WorkspacePromise.tla` says what members may rely on, without rows, times or roles: one owner who
goes only by handing over or by closing; a document asks those who were there; and after *every* act
whatever document awaits nobody is archived. The code looks for such documents only where a target
confirms or departs, and only among the drafts that one had not confirmed; `ImplementsPromise` says
this makes no difference.

### Runs

| Run | Instance | What it asks |
|---|---|---|
| `service` | 3 members, 1 workspace, 1 document, 2 instants; and, in behaviours of their own, 1 recording of a lone member, 6 instants, 2 ticks to a millisecond | archival at the right moment whoever leaves, comes back, hands over or confirms, and the refinement; an archived document, a confirmation, an ended recording whose start is repeated and a deleted workspace stay as they are (`WhatIsOverStays`); types, constraints (`RowsAreSound`) and discarding under clocks that jump |
| `recordings` | 2 members, 2 workspaces, 2 requests each, at most 3 recordings; and, in behaviours of their own, 2 viewing requests | one owner, one last viewed workspace, one recording of a member, none left behind where they left (`OneOfEach`) |

Documents share nothing but members, so one is enough; three members are the least at which one
departs, one has confirmed and one is still awaited, and at which a former owner may come back.
Two workspaces are the least in which a member could record, or view, twice. Recordings do not look
at each other's times, and nothing else looks at the times of recordings, so a recording's clock is
explored alone (`DocumentsOrClocks`), with room for two intervals and a pause of each parity, and
everything else with few instants; viewing touches no recording (`RecordingsOrViews`). A workspace
that was deleted stays so: the system stops, and deadlock is no error. No liveness is claimed: what
members do is up to them.

### Proofs

`WorkspaceServiceProofs.tla`, for any workspaces, members, viewers, requests, tabs and documents, any
`MaxTime` and any resolution, from the three assumptions of the modules. First come lemmas that say
what any step may do to one cell - `SessionStep`, `DocumentStep`, and for a workspace `Opened`,
`Joined`, `Departed`, `HandedOver` or `KeptAs` - and which transactions touch which variables; the
properties follow cell by cell.

* `TypeCorrect`, `RowsMeetConstraintsCorrect` (both put together by `RowsAreSoundCorrect`),
  `DiscardNeverRefusedCorrect`: from `SessionStep`. That what
  was added up never exceeds the recording rests on `Millis` rounding down, proved from the
  definition of division.
* `OneOfEachCorrect` puts the next three together: `OneOwnerCorrect` is inductive with the
  type invariant, `OneLastViewedCorrect` needs `SelectedIsActive`: a row that was selected and is still among
  `viewer[v].rows` is active, so the mark never goes to one that was left, and
  `OneRecordingOfAMemberCorrect` goes by `NoneLeftRunning`: after a departure nobody who has left has
  a running recording there.
* `WhatIsOverStaysCorrect` is an action property and needs the type invariant only.
* `DraftAwaitsSomebodyCorrect` needs `Unasked`, that a document that does not exist has no confirmation
  yet. The heart is `Settled`: a step leaves no draft awaiting nobody and archives none awaiting
  somebody.

The last section of `WorkspaceServiceProofs.tla` proves `ImplementsPromiseCorrect` from these: each transaction is one act
of the promise (or a stutter: a repeated confirmation changes nothing *because* a draft awaits
somebody else), and `Settled` gives what the promise calls `Settle`.

Every property of the two runs has its theorem.

## 6. The frontend

Ten modules model what the screens do with answers, timers, storages and the user's hands. The tab
runs one callback at a time, so an action is one callback (an event handler with the effects it
causes, an answer, a timer); what interleaves is what comes between two of them. The server is in
each module as far as the screen can tell, and answers when it likes, late, or not at all.

`Frontend.tla` puts them beside each other. They share no state that any of them models - each has
the entries of the query cache, the history or the server that matter to it - so their steps
commute, and `part` picks the component that moves while the others rest: a sum, with the sum of the
state spaces instead of their product. `Fairness` is the conjunction of the components'.

| Module | Code | State and actions |
|---|---|---|
| `HttpClient` | `shared/api/httpClient` | `csrfToken` of the tab, `cookie`, and for each `call` its stage, the token and cookie it was sent with, how often it was sent and what became of it; `Begin`, `TokenServed`, `TokenLoaded`, `TokenFails`, `Resend` and `Settle` are the interceptors, `Refused` and `Serve` the server, `Lost` the network, `LoginElsewhere` another tab |
| `Api`, `ApiServer`, `QueryClient` | `shared/api` with its query and mutation hooks; the controllers' mappings | every hook as data: method, path, what it carries, its key and what it invalidates; the cache is `entry[k]`, the mounted hooks `observed`, the mutation under way `write`; versions say how new an answer is |
| `RecordingControl` | `recordingStore`, `Microphone`, `useRecordingControl`, the screens that call it | `store`, `mic`, chunks in `audio` and `late`, the start proof in `sessionStorage`; a `call` of the hook stands at one of its awaits; `server[q]` is the session, which answers as `RecordingStartService` and its like do; an end lacks its proof, so the server either refuses it or, for what follows to be looked at, serves it (`BodylessEnds`) |
| `Entry` | `shared/routes`, `EntryRedirect`, `useWorkspaceAccessGuard`, onboarding, invitation and code screens | the tab's `history`, `cache`, the code card, mutations under way in `requests`; the server's `session`, `spaces` and `valid` invitations change meanwhile |
| `RecordingDocuments` | `modules/widgets/recording/RecordingDocuments` | the cached `detail` and `list`, the last `retry`, the server's `recording` and `documents` |
| `DocumentViewer` | `DocumentViewer`, `useConfirmDocument`, the copy button | the cached `page`, `members` and `list`, `confirming`, `copy`; documents go and come (`offered`) |
| `DockHint` | `useDockHint` | `seen` in localStorage, the decision of each `tab` in sessionStorage; storages that work, are full or are blocked |
| `WorkspaceDock` | `WorkspaceDock`, `useWorkspaceDock`, `useTypingShortcut` | `message`, `focus`, `isExpandedByUser` and the history entries with the question they carry |
| `WorkspacePanels` | `DockablePanel`, sidebar, `SearchConversation` and its records | `peek`, `timer`, `picked`, `expanded` folders, the message named by the address |
| `NotionSync` | `NotionSyncCard`, `useNotionSync` | the import that is followed, the cached states, two timers; the imports are the server's (`runs`) |

`Api` and `ApiServer` are two translations, of the client's hooks and of the backend's controllers;
`RequestsMeetContract` compares them request by request, with what each requires in the path, the
query, the body and the cookies, with one exception: the end of a recording (`AwaitsItsProof`).

**Data left out.** Texts, titles and layout. A draft, a code, a document is a number; an answer is what
it decides. The time a query stays fresh is a nondeterministic choice, as is the outcome of a
permission dialog.

### Runs

| Run | Components | What it asks |
|---|---|---|
| `frontend_tab` | requests, queries, recorder, entry | what talks to the server: `RequestsAreSafe`, `QueriesAreTrue`, `RecordingIsSafe`, `EntryIsSafe` |
| `frontend_screens` | organizing, viewer, hint, dock, panels, sync | what stays on the page: `OrganizingIsSafe`, `ViewerIsSafe`, `HintIsSafe`, `DockIsSafe`, `PanelsAreSafe`, `SyncIsSafe` |
| `frontend_live` | requests, queries, recorder, entry, fairness | `JourneysEnd`: calls settle, polling ends, an end of a recording is settled, a lost microphone is shown, guards lead members in and nobody in circles, unless the session of a user the page knows ends |
| `frontend_ends` | organizing, viewer, panels, sync, fairness | `ScreensSettle`: waiting, confirming, floating and the result of an import come to an end |
| `login` | entry | a violation, below: `LoggedOutStays` |

Bounds of the two safety runs, and why: 2 changing calls and 3 tokens (two calls ask for a first token at
once, and a third token makes the second stale); eight screens in turn, which between them use every hook
of `shared/api` (a document, the lists, the workspace, entering, joining, a recording with all that its
control sends, chats, the Notion import), with 1 or 2 changes and up to 2 failures each; 2 slots for calls
of the recording hook, 2 requests, 2 segments, 2 faults (a call overlapped by another, a second recording
after a first, a segment of each), three users (who waits for answers; who does not, but for a start; who
starts while an end is under way); visits by address and by invitation with 3 workspaces, 2 codes, 1
failure; 2 generations and 2 failures of a recording with two documents or none; 2 documents, 3 steps; 4
visits in 2 tabs, which may decide at once, with at most 3 that show the hint, and a storage that works,
is full or is blocked; 2 drafts and a history of 3; the example chat of `useSearchMessages`, folders
within folders and one without its parent; 2 imports, 2 failures. The liveness runs have smaller ones,
since every cycle is looked at: one request or recording, one failure, one move; `frontend_live` has the
recording's screen with 4 failures between two polls.

`RecordingIsSafe` distinguishes users. Of every user: without a recording, and none about to be made, the
microphone is off, and an upload is of one session. Of who starts no recording while another call is under
way (`StartsAlone`), however the other calls overlap: the upload is of its own session, ended by one call,
and the recording is dropped only when its session is over or with the page; two answers alone may cost
others the recording. Of who waits for every answer (`overlap = {}`): all that was recorded is uploaded,
and screen, recorder and server agree. What fails for the others is listed below. The end carries no
proof, and the backend refuses it with 400, so in the product as it is no recording gets beyond that
request; `BodylessEnds` looks at both servers, this one and one that serves the end, since without the
second nothing after it would be checked.

**`login`, a divergence.** `GuestGuard`'s comment says that where the check of the user fails, the login screen
is left as it is. It goes by the data of `useMeQuery` alone, `AuthGuard` and `EntryRedirect` by its
error; when the session of a user whom the page knows ends, the query client holds both, the login screen
sends to the entry page, and that sends back to the login. `RedirectsEnd` excludes exactly this
(`Contradicted`); in every run that has `entry`, the session may end between any two requests (`logout`).

**Fairness.** The client's requests have a timeout (ten seconds), so a request is answered or fails;
queries poll while they ask to; effects run before the next event of the user (the loss of a
microphone is told by one of them, whichever call slot the model gives it); timers fire. Nothing
is assumed of users, of other tabs, or of faults beyond their number.

### Proofs

`HttpClientProofs.tla`, for any calls, statuses and number of tokens: `HttpInv` says of every call
that its stage agrees with its count of sendings and its outcome, that nothing was applied before
an answer of 200, and that tokens only grow old: whichever token was refused is older than the one
the call goes on with. `AppliedOnceCorrect` and `StaleTokenIsForgivenCorrect` follow from it; neither
is inductive alone, since a call that is sent again may be refused, lost or applied.

`FrontendProofs.tla` takes them over to the composition: every behaviour of `Frontend` is one of the
client, moving or resting (`FrontendIsHttpClient`), and so `RequestsAreSafeCorrect`. It then proves
seven more bundles, each from an invariant of its own that every step of the frontend keeps:

* `DockIsSafeCorrect`, for any drafts and history. `DockInv` adds to the three properties that every
  question in the history has been asked (`DockQuestionsAreAsked`), so that no draft is one, and a
  push which cuts the history off behind the entry on screen, or a new chat which rewrites it,
  disturbs no question before it.
* `SyncIsSafeCorrect`, for any number of imports and failures. `SyncInv` adds to the two properties
  that a cached end is the end of that import (an end is final, so the cache cannot be wrong however
  late it was read), and that an answered start names an import.
* `HintIsSafeCorrect`, for any limit, visits and tabs. `HintTabInv` relates what a tab has decided to what
  the page has shown; `HintInv` adds that, unless two tabs have raced, one at most is about to write
  and the count in storage is the number of visits with the hint while storage works, and that these and the visits still without
  it (`Unseen`, a set whose size the proof counts) are no more than the visits. The theorem has no
  hypothesis; the limit itself makes two exceptions, in which the code exceeds it: once two tabs have
  decided at the same moment (`raced`), and with a storage that can be read and not written
  (`NotWithoutStorage`). `HintBehaves` is the part without exceptions.
* `PanelsAreSafeCorrect`, for any chat, history and folders. `PanelsInv` is that a panel which peeks has
  the pointer, the focus or its timer; that the one button drawn as open is of an answer on screen
  follows from the ids of messages being different (`PanelsAssumption`), counted as a cardinality.
* `OrganizingIsSafeCorrect`, for any results, sequences of documents, retries and failures.
  `OrganizingInv` says that a completed recording is completed for good and keeps its documents,
  so that the list is asked for only when it is final and shows them (`list.data = documents`), and
  that a timer asks only for a recording that was known. The type invariant alone says nothing of what
  a late answer to the list may hold.
* `ViewerIsSafeCorrect`, for any documents, copies, members and lost answers. That a confirmed document
  is not offered for confirmation again is not inductive: a page that was fetched before says nothing of
  it. `ViewerSure` adds that the page of a confirmed document on screen says so, is unavailable or refused to
  who is logged out, or that its being asked for again is what the confirmation waits for. `ViewerCopy` and `ViewerMembers` tie the mark
  and the notice to the document and to the server's answer. That the stepper's neighbour is the neighbour on
  the server rests on a lemma about sequences: every set of documents has its sequence in the server's
  order (`InOrder`), shown from a set without one that has the least number of members.
* `EntryIsSafeCorrect`, for any workspaces, credentials, visits and lengths of the history. `EntryTick` says
  what the tick of a code stands on: an answer for this code that no one is asking for again, since the field is
  locked, the window's refetch leaves the preview out, and the key is only observed by this screen.
  `EntryKnown` says that what any cached preview holds is the workspace of its own credential, so that no
  location can be made that names another (`EntryPlaces`), and `EntryRequests` that a request which is
  still listened to belongs to the screen that is shown.

`FrontendQueryProofs.tla` proves `QueriesAreTrueCorrect`, for every screen that can be put together of the
hooks of `shared/api` with any of the ids `ApiIds`, any versions and failures. First come lemmas about
the client's data: which paths and keys a hook has (`PathsAndKeys`), that a key belongs to one request, and
that whatever a mutation changes on the server is shown by queries whose keys its invalidations
begin (hook by hook; this is what a forgotten `invalidateQueries` would break). `QueryInv` then follows
an entry: what it holds, or is fetching, is the answer to what its key asks for, and once a mutation
settled, every query it changed that was on screen holds its version or will, when it is idle without
an error (`Catches`). The theorem has no hypothesis; the properties make two exceptions. `LeavesStale`: the
note of the workspace viewed last, and the start of an import, invalidate nothing, so lists and the tree
of pages beside them may stay as they were. `AwaitsItsProof`: the end of a recording is sent without
the body that `docs/api/recording-end.md` asks for. Both name hooks, not screens: all other requests of
the same screen are held to the contract.

`FrontendRecordingProofs.tla` proves `RecordingIsSafeCorrect`, for any workspaces, calls under way, requests,
segments, faults and users, without a hypothesis. `AllInv` is in three layers. `TabInv` is of every user,
whatever overlaps: the types; what a call was told of its session is so (`TabCall`); whoever waits for the
microphone is there when it comes, so that it is not left on (`TabMic`); and chunks and recorder are of
the session in the store (`RecAudio`), so that no upload mixes two.
`RecInv` holds as long as no start began beside another call. Its `CallIs` relates a call to the store
and the server: it is of the recording in the store or of one that has left it, an end has marked the
store as ending, and from the stage in which the recorder stops the session is over, which is why closing
the recording drops nothing that still runs; `RecStore` says that the proof in sessionStorage is the one
that began the store's session; `RecSegments` that a new proof has no session and no segment yet. The third layer
is of the patient user: one call at a time (`PatientCalls`), a recorder that does what the store says
until an end has stopped it (`PatientMic`), every segment of the session in the chunks, with the recorder
or in the upload (`PatientAudio`), and, as long as nothing failed, the state each stage of each call has
brought the session to (`PatientServer`). One lemma per action keeps all of it.

Constants are assumed to be what the code makes of them: `QueryClientAssumption` that a screen uses hooks
that exist (with the ids `ApiIds`), `PanelsAssumption` that messages have different ids and an answer
with evidence follows a question, `HintAssumption` that limits are numbers,
`RecordingControlAssumption` that finitely many calls are under way, `DocumentViewerAssumption` that there
is a document and each has one place in the list, `EntryAssumption` that ids of workspaces are numbers from
one and each credential is for one workspace.

Not proved, and checked by TLC alone, is what is said under fairness (`JourneysEnd`, `ScreensSettle`): the
prover has no rule for `ENABLED`.

### What the comments say and the code does not do

Modelling the frontend showed places where a comment promises more than the code keeps. The properties
below are stated in the modules and, but for `LoggedOutStays`, not checked by a run, which would fail; to
see a counterexample, name the property in a cfg beside the component's `part` (through its instance in
`Frontend`), with the constants named here.

* Requests and queries (`QueryClient`): `AllOnScreenAskedAgain` - an invalidation does not restart a
  first fetch that is under way, so confirmations read before a confirmation stay
  (`useConfirmDocumentMutation/index.ts:15`); `NothingToInvalidate` - the list of workspaces is read from the
  cache after all (`useUpdateLastViewedWorkspaceMutation`).
* Recording (`RecordingControl`): `EndCarriesProof` - the end is sent without the proof that
  `docs/api/recording-end.md` asks for; `StartsIntoOpenSession` - a repeated start may be answered with a
  session that is over; `EverythingIsUploaded` - an impatient pause answered 409 after the end drops the audio;
  `DroppedOnlyWhenOver` without the exception for who does not start alone - the microphone button stays
  enabled while a start is under way, and if a second press fails, `startRecording`'s `catch` discards the
  recording that the first one began; so does the end of a call of the recording before. Nor does that
  user have `OneEnd`.
* Entry (`Entry`): `LoggedOutStays` (run `login`), and with it `RedirectsEnd` without its exception, once
  `logout` is in `elsewhere`; `RetryIsForOtherFailures`, `OnlyStrangersAreSentAway`, `ReloadForgetsTheNickname`.
* Waiting (`RecordingDocuments`): `RetryComesBack`, `ConflictShowsTheServer` - the check after a refused retry
  is made once, and kept if the recording has failed again by then.
* Documents (`DocumentViewer`): `GoneIsHidden`, `SpinnerIsOfThisDocument`, `ConfirmedOnce` - a later error
  replaces the one that hid a document, and the confirmation belongs to the screen.
* Hint (`DockHint`): `HintLimit` without either of its exceptions (two tabs write the same count, or nothing
  can be written), `NotAgainInVisit` (a reload shows it again), `NotWithoutStorage` with a storage that is full.
* Dock and panels: `QuestionIsTaken` (on a chat screen the question is emptied), `ControlsKeepTheirKeys`
  (the space bar on a button), `TreeStaysOpen` (docking draws the sidebar anew).
* Import (`NotionSync`): `AcceptedIsTracked` - joined again after a failed poll, an import is forgotten.
* Scripts (next section): `StagedCanBeAdded`, `LeftoverStays`, `ReportIsTrue`, `PushesWhatWasShown`,
  `ApprovalFollowsTheProposal` of `CommitScript`; `ReviewIsFresh`, `PublishesItsOwnPage`,
  `LocalPathsAreReported`, `NothingOfOthers` of `DocumentScripts`: review and create-pr-content take the file
  or page that an earlier run left, and a path of another day stays in a text; `ExitTellsWhy`, once a session
  may end in more ways than `SomeEndings`.

## 7. Scripts

`ClaudeSession.tla` is what all scripts do alike, each in its own copy: run `claude -p` and tell from how it
ended which exit code to give. `CommitScript.tla` models `commit.mjs` over git's three trees `head`, `index` and
`tree` of a few paths: the script lists changes, lets `claude` propose a split, checks it, asks, and
after a `y` adds and commits group by group and pushes if asked to. `typed` holds the lines the user
has typed and the script has not read. `DocumentScripts.tla` models `review.mjs`, `explain-diff.mjs` and
`create-pr-content.mjs`: the base that a branch is compared with (local, fetched or none), the files
they take, the pages and gists they write, with the author of each, so that a file of an earlier run
can be told from its own.

`Scripts.tla` puts them side by side: a behaviour is one of the commit script or one of runs of the document
scripts, in a situation, a name for bounds on what starts and steps may be. `MCScripts.tla` gives
the constants and four situations. `Trees`: two files in every combination of head, index and working tree, one
proposal, one line; which content is called "1" makes no difference, so the starts are one of each
pair that differs in it alone. `Talk`: one changed file and one that may be new, two rounds, three
lines typed at any time, one edit while `claude` writes. `Bases`: one review over every relation of
local, remote and server's develop to the branch, up to unrelated histories, with a fetch that may
fail. `Pages`: an explanation and a PR text, one after the other or at once, on two days. Two paths
are the least in which a rename has an old and a new one; two runs the least in which one meets the
other's files.
The run `scripts` checks `ScriptsAreSound` and `TouchesOnlyApproved`. The first says that what is committed is
what was approved; that no script leaves a change out or takes a commit of develop for the branch's; that
explain-diff, alone, ends well only with a page of its own run; and that a PR text names no local path of
its day's page. It says nothing of the stale files that create-pr-content and review may take (section
6, last list). `TouchesOnlyApproved` looks at every single `git add` and `git commit`; the old name of an
approved rename counts as approved, so a new file that lies there is committed with it. Scripts end, so deadlock is no error.

`ScriptsProofs.tla` proves both (`ScriptsAreSoundCorrect`, `TouchesOnlyApprovedCorrect`) for any files and
contents, proposals of one or two commits, messages, rounds, lines and edits, any repositories, days and
ends of a session, any number of runs that overlap or not, and any situations. It rests on two
invariants, one for each part of the composition.

* `CommitInv` says of the listed changes that a path is one change's, and so is the old name of a
  rename (`OneNameEach`; git pairs a rename's names one to one, `RenamedOnce`), of a proposal and of
  what was approved that each commit has changes and no two commits share one (`Sound`, shown of
  `validate` in `ValidatedIsSound`), and how far the script is: nothing is approved before the answer, and only the
  end of the last commit leads on (`Stage`). As long as no file is edited, the paths of each commit
  made are the same in all three trees (`MadeStays`), which a later `git add` or `git commit --only`
  leaves so, as it takes them from the same working tree. That a finished run has committed all is not
  inductive without these.
* `DocumentInv` says that a run has not done what it has not come to (`RunsAre`), that runs which may not
  overlap are under way one after the other (`OneAtATime`), and that the day's page, once removed,
  is nobody's or the session's own (`PageIsOwn`), beside the properties themselves.

The proof showed that `ComparesOwnCommits` needs a condition that the bounds of `Bases`, with its one run,
had hidden: another run's fetch may bring commits to `origin/develop` after the base was chosen.
`FetchedLast` says so, and the property is stated of runs that no other can have fetched after.

## 8. What is not modelled, and why

* Database locks are taken as given: a transaction that locks first is atomic. Lock timeouts and
  deadlocks end a transaction without effect, which `Abandon`, `RecoveryDeferred`, `CleanupDeferred`
  and `EndRequest` stand for.
* The candidate limits of the sweeps (a page of candidates that always fail would starve the rest)
  are left to fairness; `CleanupNeverRefused` excludes the refusal the code could cause itself.
* Clocks of two instances apart: `validateFailureTime` of a generation job and `Document`'s archival
  refuse a time before the row's own. The transaction is undone and tried again by the sweep, or
  refused to the member; how long depends on the clocks. Recordings' clocks are modelled
  (`DiscardNeverRefused`).
* `RecordingAudioDeletionStateService` shifts 60 seconds by the attempt number: its arithmetic is
  proved bounded (`BackoffCorrect`) and not run. That it refreshes the task it read before the lock is
  part of the actions, which read under the lock.
* Authentication sessions: the refresh rotation cannot tell a repeated request from a stolen token,
  which is its design; the background check of `AuthGuard` and the token's renewal in the client
  (a 401 is final there) are modelled as a session that ends at any time.
* The rate limiter of invitation previews: a counter in memory of each instance.
* Reports of the last viewed workspace that overtake each other: the server takes the last to arrive,
  and nothing says which was sent first.
* The rest of the frontend draws what it is given: pages, primitives, markdown, dates, the mock server
  of the development build.
* Hashing and encryption of secrets, OAuth, serialisation, LLM prompts and their validation, CI,
  deployment and the Discord assistant have no behaviour a model checker could add to.
