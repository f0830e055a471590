------------------------- MODULE RecordingDocuments -------------------------
(***************************************************************************)
(* The screen that waits for the documents of a recording: it polls the      *)
(* recording, offers to retry a failed generation, and sends on to the first *)
(* document, to the recording screen, home or to the login.                  *)
(*                                                                          *)
(* The screen knows the server by two cached queries, which keep their data  *)
(* beside a later error, and by the answer to the last retry.                *)
(***************************************************************************)
EXTENDS Naturals, Sequences

CONSTANTS
    Results,     \* what becomes of a recording: statuses at which processing ends
    Made,        \* the sequences of documents that processing may make
    MaxRuns,     \* how often the documents are generated      (bound)
    MaxFaults    \* requests and answers lost                  (bound)

RecordingDocumentsAssumption ==
    /\ Results \subseteq {"COMPLETED", "NO_CONTENT", "FAILED"}
    /\ Made \subseteq Seq(Nat \ {0}) /\ MaxRuns \in Nat /\ MaxFaults \in Nat

VARIABLES
    recording,  \* the server's recording: its status, and the stage that failed
    documents,  \* the documents made from it, as the server orders them
    session,    \* whether the cookies are those of a session
    store,      \* the status of the recording that this page makes itself
    screen,     \* the screen at the address, and the document it names
    behind,     \* whether the history has this screen before the one shown
    detail,     \* the cached recording
    list,       \* the cached list of its documents
    retry,      \* the mutation that retries the generation
    runs, faults

server == <<recording, documents, session, runs>>
vars == <<recording, documents, session, store, screen, behind, detail, list, retry,
          runs, faults>>

NoStage == "none"
Stages == {NoStage, "TRANSCRIPTION", "DOCUMENT_GENERATION"}
Recordings ==
    [status: {"RECORDING", "PAUSED", "ENDED", "PROCESSING"} \cup Results, failureStage: Stages]

At(place) == [at |-> place, document |-> 0]
RecordingDocumentsOf == At("recording documents")   \* the recordingId of the address is fixed
Recording == At("recording")
Document(d) == [at |-> "document", document |-> d]
Home == At("home")
Login == At("login")

-----------------------------------------------------------------------------
(* The two queries *)

Errors == {"none", "unauthorized", "refused", "other"}    \* refused: 400, 403, 404
Unknown == <<>>
Empty == [known |-> FALSE, data |-> Unknown, error |-> "none", fetch |-> "idle", got |-> Unknown,
          by |-> "screen"]    \* what made the request under way

\* A request under way is shared, unless it is cancelled for a newer one; data
\* survive a new request together with the error beside them.
Start(e) == [e EXCEPT !.fetch = "sent", !.got = Unknown, !.error = IF e.known THEN @ ELSE "none"]
ByTimer(e) == [Start(e) EXCEPT !.by = "timer"]
Asked(e) == IF e.fetch = "idle" THEN Start(e) ELSE e
Refetched(e) == IF e.known THEN [Start(e) EXCEPT !.by = "screen"] ELSE Asked(e)
Failed(e, error) == [e EXCEPT !.error = error, !.fetch = "idle", !.got = Unknown, !.by = "screen"]
Succeeded(e) == [Empty EXCEPT !.known = TRUE, !.data = e.got]

IsClientError(error) == error \in {"unauthorized", "refused"}
IsUnrecoverableLoadError(e) == IsClientError(e.error)
IsUnauthorized(e) == e.error = "unauthorized"

\* Fault: asks again even if there was never an answer.
PollsUnanswered(e) ==
    IF e.known THEN ~IsUnrecoverableLoadError(e) /\ e.data.status \in {"ENDED", "PROCESSING"}
    ELSE e.error # "unauthorized"
\* Fault: an error of any kind ends the polling.
PollsUntilError(e) == e.error = "none" /\ e.known /\ e.data.status \in {"ENDED", "PROCESSING"}
\* refetchInterval of the recording
Polls(e) ==
    /\ e.known
    /\ ~IsUnrecoverableLoadError(e)
    /\ e.data.status \in {"ENDED", "PROCESSING"}

-----------------------------------------------------------------------------
(* What the screen makes of them *)

ViewStatusByRecordingStatus ==
    [RECORDING |-> "recording", PAUSED |-> "recording",
     ENDED |-> "organizing", PROCESSING |-> "organizing",
     COMPLETED |-> "completed", NO_CONTENT |-> "noContent", FAILED |-> "failed"]

IsLoadFailed ==
    /\ ~IsUnauthorized(detail)
    /\ IsUnrecoverableLoadError(detail) \/ (~detail.known /\ detail.error # "none")

ViewStatus ==
    CASE IsLoadFailed -> "loadFailed"
      [] ~IsLoadFailed /\ ~detail.known -> "loading"
      [] OTHER -> ViewStatusByRecordingStatus[detail.data.status]

\* A job to retry, which the server names when that stage failed.
HasRetryJob == ViewStatus = "failed" /\ detail.data.failureStage = "DOCUMENT_GENERATION"
IsRetryRejected == retry.error \in {"conflict", "missing"}
IsRetrying == retry.stage \in {"sent", "handled", "refreshing"}
RetryOffered == HasRetryJob /\ ~IsRetryRejected

\* Fault: the list is asked for from the start.
ListAlwaysEnabled(status) == TRUE
ListEnabled(status) == status = "completed"

IsDocumentListSettled == list.known \/ (list.error # "none" /\ ~IsUnauthorized(list))

\* Where the effects of the screen send it, if anywhere.
ToLogin ==
    IF IsUnauthorized(detail) \/ retry.error = "unauthorized" \/ IsUnauthorized(list)
    THEN {Login} ELSE {}
Onwards ==
    CASE ViewStatus = "recording" -> {Recording}
      [] ViewStatus = "completed" /\ list.known /\ list.data # <<>> -> {Document(Head(list.data))}
      [] ViewStatus = "completed" /\ ~(list.known /\ list.data # <<>>) /\ IsDocumentListSettled -> {Home}
      [] OTHER -> {}
RecordingEntryGuard == IF store = "idle" THEN {Home} ELSE {}

Sends(place) ==
    CASE place = RecordingDocumentsOf -> IF ToLogin # {} THEN ToLogin ELSE Onwards
      [] place = Recording -> RecordingEntryGuard
      [] OTHER -> {}

Shown == screen = RecordingDocumentsOf
\* Effects have run before the next event of the browser.
Open == Shown /\ Sends(screen) = {}
\* What is drawn at a status, and the buttons it has.
DraftingState == {}
NothingToOrganizeState == {"home"}
LoadFailedState == {"load again"}
DocumentFailedState ==
    IF RetryOffered THEN (IF IsRetrying THEN {} ELSE {"generate again"}) ELSE {"home"}
Buttons ==
    CASE ViewStatus = "noContent" -> NothingToOrganizeState
      [] ViewStatus = "failed" -> DocumentFailedState
      [] ViewStatus = "loadFailed" -> LoadFailedState
      [] OTHER -> DraftingState

NoRetry == [stage |-> "idle", outcome |-> "none", error |-> "none"]

-----------------------------------------------------------------------------

EntryOf(data) ==
    [known: BOOLEAN, data: data \cup {Unknown}, error: Errors, fetch: {"idle", "sent", "read"},
     got: data \cup {Unknown}, by: {"screen", "timer"}]

TypeOK ==
    /\ recording \in Recordings
    /\ documents \in Made \cup {<<>>}
    /\ session \in BOOLEAN /\ behind \in BOOLEAN /\ store \in {"idle", "recording"}
    /\ screen \in [at: {"recording documents", "recording", "document", "home", "login"}, document: Nat]
    /\ detail \in EntryOf(Recordings) /\ (detail.known => detail.data # Unknown)
    /\ list \in EntryOf(Made)
    /\ retry \in [stage: {"idle", "sent", "handled", "refreshing", "checking"},
                  outcome: {"none", "ok", "conflict", "unauthorized"},
                  error: {"none", "conflict", "missing", "unauthorized", "other"}]
    /\ (retry.stage = "checking" => retry.error = "conflict")
    /\ runs \in 0..MaxRuns /\ faults \in 0..MaxFaults

Init ==
    /\ recording \in [status: {"RECORDING", "PAUSED", "ENDED", "PROCESSING"}, failureStage: {NoStage}]
    /\ documents = <<>> /\ session = TRUE
    /\ store = "idle" /\ behind = FALSE
    /\ screen = RecordingDocumentsOf
    /\ detail = Start(Empty) /\ list = Empty
    /\ retry = NoRetry
    /\ runs = 0 /\ faults = 0

-----------------------------------------------------------------------------
(* The server *)

Ends ==
    /\ recording.status \in {"RECORDING", "PAUSED"}
    /\ recording' = [recording EXCEPT !.status = "ENDED"]
    /\ UNCHANGED <<documents, session, runs, store, screen, behind, detail, list, retry, faults>>

Starts ==
    /\ recording.status = "ENDED"
    /\ recording' = [recording EXCEPT !.status = "PROCESSING"]
    /\ UNCHANGED <<documents, session, runs, store, screen, behind, detail, list, retry, faults>>

Finishes(result, stage, made) ==
    /\ recording.status = "PROCESSING"
    /\ (result = "FAILED") = (stage # NoStage)
    /\ (result = "COMPLETED") \/ made = <<>>
    /\ recording' = [status |-> result, failureStage |-> stage]
    /\ documents' = made
    /\ UNCHANGED <<session, runs, store, screen, behind, detail, list, retry, faults>>

\* Whether the job may be retried: it failed, and its input is kept.
CanRetry == recording = [status |-> "FAILED", failureStage |-> "DOCUMENT_GENERATION"] /\ runs < MaxRuns
Restarts == recording' = [status |-> "PROCESSING", failureStage |-> NoStage] /\ runs' = runs + 1

\* By another member, or in another tab.
RetriedElsewhere ==
    /\ CanRetry /\ Restarts
    /\ UNCHANGED <<documents, session, store, screen, behind, detail, list, retry, faults>>

SessionEnds ==
    /\ session /\ faults < MaxFaults
    /\ session' = FALSE /\ faults' = faults + 1
    /\ UNCHANGED <<recording, documents, runs, store, screen, behind, detail, list, retry>>

-----------------------------------------------------------------------------
(* Requests.  A list that comes to be enabled is asked for at once; what waits *)
(* for the recording goes on with whatever the recording is by then.           *)

\* Clears the rejection if the recording has moved on.
Checked(e) == IF e.known /\ e.data.status # "FAILED" THEN NoRetry ELSE [retry EXCEPT !.stage = "idle"]
Awaited(e) ==
    CASE retry.stage = "refreshing" -> [retry EXCEPT !.stage = "idle"]
      [] retry.stage = "checking" -> Checked(e)
      [] OTHER -> retry

\* The list query has its own mounting: enabled, it asks for what it lacks.
Listed(status) ==
    IF Shown /\ ListEnabled(status) /\ list.fetch = "idle" /\ ~list.known /\ list.error = "none"
    THEN Start(list) ELSE list

StatusOf(e) == IF e.known /\ ~IsClientError(e.error) THEN ViewStatusByRecordingStatus[e.data.status] ELSE "none"
Received(e) ==
    /\ detail' = e
    /\ retry' = Awaited(e)
    /\ list' = Listed(StatusOf(e))

DetailRead ==
    /\ detail.fetch = "sent"
    /\ detail' = [detail EXCEPT !.fetch = "read", !.got = IF session THEN recording ELSE Unknown]
    /\ UNCHANGED <<server, store, screen, behind, list, retry, faults>>

ListRead ==
    /\ list.fetch = "sent"
    /\ list' = [list EXCEPT !.fetch = "read", !.got = documents]
    /\ UNCHANGED <<server, store, screen, behind, detail, retry, faults>>

DetailAnswered ==
    /\ detail.fetch = "read"
    /\ Received(IF detail.got = Unknown THEN Failed(detail, "unauthorized") ELSE Succeeded(detail))
    /\ UNCHANGED <<server, store, screen, behind, faults>>

ListAnswered ==
    /\ list.fetch = "read"
    /\ list' = IF session THEN Succeeded(list) ELSE Failed(list, "unauthorized")
    /\ UNCHANGED <<server, store, screen, behind, detail, retry, faults>>

DetailFails(error) ==
    /\ detail.fetch # "idle" /\ faults < MaxFaults
    /\ Received(Failed(detail, error))
    /\ faults' = faults + 1
    /\ UNCHANGED <<server, store, screen, behind>>

ListFails(error) ==
    /\ list.fetch # "idle" /\ faults < MaxFaults
    /\ list' = Failed(list, error)
    /\ faults' = faults + 1
    /\ UNCHANGED <<server, store, screen, behind, detail, retry>>

Poll ==
    /\ Open /\ Polls(detail) /\ detail.fetch = "idle"
    /\ detail' = ByTimer(detail)
    /\ UNCHANGED <<server, store, screen, behind, list, retry, faults>>

\* The window is focused, or the network is back.
Focus ==
    /\ Open /\ detail.fetch = "idle"
    /\ detail' = Start(detail)
    /\ list' = IF ListEnabled(ViewStatus) THEN Asked(list) ELSE list
    /\ UNCHANGED <<server, store, screen, behind, retry, faults>>

-----------------------------------------------------------------------------
(* The user *)

RetryLoad ==
    /\ Open /\ "load again" \in Buttons
    /\ detail' = Refetched(detail)
    /\ UNCHANGED <<server, store, screen, behind, list, retry, faults>>

RetryGeneration ==
    /\ Open /\ "generate again" \in Buttons
    /\ retry' = [NoRetry EXCEPT !.stage = "sent"]
    /\ UNCHANGED <<server, store, screen, behind, detail, list, faults>>

ServerRetries ==
    /\ retry.stage = "sent"
    /\ \/ /\ session /\ CanRetry /\ Restarts
          /\ retry' = [retry EXCEPT !.stage = "handled", !.outcome = "ok"]
       \/ /\ session /\ recording.status # "FAILED"
          /\ retry' = [retry EXCEPT !.stage = "handled", !.outcome = "conflict"]
          /\ UNCHANGED <<recording, runs>>
       \/ /\ ~session
          /\ retry' = [retry EXCEPT !.stage = "handled", !.outcome = "unauthorized"]
          /\ UNCHANGED <<recording, runs>>
    /\ UNCHANGED <<documents, session, store, screen, behind, detail, list, faults>>

\* The screen that made the request is still there: it asks for the recording
\* once more when it was accepted, and when it was refused by a conflict.
RetryAnswered ==
    /\ retry.stage = "handled"
    /\ retry' = CASE retry.outcome = "ok" -> [NoRetry EXCEPT !.stage = "refreshing"]
                  [] retry.outcome = "conflict" -> [NoRetry EXCEPT !.stage = "checking", !.error = "conflict"]
                  [] OTHER -> [NoRetry EXCEPT !.error = retry.outcome]
    /\ detail' = IF retry.outcome = "unauthorized" THEN detail ELSE Refetched(detail)
    /\ UNCHANGED <<server, store, screen, behind, list, faults>>

RetryFails ==
    /\ retry.stage \in {"sent", "handled"} /\ faults < MaxFaults
    /\ retry' = [NoRetry EXCEPT !.error = "other"]
    /\ faults' = faults + 1
    /\ UNCHANGED <<server, store, screen, behind, detail, list>>

\* What is left behind by a screen that goes is only what it has sent: the
\* server may still handle it, as it may a retry from elsewhere.
GoTo(place) == screen' = place /\ retry' = NoRetry

GoHome ==
    /\ Open /\ "home" \in Buttons
    /\ GoTo(Home) /\ behind' = TRUE
    /\ UNCHANGED <<server, store, detail, list, faults>>

Redirect ==
    /\ \E place \in Sends(screen) : GoTo(place)
    /\ UNCHANGED <<server, store, behind, detail, list, faults>>

\* By the microphone of the dock beside every screen, or by its chip.
OpenRecording ==
    /\ Open
    /\ store' = "recording" /\ GoTo(Recording) /\ behind' = TRUE
    /\ UNCHANGED <<server, detail, list, faults>>

StopRecording ==
    /\ store = "recording" /\ store' = "idle"
    /\ UNCHANGED <<server, screen, behind, detail, list, retry, faults>>

\* The screen mounts again, over what the query client has kept.
Back ==
    /\ behind /\ ~Shown
    /\ GoTo(RecordingDocumentsOf) /\ behind' = FALSE
    /\ detail' = Asked(detail)
    /\ list' = IF ListEnabled(ViewStatus) THEN Asked(list) ELSE list
    /\ UNCHANGED <<server, store, faults>>

-----------------------------------------------------------------------------

Finish == \E result \in Results, stage \in Stages, made \in Made \cup {<<>>} : Finishes(result, stage, made)
DetailLost == \E error \in {"refused", "other"} : DetailFails(error)
ListLost == \E error \in {"refused", "other"} : ListFails(error)

Next ==
    \/ Ends \/ Starts \/ Finish \/ RetriedElsewhere \/ SessionEnds
    \/ DetailRead \/ ListRead \/ DetailAnswered \/ ListAnswered \/ DetailLost \/ ListLost
    \/ Poll \/ Focus
    \/ RetryLoad \/ RetryGeneration \/ ServerRetries \/ RetryAnswered \/ RetryFails
    \/ GoHome \/ Redirect \/ OpenRecording \/ StopRecording \/ Back

\* Requests are answered or fail at their time limit, timers fire, effects run,
\* and the server gets on with what it has been given.
Fairness ==
    /\ WF_vars(Ends) /\ WF_vars(Starts) /\ WF_vars(Finish)
    /\ WF_vars(DetailRead) /\ WF_vars(DetailAnswered)
    /\ WF_vars(ListRead) /\ WF_vars(ListAnswered)
    /\ WF_vars(Poll) /\ WF_vars(Redirect)
    /\ WF_vars(ServerRetries) /\ WF_vars(RetryAnswered)

Spec == Init /\ [][Next]_vars
FairSpec == Spec /\ Fairness

-----------------------------------------------------------------------------
(* Properties *)

\* A recording that made documents leads to the first of them; home is for one
\* without documents, or when the list cannot be had
\* (useRecordingDocumentsRedirect).
LeavesForItsFirstDocument ==
    [][(Redirect /\ Shown /\ ViewStatus = "completed") =>
          \/ screen' = Login
          \/ documents # <<>> /\ screen' = Document(Head(documents))
          \/ screen' = Home /\ (documents = <<>> \/ list.error # "none")]_vars

\* Once the screen has said that nothing could be loaded it says so until the
\* user asks again, or comes back (useRecordingQuery: no flicker between failed
\* and loading).
FailureStays ==
    [][(Shown /\ Shown' /\ ViewStatus = "loadFailed" /\ ViewStatus' = "loading")
          => detail'.by # "timer"]_vars

\* Waiting comes to an end: a screen that is drafting, loading or about to send
\* elsewhere does not stay so (none of these has a button: RecordingDocuments).
Waiting == Shown /\ ViewStatus \in {"loading", "organizing", "completed", "recording"}
WaitingEnds == Waiting ~> ~Waiting

\* A recording that failed again can be retried again: at rest, and knowing the
\* server's state, the screen offers what the server would accept
\* (useRecordingDocuments: otherwise "retry" would be hidden).
RetryComesBack ==
    (/\ Shown /\ ViewStatus = "failed" /\ detail.data = recording
     /\ detail.fetch = "idle" /\ retry.stage = "idle" /\ CanRetry)
    => RetryOffered

\* After a refusal the screen changes to what the recording is by now
\* (useRecordingDocuments, on a 409).
ConflictShowsTheServer ==
    (retry.stage = "checking") ~> (~Shown \/ ViewStatus # "failed" \/ recording.status = "FAILED")
=============================================================================
