------------------------------ MODULE Frontend ------------------------------
(***************************************************************************)
(* The frontend's components beside each other.  They share no state that    *)
(* their modules model (what they do share, such as the query client, is in  *)
(* each of them as far as it matters there), so that no step of one disables *)
(* or enables a step of another: it is enough to look at behaviours in which *)
(* one of them moves and the others rest.                                    *)
(***************************************************************************)
EXTENDS Integers, Sequences, FiniteSets

CONSTANTS
    Parts,              \* the components of which one moves
    \* HttpClient
    Calls, Mutating, Statuses, MaxTokens,
    \* QueryClient
    Screens, ApiIds,
    \* RecordingControl
    RecordingWorkspaces, Slots, MaxRequests, MaxSegments, MaxRecordingFaults, Overlaps,
    BodylessEnds,
    \* Entry
    Workspaces, Credentials, Of, Visits, MaxEntries, MaxEntryFaults,
    \* RecordingDocuments
    Results, Made, MaxGenerations, MaxOrganizingFaults,
    \* DocumentViewer
    Documents, MaxViewerMoves, MaxViewerFaults,
    \* DockHint
    Tabs, MaxSeen, Storages, MaxVisits,
    \* WorkspaceDock and WorkspacePanels
    MaxDrafts, MaxDockHistory, MaxPanelHistory,
    Sessions, Messages, AddressIds, Folders, Parent,
    \* NotionSync
    MaxImports, MaxImportFailures

VARIABLES
    part,       \* the one that moves
    csrfToken, cookie, made, httpCall,
    onScreen, entry, observed, write, version, queryFaults,
    overlap, store, mic, audio, late, proof, used, segment, lostPage, call, page, dialogs,
    server, recordingFaults,
    visit, session, spaces, lastViewed, valid, entries, first, cache, code, requests, recorded,
    moves, entryFaults,
    recording, documents, organizingSession, recorder, place, behind, detail, list, retry,
    generations, organizingFaults,
    offered, mine, others, viewerSession, shown, pages, members, documentList, confirming, copy,
    sure, told, empty, viewerMoves, viewerFaults,
    storage, seen, tab, visits, hinted, raced,
    dockHistory, dockAt, byUser, message, composing, dockFocus, fate, taken,
    panelHistory, panelAt, picked, peek, panelTimer, pointer, panelFocus, expanded,
    imports, mounted, importRunId, isStartFailed, start, importCache, fetching, resetTimer,
    failures, accepted

-----------------------------------------------------------------------------
(* The components *)

Http == INSTANCE HttpClient WITH call <- httpCall
Client == INSTANCE QueryClient WITH screen <- onScreen, faults <- queryFaults
Control == INSTANCE RecordingControl WITH
    Workspaces <- RecordingWorkspaces, MaxFaults <- MaxRecordingFaults, faults <- recordingFaults
Way == INSTANCE Entry WITH
    MaxHistory <- MaxEntries, MaxFaults <- MaxEntryFaults, history <- entries,
    faults <- entryFaults
Organizing == INSTANCE RecordingDocuments WITH
    MaxRuns <- MaxGenerations, MaxFaults <- MaxOrganizingFaults, session <- organizingSession,
    store <- recorder, screen <- place, runs <- generations, faults <- organizingFaults
Viewer == INSTANCE DocumentViewer WITH
    MaxMoves <- MaxViewerMoves, MaxFaults <- MaxViewerFaults, session <- viewerSession,
    page <- pages, list <- documentList, moves <- viewerMoves, faults <- viewerFaults
Hint == INSTANCE DockHint WITH shown <- hinted
Dock == INSTANCE WorkspaceDock WITH
    MaxHistory <- MaxDockHistory, history <- dockHistory, at <- dockAt, focus <- dockFocus
Panels == INSTANCE WorkspacePanels WITH
    MaxHistory <- MaxPanelHistory, history <- panelHistory, at <- panelAt,
    timer <- panelTimer, focus <- panelFocus
Sync == INSTANCE NotionSync WITH
    MaxRuns <- MaxImports, MaxFailures <- MaxImportFailures, runs <- imports,
    cache <- importCache, timer <- resetTimer

ASSUME FrontendAssumption ==
    /\ Http!HttpClientAssumption /\ Client!QueryClientAssumption
    /\ Control!RecordingControlAssumption /\ Way!EntryAssumption
    /\ Organizing!RecordingDocumentsAssumption /\ Viewer!DocumentViewerAssumption
    /\ Hint!HintAssumption /\ Dock!DockAssumption /\ Panels!PanelsAssumption
    /\ Sync!SyncAssumption

-----------------------------------------------------------------------------
(* At rest: as they begin, and where that asks for something at once, at a     *)
(* screen where they have nothing to do.                                       *)

HttpRests == Http!Init /\ cookie = 0
QueryRests == Client!Init /\ onScreen = CHOOSE s \in Screens : TRUE
ControlRests ==
    /\ Control!Init
    /\ overlap = CHOOSE o \in Overlaps : TRUE
    /\ page.workspace = CHOOSE w \in RecordingWorkspaces : TRUE
WayRests ==
    /\ visit = CHOOSE v \in Visits : TRUE
    /\ session = "none" /\ spaces = {} /\ lastViewed = Way!None /\ valid = Credentials
    /\ entries = <<Way!JoinError>> /\ first = 1
    /\ cache = [k \in Way!Keys |-> Way!Empty]
    /\ code = Way!NotTyped /\ requests = {} /\ recorded = Way!None
    /\ moves = 0 /\ entryFaults = 0
OrganizingRests ==
    /\ recording = [status |-> "COMPLETED", failureStage |-> Organizing!NoStage]
    /\ documents = <<>> /\ organizingSession = TRUE /\ recorder = "idle"
    /\ place = Organizing!Home /\ behind = FALSE
    /\ detail = Organizing!Empty /\ list = Organizing!Empty /\ retry = Organizing!NoRetry
    /\ generations = 0 /\ organizingFaults = 0
ViewerRests ==
    /\ offered = Viewer!Ids /\ viewerSession = TRUE /\ shown = Viewer!None
    /\ mine = [d \in Viewer!Ids |-> "PENDING"] /\ others = {}
    /\ pages = [d \in Viewer!Ids |-> Viewer!Empty]
    /\ members = [d \in Viewer!Ids |-> Viewer!Empty] /\ documentList = Viewer!Empty
    /\ confirming = Viewer!NoConfirmation /\ copy = Viewer!NoCopy
    /\ sure = {} /\ told = {} /\ empty = {} /\ viewerMoves = 0 /\ viewerFaults = 0
HintRests == Hint!Init /\ storage = CHOOSE s \in Storages : TRUE
DockRests == Dock!Init /\ dockHistory[1].page = "home"
PanelsRest == Panels!Init /\ panelHistory[1] = [place |-> Panels!Home, messageId |-> Panels!NoId]
SyncRests == Sync!Init

Init ==
    /\ part \in Parts
    /\ IF part = "requests" THEN Http!Init ELSE HttpRests
    /\ IF part = "queries" THEN Client!Init ELSE QueryRests
    /\ IF part = "recorder" THEN Control!Init ELSE ControlRests
    /\ IF part = "entry" THEN Way!Init ELSE WayRests
    /\ IF part = "organizing" THEN Organizing!Init ELSE OrganizingRests
    /\ IF part = "viewer" THEN Viewer!Init ELSE ViewerRests
    /\ IF part = "hint" THEN Hint!Init ELSE HintRests
    /\ IF part = "dock" THEN Dock!Init ELSE DockRests
    /\ IF part = "panels" THEN Panels!Init ELSE PanelsRest
    /\ IF part = "sync" THEN Sync!Init ELSE SyncRests

-----------------------------------------------------------------------------
(* One moves *)

requestsVars == <<csrfToken, cookie, made, httpCall>>
queriesVars == <<onScreen, entry, observed, write, version, queryFaults>>
recorderVars ==
    <<overlap, store, mic, audio, late, proof, used, segment, lostPage, call, page, dialogs,
      server, recordingFaults>>
entryVars ==
    <<visit, session, spaces, lastViewed, valid, entries, first, cache, code, requests,
      recorded, moves, entryFaults>>
organizingVars ==
    <<recording, documents, organizingSession, recorder, place, behind, detail, list, retry,
      generations, organizingFaults>>
viewerVars ==
    <<offered, mine, others, viewerSession, shown, pages, members, documentList, confirming,
      copy, sure, told, empty, viewerMoves, viewerFaults>>
hintVars == <<storage, seen, tab, visits, hinted, raced>>
dockVars == <<dockHistory, dockAt, byUser, message, composing, dockFocus, fate, taken>>
panelsVars ==
    <<panelHistory, panelAt, picked, peek, panelTimer, pointer, panelFocus, expanded>>
syncVars ==
    <<imports, mounted, importRunId, isStartFailed, start, importCache, fetching, resetTimer,
      failures, accepted>>
vars ==
    <<part, requestsVars, queriesVars, recorderVars, entryVars, organizingVars, viewerVars,
      hintVars, dockVars, panelsVars, syncVars>>

Moves(p) ==
    /\ part = p /\ part' = part
    /\ p # "requests" => UNCHANGED requestsVars
    /\ p # "queries" => UNCHANGED queriesVars
    /\ p # "recorder" => UNCHANGED recorderVars
    /\ p # "entry" => UNCHANGED entryVars
    /\ p # "organizing" => UNCHANGED organizingVars
    /\ p # "viewer" => UNCHANGED viewerVars
    /\ p # "hint" => UNCHANGED hintVars
    /\ p # "dock" => UNCHANGED dockVars
    /\ p # "panels" => UNCHANGED panelsVars
    /\ p # "sync" => UNCHANGED syncVars

Next ==
    \/ Moves("requests") /\ Http!Next
    \/ Moves("queries") /\ Client!Next
    \/ Moves("recorder") /\ Control!Next
    \/ Moves("entry") /\ Way!Next
    \/ Moves("organizing") /\ Organizing!Next
    \/ Moves("viewer") /\ Viewer!Next
    \/ Moves("hint") /\ Hint!Next
    \/ Moves("dock") /\ Dock!Next
    \/ Moves("panels") /\ Panels!Next
    \/ Moves("sync") /\ Sync!Next

Spec == Init /\ [][Next]_vars

\* What rests has none of these to do.
Fairness ==
    /\ Http!Fairness /\ Client!Fairness /\ Control!Fairness /\ Way!Fairness
    /\ Organizing!Fairness /\ Viewer!Fairness /\ Panels!Fairness /\ Sync!Fairness

FairSpec == Spec /\ Fairness

-----------------------------------------------------------------------------
(* What the components promise.  Their modules say where the code does.        *)

\* A request that changes something takes effect once at most (httpClient's CSRF interceptor).
AppliedOnce == part = "requests" => Http!AppliedOnce

\* A call is refused for its CSRF token only after it was sent again with a new one.
StaleTokenIsForgiven == part = "requests" => Http!StaleTokenIsForgiven

\* What was on screen when a mutation settled shows what it made, or something newer, but
\* for the two mutations that invalidate nothing (QueryClient's LeavesStale).
ReadsItsWrites == part = "queries" => Client!ReadsItsWrites

\* After a confirmation that conflicts the screen shows what it was a conflict with.
ConflictIsShown == part = "queries" => Client!ConflictIsShown

\* No two queries that ask different things share an entry of the cache.
ShowsItsOwn == part = "queries" => Client!ShowsItsOwn

\* Every request of a hook to the server has a handler there, and carries what that requires,
\* but for the proof that an end of a recording lacks.
RequestsMeetContract == part = "queries" => Client!RequestsMeetContract

\* A recording that says it records has a recorder that does, of its own session.
RecorderCollects == part = "recorder" => Control!RecorderCollects

\* With no recording, and none about to be made, the microphone is off.
MicrophoneReleased == part = "recorder" => Control!MicrophoneReleased

\* All that was recorded of a session on this page is uploaded, if the user waits for answers.
PatientIsUploaded == part = "recorder" => Control!PatientIsUploaded

\* What is uploaded is all of one session: of its own, if the user starts no recording while
\* another call is under way.
NothingElseIsUploaded == part = "recorder" => Control!NothingElseIsUploaded

\* The session is in the state that the screen shows, if the user waits for answers.
ServerInStep == part = "recorder" => Control!ServerInStep

\* A recording is ended by one call at a time, if the user starts none while another call is
\* under way.
OneEnd == part = "recorder" => Control!OneEnd

\* The tick beside a code belongs to the code on screen, which the server knows.
SuccessIsOfThisCode == part = "entry" => Way!SuccessIsOfThisCode

\* A confirmation of joining names the workspace that its credential is for.
JoinStateNamesItsWorkspace == part = "entry" => Way!JoinStateNamesItsWorkspace

\* "Copied" is said beside a document only if it is the one that was copied.
MarkIsOfThisDocument == part = "viewer" => Viewer!MarkIsOfThisDocument

\* That nobody has to confirm a document is said only if so it was.
NoticeIsTrue == part = "viewer" => Viewer!NoticeIsTrue

\* A document that the screen has confirmed cannot be confirmed again while it stays.
ConfirmedStays == part = "viewer" => Viewer!ConfirmedStays

\* The hint is shown in no more visits than it may be, unless two tabs decide at the same
\* moment or the storage is full.
HintLimit == part = "hint" => Hint!HintLimit

\* A visit is counted once, however often the dock is drawn again.
CountedOnce == part = "hint" => Hint!CountedOnce

\* The hint never stands above an open dock.
HintGoes == part = "hint" => Hint!HintGoes

\* What is being written leaves the field of the dock by the user's hand alone.
KeptWhileWritten == part = "dock" => Dock!KeptWhileWritten

\* A question is asked once.
AskedOnce == part = "dock" => Dock!AskedOnce

\* Back leads from a question to the screen that it was asked on.
BackToWhereItWasAsked == part = "dock" => Dock!BackToWhereItWasAsked

\* No panel floats that was left alone.
FloatsForAReason == part = "panels" => Panels!FloatsForAReason

\* The rail of records is of an answer on screen, the only one drawn as open.
OpenedIsOnScreen == part = "panels" => Panels!OpenedIsOnScreen

\* What the card says of an import is what became of it.
ResultIsTrue == part = "sync" => Sync!ResultIsTrue

\* A result on screen has the timer that takes it away.
ResultHasItsTimer == part = "sync" => Sync!ResultHasItsTimer

\* A recording leaves the store only when its session is over at the server, or with the page,
\* unless the user starts one while another call is under way.
DroppedOnlyWhenOver == Control!DroppedOnlyWhenOver

\* An answer leads somewhere only from the screen that asked.
LateAnswersMoveNobody == Way!LateAnswersMoveNobody

\* A recording that made documents leads to the first of them.
LeavesForItsFirstDocument == Organizing!LeavesForItsFirstDocument

\* That nothing could be loaded is said until the user asks again.
FailureStays == Organizing!FailureStays

\* A step leads to a document on that side of the one shown.
StepsInOrder == Viewer!StepsInOrder

\* The hint appears once at most while the dock is mounted.
StaysGone == Hint!StaysGone

\* A press on the button above a chat changes whether the rail of records is open.
ToggleTurnsTheRail == Panels!ToggleTurnsTheRail

\* Another chat begins without the records of the last one, and Back finds a chat as it was.
RecordsStayWithTheirEntry == Panels!RecordsStayWithTheirEntry

\* Who is told to log in stays at the login screen.
LoggedOutStays == Way!LoggedOutStays

-----------------------------------------------------------------------------
(* Component by component: what the runs check, the variables' types with it. *)

\* Requests (httpClient): a change is made once, and a stale token is forgiven.
RequestsAreSafe ==
    /\ part = "requests" => Http!TypeOK
    /\ AppliedOnce /\ StaleTokenIsForgiven

\* Queries (the hooks of shared/api): the screen shows what the server holds after a
\* mutation that invalidates, each query its own, and requests meet their contract, but for
\* the end of a recording.
QueriesAreTrue ==
    /\ part = "queries" => Client!TypeOK
    /\ ReadsItsWrites /\ ConflictIsShown /\ ShowsItsOwn /\ RequestsMeetContract

\* Recording (useRecordingControl): for a user who waits for answers, screen, recorder and
\* server agree on one recording, and all of it is uploaded; for one who starts no recording
\* beside another call, by one end, into its own session, and no failed request costs it; for
\* every user the microphone is off without a recording, and an upload is of one session.
\* All this whether the server refuses an end that carries no proof, or serves it.
RecordingIsSafe ==
    /\ [](/\ part = "recorder" => Control!TypeOK
          /\ RecorderCollects /\ MicrophoneReleased /\ PatientIsUploaded
          /\ NothingElseIsUploaded /\ ServerInStep /\ OneEnd)
    /\ DroppedOnlyWhenOver

\* Entry and joining (the entry page, the invitation screens): what is shown is of the code on
\* screen, and no late answer moves a user who has gone on.
EntryIsSafe ==
    /\ [](/\ part = "entry" => Way!TypeOK
          /\ SuccessIsOfThisCode /\ JoinStateNamesItsWorkspace)
    /\ LateAnswersMoveNobody

\* Waiting for documents (RecordingDocumentsPage): the page is left for the right document,
\* and a failure stays until it is answered.
OrganizingIsSafe ==
    /\ [](part = "organizing" => Organizing!TypeOK)
    /\ LeavesForItsFirstDocument /\ FailureStays

\* Reading and confirming (DocumentPage): every mark, notice and step is of the document shown
\* (the spinner of the confirm button is not: it turns for whatever the screen last confirmed).
ViewerIsSafe ==
    /\ [](/\ part = "viewer" => Viewer!TypeOK
          /\ MarkIsOfThisDocument /\ NoticeIsTrue /\ ConfirmedStays)
    /\ StepsInOrder

\* The hint at the dock (useDockHint): once a visit, gone once followed, and in no more visits
\* than it may be unless two tabs decide at the same moment or the storage is full.
HintIsSafe ==
    /\ [](/\ part = "hint" => Hint!TypeOK
          /\ HintLimit /\ CountedOnce /\ HintGoes)
    /\ StaysGone

\* Asking (WorkspaceDock): what is written goes by the user's hand alone, is asked once, and
\* Back leads where it was asked.  (By the user's hand a question may go without being asked:
\* in an open chat submitting only empties the field.)
DockIsSafe ==
    /\ part = "dock" => Dock!TypeOK
    /\ KeptWhileWritten /\ AskedOnce /\ BackToWhereItWasAsked

\* The panels (useWorkspacePanels): none stands without a reason, and each belongs to its chat.
PanelsAreSafe ==
    /\ [](/\ part = "panels" => Panels!TypeOK
          /\ FloatsForAReason /\ OpenedIsOnScreen)
    /\ ToggleTurnsTheRail /\ RecordsStayWithTheirEntry

\* The import card (useNotionSync): what it says of an import is so, and goes again.
SyncIsSafe ==
    /\ part = "sync" => Sync!TypeOK
    /\ ResultIsTrue /\ ResultHasItsTimer

-----------------------------------------------------------------------------
\* Liveness, under Fairness.

\* Every call comes to an end.
EveryCallSettles == Http!EveryCallSettles

\* A screen that polls comes to show the final answer, over failures of the moment.
PollingComesToAnEnd == Client!PollingComesToAnEnd

\* An end of a recording comes to an end.
EndingSettles == Control!EndingSettles

\* A recording that a lost microphone paused says so, or goes on.
LossIsShown == Control!LossIsShown

\* The guards send nobody round in circles, unless the session of a known user ended.
RedirectsEnd == Way!RedirectsEnd

\* The entry page leads on, or offers to try again.
EntryDecides == Way!EntryDecides

\* A member gets into a workspace, the one viewed last if possible.
MembersGetIn == Way!MembersGetIn

\* Nobody waits for ever for the documents of a recording.
WaitingEnds == Organizing!WaitingEnds

\* Loading and confirming a document come to an end.
BusyEnds == Viewer!BusyEnds

\* A panel that was left alone is closed.
FloatEnds == Panels!FloatEnds

\* The result of an import gives way to the beginning.
ResultEnds == Sync!ResultEnds

\* An import that the card follows comes to an end there.
SyncingEnds == Sync!SyncingEnds

\* Requests, recordings and entry come to an end, as users wait for them to.
JourneysEnd ==
    /\ EveryCallSettles /\ PollingComesToAnEnd
    /\ EndingSettles /\ LossIsShown
    /\ RedirectsEnd /\ EntryDecides /\ MembersGetIn

\* Nothing on a screen waits, floats or is announced for ever.
ScreensSettle == WaitingEnds /\ BusyEnds /\ FloatEnds /\ ResultEnds /\ SyncingEnds
=============================================================================
