-------------------------- MODULE RecordingControl --------------------------
(***************************************************************************)
(* The recording of one browser tab: the store, the microphone and the      *)
(* recorder behind it, the control hook that keeps the session of the       *)
(* server in step, and the screens that call it.                            *)
(*                                                                          *)
(* The tab runs one callback at a time; what interleaves is what comes      *)
(* between the awaits.  A call of the hook holds a slot from the click that *)
(* makes it to its return.  Sessions are named by the request that starts   *)
(* them, since the server answers a repeated request with its session.      *)
(***************************************************************************)
EXTENDS Integers, FiniteSets

CONSTANTS
    Workspaces,
    Slots,          \* calls of the hook that may be under way at once
    MaxRequests,    \* requestIds this tab makes up                    (bound)
    MaxSegments,    \* times a recorder is started                     (bound)
    MaxFaults,      \* lost messages, refusals, reloads and discards   (bound)
    Overlaps,       \* sets of what may begin while a call of the hook is under way
    BodylessEnds    \* what an end meets, which the client sends without the proof of
                    \* control: it is "refused" by this repository's server, and "served"
                    \* by the mock of its client, as one with the proof would be

RecordingControlAssumption ==
    /\ Workspaces # {} /\ Slots # {} /\ IsFiniteSet(Slots)
    /\ MaxRequests \in Nat /\ MaxSegments \in Nat
    /\ MaxFaults \in Nat
    /\ BodylessEnds # {} /\ BodylessEnds \subseteq {"refused", "served"}
    /\ \A o \in Overlaps : o \subseteq {"start", "pause", "resume", "end", "loss", "navigate"}

VARIABLES
    overlap,  \* what may begin in this behaviour while a call is under way
    store,    \* useRecordingStore
    mic,      \* Microphone: generation, connection, pendingConnect
    audio,    \* RecordedAudio.chunks: the segments handed over
    late,     \* segments that recorders closed early have still to hand over
    proof,    \* START_PROOF_KEY in sessionStorage: its requestId, or 0
    used,     \* requestIds made up so far
    segment,  \* segments recorded so far, with their session
    lostPage, \* segments whose page was left
    call,     \* call[c], the call of the hook in slot c
    page,     \* the screen
    dialogs,  \* the microphone dialogs that are open, by what they retry
    server,   \* server[q], the session that request q started
    faults

chunks == <<audio, late>>
proofs == <<proof, used>>
record == <<segment, lostPage>>
screen == <<page, dialogs>>
tab == <<overlap, store, mic, chunks, proofs, record, screen>>
vars == <<overlap, store, mic, chunks, proofs, record, call, screen, server, faults>>

-----------------------------------------------------------------------------
(* What the tab holds *)

Requests == 1..MaxRequests
Segment == [session: Requests, number: Nat]

Store ==
    [status: {"idle", "recording", "paused"}, session: 0..MaxRequests,
     workspace: Workspaces,
     counting: BOOLEAN,    \* resumedAt has a value
     analyser: BOOLEAN, lost: BOOLEAN, ending: BOOLEAN]

IdleStore ==
    [status |-> "idle", session |-> 0, workspace |-> CHOOSE w \in Workspaces : TRUE,
     counting |-> FALSE, analyser |-> FALSE, lost |-> FALSE, ending |-> FALSE]

\* Fault: the mark stays.
EndingStays(s) == s
\* cancelEnding
CancelEnding(s) == [s EXCEPT !.ending = FALSE]

FreezeElapsed(s) == [s EXCEPT !.counting = FALSE]

Connection ==
    [live: BOOLEAN, recorder: {"inactive", "recording", "paused"},
     collects: SUBSET Segment,   \* what the recorder has gathered
     flushing: BOOLEAN]          \* stop() waits for the last chunk
Connected ==
    [live |-> TRUE, recorder |-> "inactive", collects |-> {}, flushing |-> FALSE]
NoConnection == [Connected EXCEPT !.live = FALSE]

\* Of the generations only this is ever asked: has the microphone been
\* disconnected since the pending getUserMedia was made?
Mic == [open: BOOLEAN, connection: Connection, pending: {"no", "current", "stale"}]

Call ==
    [op: {"none", "start", "pause", "resume", "end"},
     stage: {"none", "mic", "request", "response", "stopping",
             "issue", "put", "complete"},
     workspace: Workspaces, session: 0..MaxRequests,
     answer: {"none", "ok", "over", "closed", "refused", "network"},
     audio: SUBSET Segment, retries: 0..3]

NoCall ==
    [op |-> "none", stage |-> "none", workspace |-> CHOOSE w \in Workspaces : TRUE,
     session |-> 0, answer |-> "none", audio |-> {}, retries |-> 0]

Free(c) == call[c].op = "none"
Quiet == \A c \in Slots : Free(c)
\* Effects run before the next event of a user who waits.
MayHappen(what) == what \in overlap \/ (Quiet /\ ~store.lost)
MayBegin(c, op) == Free(c) /\ MayHappen(op)
Send(op, w, q) ==
    [NoCall EXCEPT !.op = op, !.stage = "request", !.workspace = w, !.session = q]
AwaitMic(op, w) == [NoCall EXCEPT !.op = op, !.stage = "mic", !.workspace = w]
Return(c) == call' = [call EXCEPT ![c] = NoCall]

Session ==
    [state: {"none", "recording", "paused", "ended", "discarded"},
     workspace: Workspaces,
     object: SUBSET Segment,       \* what was PUT
     completed: SUBSET Segment]    \* what the completed upload holds
NoSession ==
    [state |-> "none", workspace |-> CHOOSE w \in Workspaces : TRUE,
     object |-> {}, completed |-> {}]
Running(q) == server[q].state \in {"recording", "paused"}

At(w, to) == [workspace |-> w, screen |-> to]

TypeOK ==
    /\ overlap \in Overlaps
    /\ store \in Store
    /\ mic \in Mic
    /\ audio \in SUBSET Segment /\ late \in SUBSET Segment
    /\ proof \in 0..MaxRequests /\ used \in 0..MaxRequests
    /\ segment \in SUBSET Segment /\ lostPage \in SUBSET Segment
    /\ call \in [Slots -> Call]
    /\ page \in [workspace: Workspaces, screen: {"home", "recording"}]
    /\ dialogs \in SUBSET {"start", "resume"}
    /\ server \in [Requests -> Session]
    /\ faults \in 0..MaxFaults

Init ==
    /\ overlap \in Overlaps
    /\ store = IdleStore
    /\ mic = [open |-> FALSE, connection |-> NoConnection, pending |-> "no"]
    /\ audio = {} /\ late = {} /\ segment = {} /\ lostPage = {}
    /\ proof = 0 /\ used = 0
    /\ call = [c \in Slots |-> NoCall]
    /\ \E w \in Workspaces : page = At(w, "home")
    /\ dialogs = {}
    /\ server = [q \in Requests |-> NoSession]
    /\ faults = 0

-----------------------------------------------------------------------------
(* The microphone *)

\* connect() shares one pending request, whoever waits.
PendingConnect == IF mic.pending = "no" THEN "current" ELSE mic.pending

\* A segment is recorded from here on: recorder.start().
NextSegment(q) == [session |-> q, number |-> Cardinality(segment) + 1]
Started(connection, q) ==
    [connection EXCEPT !.recorder = "recording", !.collects = {NextSegment(q)}]

\* close() stops a recorder that runs; its chunk comes when it is closed.
ClosedEarly == IF mic.connection.recorder # "inactive" THEN mic.connection.collects ELSE {}

\* Fault: stops the recorder and leaves the microphone on.
DisconnectedRecorder(m) ==
    [m EXCEPT !.connection.recorder = "inactive",
              !.pending = IF @ = "no" THEN "no" ELSE "stale"]

Disconnected(m) ==
    [open |-> FALSE, connection |-> NoConnection,
     pending |-> IF m.pending = "no" THEN "no" ELSE "stale"]

Disconnect ==
    /\ mic' = Disconnected(mic)
    /\ late' = late \cup ClosedEarly

-----------------------------------------------------------------------------
(* The store and the hook, between awaits *)

\* closeRecording: discardRecording, clearRecordingStartProof, home.
CloseRecording(w) ==
    /\ Disconnect
    /\ audio' = {}
    /\ store' = IdleStore
    /\ proof' = 0
    /\ page' = At(w, "home")

\* The bounds: every call that may start a recorder has a segment left for it.
MayRecord ==
    /\ Cardinality(segment)
         + Cardinality({c \in Slots : call[c].op \in {"start", "resume"}}) < MaxSegments
    /\ proof # 0 \/ used < MaxRequests

\* startRecording, from the dock's microphone or the dialog's retry.
StartRecording(c, w) ==
    \/ /\ store.status # "idle"
       /\ page' = At(w, "recording")
       /\ UNCHANGED <<mic, call>>
    \/ /\ store.status = "idle"
       /\ MayRecord
       /\ mic' = [mic EXCEPT !.pending = PendingConnect]
       /\ call' = [call EXCEPT ![c] = AwaitMic("start", w)]
       /\ UNCHANGED page

ClickMic(c) ==
    /\ MayBegin(c, "start")
    /\ store.status = "idle" /\ page.screen # "recording"
    /\ StartRecording(c, page.workspace)
    /\ UNCHANGED <<overlap, store, chunks, proofs, record, dialogs, server, faults>>

RetryStart(c) ==
    /\ MayBegin(c, "start")
    /\ "start" \in dialogs
    /\ dialogs' = dialogs \ {"start"}
    /\ StartRecording(c, page.workspace)
    /\ UNCHANGED <<overlap, store, chunks, proofs, record, server, faults>>

\* getRecordingStartProof: the one that is kept, or a new one.
StartProof == IF proof # 0 THEN proof ELSE used + 1

\* open(): a microphone asked for before a disconnect is turned off at once.
Obtained(granted) == granted /\ mic.pending = "current"

Waiting(op) == {c \in Slots : call[c].stage = "mic" /\ call[c].op = op}

\* The browser answers getUserMedia and all who wait go on, in one turn.
MicAnswered(granted) ==
    /\ mic.pending # "no"
    /\ IF Obtained(granted)
       THEN /\ Waiting("start") # {} => StartProof <= MaxRequests
            /\ late' = late \cup ClosedEarly
            /\ mic' = [mic EXCEPT !.pending = "no", !.open = TRUE,
                          !.connection = IF Waiting("resume") # {}
                                         THEN Started(Connected, store.session)
                                         ELSE Connected]
            /\ segment' = IF Waiting("resume") # {}
                          THEN segment \cup {NextSegment(store.session)} ELSE segment
            /\ store' = IF Waiting("resume") # {}
                        THEN [store EXCEPT !.analyser = TRUE, !.status = "recording",
                                           !.counting = TRUE, !.lost = FALSE]
                        ELSE [store EXCEPT !.analyser = Waiting("start") # {} \/ @]
            /\ proof' = IF Waiting("start") # {} THEN StartProof ELSE proof
            /\ used' = IF proof' > used THEN proof' ELSE used
            /\ call' = [c \in Slots |->
                          CASE c \in Waiting("start") -> Send("start", call[c].workspace, proof')
                            [] c \in Waiting("resume") ->
                                 IF proof = 0 THEN NoCall
                                 ELSE Send("resume", store.workspace, store.session)
                            [] OTHER -> call[c]]
            /\ UNCHANGED dialogs
       ELSE /\ mic' = [mic EXCEPT !.pending = "no"]
            /\ dialogs' = dialogs \cup {op \in {"start", "resume"} : Waiting(op) # {}}
            /\ call' = [c \in Slots |-> IF call[c].stage = "mic" THEN NoCall ELSE call[c]]
            /\ UNCHANGED <<late, segment, store, proofs>>
    /\ UNCHANGED <<overlap, audio, lostPage, page, server, faults>>

\* Fault: asks about the end the wrong way round.
SyncPauseWhenEnding(c) ==
    call' = IF store.session # 0 /\ proof # 0 /\ store.ending
            THEN [call EXCEPT ![c] = Send("pause", store.workspace, store.session)]
            ELSE call

\* syncPause, when a session is open and is not being ended.
SyncPause(c) ==
    call' = IF store.session # 0 /\ proof # 0 /\ ~store.ending
            THEN [call EXCEPT ![c] = Send("pause", store.workspace, store.session)]
            ELSE call

RecorderPaused(m) ==
    IF m.open /\ m.connection.recorder = "recording"
    THEN [m EXCEPT !.connection.recorder = "paused"] ELSE m

ClickPause(c) ==
    /\ MayBegin(c, "pause")
    /\ page.screen = "recording" /\ store.status = "recording"
    /\ ~store.ending
    /\ IF store.counting
       THEN /\ mic' = RecorderPaused(mic)
            /\ store' = [FreezeElapsed(store) EXCEPT !.status = "paused"]
       ELSE UNCHANGED <<mic, store>>
    /\ SyncPause(c)
    /\ UNCHANGED <<overlap, chunks, proofs, record, screen, server, faults>>

\* Fault: only the clock goes on.
RecorderStaysPaused(m) == m
RecorderResumed(m) ==
    IF m.connection.recorder = "paused" THEN [m EXCEPT !.connection.recorder = "recording"] ELSE m

\* resumeRecording: of a live microphone, or of one that must be asked for.
\* What returns false opens the dialog.
ResumeRecording(c) ==
    \/ /\ store.ending \/ store.status = "idle"
       /\ dialogs' = dialogs \cup {"resume"}
       /\ UNCHANGED <<store, mic, call>>
    \/ /\ ~store.ending /\ store.status = "recording"
       /\ call' = IF proof = 0 THEN call
                  ELSE [call EXCEPT ![c] = Send("resume", store.workspace, store.session)]
       /\ dialogs' = dialogs \ {"resume"}
       /\ UNCHANGED <<store, mic>>
    \/ /\ ~store.ending /\ store.status = "paused"
       /\ mic.open /\ mic.connection.live
       /\ mic' = RecorderResumed(mic)
       /\ store' = [store EXCEPT !.status = "recording", !.counting = TRUE, !.lost = FALSE]
       /\ call' = IF proof = 0 THEN call
                  ELSE [call EXCEPT ![c] = Send("resume", store.workspace, store.session)]
       /\ dialogs' = dialogs \ {"resume"}
    \/ /\ ~store.ending /\ store.status = "paused"
       /\ ~(mic.open /\ mic.connection.live)
       /\ MayRecord
       /\ mic' = [mic EXCEPT !.pending = PendingConnect]
       /\ call' = [call EXCEPT ![c] = AwaitMic("resume", store.workspace)]
       /\ dialogs' = dialogs \ {"resume"}
       /\ UNCHANGED store

\* The bar's button, on the recording screen, or the dialog's retry.
ClickResume(c) ==
    /\ MayBegin(c, "resume")
    /\ \/ page.screen = "recording" /\ store.status = "paused"
       \/ "resume" \in dialogs
    /\ ResumeRecording(c)
    /\ UNCHANGED <<overlap, chunks, proofs, record, page, server, faults>>

\* Fault: does not mark the recording as ending before it asks.
EndTwice(c) ==
    /\ MayBegin(c, "end")
    /\ store.session # 0
    /\ call' = [call EXCEPT ![c] = Send("end", store.workspace, store.session)]
    /\ UNCHANGED <<overlap, store, mic, chunks, proofs, record, screen, server, faults>>

\* endRecording, from the bar or from the chip on any other screen.
ClickEnd(c) ==
    /\ MayBegin(c, "end")
    /\ store.session # 0 /\ ~store.ending
    /\ store' = [store EXCEPT !.ending = TRUE]
    /\ call' = [call EXCEPT ![c] = Send("end", store.workspace, store.session)]
    /\ UNCHANGED <<overlap, mic, chunks, proofs, record, screen, server, faults>>

-----------------------------------------------------------------------------
(* The server, as the tab uses it *)

ActiveElsewhere(q) == \E r \in Requests \ {q} : Running(r)

\* A discarded session is of a workspace that its member left or that is gone: the
\* session is asked for, and closed, only after the member has joined again.
Closed(q) == IF server[q].state = "discarded" THEN {"closed", "refused"} ELSE {"closed"}

\* A request id is answered with the session that it started, over or not.
StartAnswers(k) ==
    LET s == server[k.session] IN
    CASE s.state = "none" -> IF ActiveElsewhere(k.session) THEN {"refused"} ELSE {"ok"}
      [] s.state # "none" /\ s.workspace # k.workspace -> {"refused"}
      [] Running(k.session) /\ s.workspace = k.workspace -> {"ok"}
      [] s.state = "ended" /\ s.workspace = k.workspace -> {"over"}
      [] s.state = "discarded" /\ s.workspace = k.workspace -> {"over", "refused"}

ControlAnswers(k) == IF Running(k.session) THEN {"ok"} ELSE Closed(k.session)

\* An end that is served is answered again with the session that it ended.
EndAnswers(k) ==
    {"refused" : b \in {"refused"} \cap BodylessEnds}
      \cup UNION {IF server[k.session].state = "discarded" THEN Closed(k.session) ELSE {"ok"} :
                    b \in {"served"} \cap BodylessEnds}

Answers(k) ==
    CASE k.op = "start" -> StartAnswers(k)
      [] k.op = "end" -> EndAnswers(k)
      [] OTHER -> ControlAnswers(k)

Served(k, answer) ==
    IF answer # "ok" THEN server
    ELSE CASE k.op = "start" /\ server[k.session].state = "none" ->
                [server EXCEPT ![k.session].state = "recording",
                               ![k.session].workspace = k.workspace]
           [] k.op = "pause" -> [server EXCEPT ![k.session].state = "paused"]
           [] k.op = "resume" -> [server EXCEPT ![k.session].state = "recording"]
           [] k.op = "end" -> [server EXCEPT ![k.session].state = "ended"]
           [] OTHER -> server

Answered(c, answer) ==
    call' = [call EXCEPT ![c].stage = "response", ![c].answer = answer]

TabUnchanged == UNCHANGED tab

Serve(c) ==
    /\ call[c].stage = "request"
    /\ \E answer \in Answers(call[c]) :
          server' = Served(call[c], answer) /\ Answered(c, answer)
    /\ TabUnchanged /\ UNCHANGED faults

\* The request or its answer is lost, and the client sees a network error; or the
\* server refuses the request before it looks at the session.
LoseMessage(c) ==
    /\ call[c].stage = "request" /\ faults < MaxFaults
    /\ \/ /\ server' \in {server} \cup {Served(call[c], answer) : answer \in Answers(call[c])}
          /\ Answered(c, "network")
       \/ UNCHANGED server /\ Answered(c, "refused")
    /\ faults' = faults + 1
    /\ TabUnchanged

\* The member leaves the workspace, or it is deleted.
DiscardSession(q) ==
    /\ Running(q) /\ faults < MaxFaults
    /\ server' = [server EXCEPT ![q].state = "discarded"]
    /\ faults' = faults + 1
    /\ TabUnchanged /\ UNCHANGED call

-----------------------------------------------------------------------------
(* The answers *)

\* The recording of the store starts: with the microphone that was connected,
\* with none, or not at all when that microphone is gone and start() throws.
Dead == mic.open /\ ~mic.connection.live

Begin(w, q) ==
    /\ audio' = {}
    /\ IF mic.open
       THEN /\ mic' = [mic EXCEPT !.connection = Started(@, q)]
            /\ segment' = segment \cup {NextSegment(q)}
       ELSE UNCHANGED <<mic, segment>>
    /\ store' = [store EXCEPT !.status = "recording", !.session = q, !.workspace = w,
                              !.counting = TRUE]

StartAnswered(c) ==
    LET k == call[c]
        failed == k.answer \notin {"ok", "over"} \/ (store.status = "idle" /\ Dead) IN
    /\ k.op = "start" /\ k.stage = "response"
    /\ \/ /\ failed
          /\ Disconnect /\ audio' = {} /\ store' = IdleStore
          /\ UNCHANGED <<segment, page>>
       \/ /\ ~failed /\ store.status = "idle"
          /\ Begin(k.workspace, k.session)
          /\ page' = At(k.workspace, "recording")
          /\ UNCHANGED late
       \/ /\ ~failed /\ store.status # "idle"
          /\ page' = At(k.workspace, "recording")
          /\ UNCHANGED <<store, mic, chunks, segment>>
    /\ Return(c)
    /\ UNCHANGED <<overlap, proofs, lostPage, dialogs, server, faults>>

\* Fault: gives the recording up whatever the error is.
GivesUp(answer) == answer # "ok"
\* isClosedRecordingError
IsClosed(answer) == answer = "closed"

ControlAnswered(c) ==
    LET k == call[c] IN
    /\ k.op \in {"pause", "resume"} /\ k.stage = "response"
    /\ IF IsClosed(k.answer)
       THEN CloseRecording(k.workspace)
       ELSE UNCHANGED <<store, mic, chunks, proof, page>>
    /\ Return(c)
    /\ UNCHANGED <<overlap, used, record, dialogs, server, faults>>

\* What stopRecording does once the recorder is silent: the blob goes to upload.
Upload(c, blob) ==
    call' = [call EXCEPT ![c].stage = "issue", ![c].answer = "none", ![c].audio = blob]

EndAnswered(c) ==
    LET k == call[c] IN
    /\ k.op = "end" /\ k.stage = "response"
    /\ \/ /\ IsClosed(k.answer)
          /\ CloseRecording(k.workspace)
          /\ Return(c)
       \/ /\ k.answer # "ok" /\ ~IsClosed(k.answer)
          /\ store' = CancelEnding(store)
          /\ Return(c)
          /\ UNCHANGED <<mic, chunks, proof, page>>
       \/ /\ k.answer = "ok"
          /\ mic.open /\ mic.connection.recorder # "inactive"
          /\ mic' = [mic EXCEPT !.connection.recorder = "inactive", !.connection.flushing = TRUE]
          /\ store' = [FreezeElapsed(store) EXCEPT !.ending = TRUE]
          /\ call' = [call EXCEPT ![c].stage = "stopping"]
          /\ UNCHANGED <<chunks, proof, page>>
       \/ /\ k.answer = "ok"
          /\ ~mic.open \/ mic.connection.recorder = "inactive"
          /\ Disconnect
          /\ store' = [FreezeElapsed(store) EXCEPT !.ending = TRUE, !.analyser = FALSE]
          /\ Upload(c, audio)
          /\ UNCHANGED <<audio, proof, page>>
    /\ UNCHANGED <<overlap, used, record, dialogs, server, faults>>

\* Fault: the blob is made before the last chunk is in.
BlobBeforeLastChunk == audio

\* The recorder's dataavailable, then its stop.
LastChunk == audio \cup IF mic.connection.flushing THEN mic.connection.collects ELSE {}

RecorderStopped(c) ==
    /\ call[c].stage = "stopping"
    /\ Disconnect
    /\ audio' = LastChunk
    /\ store' = [store EXCEPT !.analyser = FALSE]
    /\ Upload(c, LastChunk)
    /\ UNCHANGED <<overlap, proofs, record, screen, server, faults>>

-----------------------------------------------------------------------------
(* The upload: URL, PUT, completion, and again from the URL *)

AUDIO_UPLOAD_MAX_RETRIES == 3

NextStage(stage) == CASE stage = "issue" -> "put" [] stage = "put" -> "complete"

\* An empty file and a completed upload are refused; a missing object is not final.  (So is
\* a file unlike the one reserved: the browser sends the one it announced.)
UploadAnswer(k) ==
    CASE k.stage = "issue" ->
           IF k.audio = {} \/ server[k.session].state # "ended"
              \/ server[k.session].completed # {}
           THEN "refused" ELSE "ok"
      [] k.stage = "put" -> "ok"
      [] k.stage = "complete" -> IF server[k.session].object = {} THEN "network" ELSE "ok"

Uploaded(k) ==
    CASE UploadAnswer(k) # "ok" -> server
      [] k.stage = "put" -> [server EXCEPT ![k.session].object = k.audio]
      [] k.stage = "complete" ->
           [server EXCEPT ![k.session].completed =
               IF @ = {} THEN server[k.session].object ELSE @]
      [] OTHER -> server

\* isRetryableAudioUploadError, within the retries that are left.
Retries(k, answer) == answer = "network" /\ k.retries < AUDIO_UPLOAD_MAX_RETRIES

UploadContinues(c, answer) ==
    LET k == call[c] IN
    \/ /\ answer = "ok" /\ k.stage # "complete"
       /\ call' = [call EXCEPT ![c].stage = NextStage(k.stage)]
       /\ UNCHANGED <<store, mic, chunks, proof, page>>
    \/ /\ Retries(k, answer)
       /\ call' = [call EXCEPT ![c].stage = "issue", ![c].retries = @ + 1]
       /\ UNCHANGED <<store, mic, chunks, proof, page>>
    \/ /\ (answer = "ok" /\ k.stage = "complete") \/ (answer # "ok" /\ ~Retries(k, answer))
       /\ CloseRecording(k.workspace)
       /\ Return(c)

UploadStep(c) ==
    /\ call[c].stage \in {"issue", "put", "complete"}
    /\ server' = Uploaded(call[c])
    /\ UploadContinues(c, UploadAnswer(call[c]))
    /\ UNCHANGED <<overlap, used, record, dialogs, faults>>

\* A step of the upload is lost, or refused to who is no longer a member.
UploadStepLost(c) ==
    /\ call[c].stage \in {"issue", "put", "complete"} /\ faults < MaxFaults
    /\ \/ server' \in {server, Uploaded(call[c])} /\ UploadContinues(c, "network")
       \/ UNCHANGED server /\ UploadContinues(c, "refused")
    /\ faults' = faults + 1
    /\ UNCHANGED <<overlap, used, record, dialogs>>

-----------------------------------------------------------------------------
(* The browser and the screens *)

\* A track ends: the recorder hands over what it has, and onLost pauses.
LoseMicrophone ==
    /\ mic.open /\ mic.connection.live
    /\ MayHappen("loss")
    /\ mic' = [mic EXCEPT !.connection.live = FALSE, !.connection.recorder = "inactive"]
    /\ audio' = IF mic.connection.recorder # "inactive"
                THEN audio \cup mic.connection.collects ELSE audio
    /\ store' = IF store.status = "recording" /\ store.counting
                THEN [FreezeElapsed(store) EXCEPT !.status = "paused", !.analyser = FALSE,
                                                  !.lost = TRUE]
                ELSE [store EXCEPT !.analyser = FALSE, !.lost = TRUE]
    /\ UNCHANGED <<overlap, late, proofs, record, call, screen, server, faults>>

\* Fault: the flag stays, or the screen does not show.
MicrophoneLostUnseen(c) ==
    /\ Free(c) /\ store.lost
    /\ store' = [store EXCEPT !.lost = FALSE]
    /\ SyncPause(c)
    /\ UNCHANGED <<overlap, mic, chunks, proofs, record, screen, server, faults>>

\* The dock's effect on isMicrophoneLost.
MicrophoneLostEffect(c) ==
    /\ Free(c) /\ store.lost
    /\ store' = [store EXCEPT !.lost = FALSE]
    /\ dialogs' = dialogs \cup {"resume"}
    /\ SyncPause(c)
    /\ UNCHANGED <<overlap, mic, chunks, proofs, record, page, server, faults>>

\* Fault: a recorder that was closed still appends.
LateChunkAppended(g) ==
    /\ g \in late
    /\ late' = late \ {g}
    /\ audio' = audio \cup {g}
    /\ UNCHANGED <<overlap, store, mic, proofs, record, call, screen, server, faults>>

\* dataavailable of a connection that is closed is ignored.
LateChunk(g) ==
    /\ g \in late
    /\ late' = late \ {g}
    /\ UNCHANGED <<overlap, store, mic, audio, proofs, record, call, screen, server, faults>>

CloseDialog(d) ==
    /\ d \in dialogs
    /\ dialogs' = dialogs \ {d}
    /\ UNCHANGED <<overlap, store, mic, chunks, proofs, record, call, page, server, faults>>

Navigate(w, to) ==
    /\ MayHappen("navigate")
    /\ page' = At(w, to) /\ page' # page
    /\ UNCHANGED <<overlap, store, mic, chunks, proofs, record, call, dialogs, server, faults>>

\* useRecordingEntryGuard
EntryGuard ==
    /\ page.screen = "recording" /\ store.status = "idle"
    /\ page' = At(page.workspace, "home")
    /\ UNCHANGED <<overlap, store, mic, chunks, proofs, record, call, dialogs, server, faults>>

\* The page is loaded again, whatever the leave warning said.  The store goes
\* and with it the calls and the audio; sessionStorage stays.
Reload ==
    /\ faults < MaxFaults
    /\ faults' = faults + 1
    /\ store' = IdleStore
    /\ mic' = [mic EXCEPT !.open = FALSE, !.connection = NoConnection, !.pending = "no"]
    /\ audio' = {} /\ late' = {}
    /\ lostPage' = segment
    /\ call' = [c \in Slots |-> NoCall]
    /\ dialogs' = {}
    /\ UNCHANGED <<overlap, proofs, segment, page, server>>

-----------------------------------------------------------------------------

Control(c) == ClickMic(c) \/ RetryStart(c) \/ ClickPause(c) \/ ClickResume(c) \/ ClickEnd(c)

Continue(c) ==
    \/ Serve(c)
    \/ StartAnswered(c) \/ ControlAnswered(c) \/ EndAnswered(c)
    \/ RecorderStopped(c) \/ UploadStep(c)

Next ==
    \/ \E c \in Slots : Control(c) \/ Continue(c) \/ MicrophoneLostEffect(c)
                        \/ LoseMessage(c) \/ UploadStepLost(c)
    \/ \E granted \in BOOLEAN : MicAnswered(granted)
    \/ LoseMicrophone
    \/ \E g \in late : LateChunk(g)
    \/ \E d \in dialogs : CloseDialog(d)
    \/ \E w \in Workspaces, to \in {"home", "recording"} : Navigate(w, to)
    \/ EntryGuard
    \/ \E q \in Requests : DiscardSession(q)
    \/ Reload

\* The server and the browser answer, and effects run.
Fairness ==
    /\ \A c \in Slots : WF_vars(Continue(c))
    /\ WF_vars(\E c \in Slots : MicrophoneLostEffect(c))
    /\ WF_vars(MicAnswered(TRUE) \/ MicAnswered(FALSE))
    /\ WF_vars(EntryGuard)

Spec == Init /\ [][Next]_vars
FairSpec == Spec /\ Fairness

-----------------------------------------------------------------------------
(* Properties *)

\* The user waits for every call of the hook before doing anything else.
Patient == overlap = {}

\* The user does not press the microphone while another call is under way: the button permits
\* it, and a call then may outlive the recording that it is of.
StartsAlone == "start" \notin overlap

\* While no call is under way and no loss of the microphone is unhandled, a
\* recording of a patient user that says it records has a recorder that does, of
\* its session (startRecording, resumeRecording and their connections).
RecorderCollects ==
    Patient /\ Quiet /\ store.status = "recording" /\ ~store.lost =>
        /\ mic.open /\ mic.connection.live
        /\ mic.connection.recorder = "recording"
        /\ \A g \in mic.connection.collects : g.session = store.session

\* With no recording and no call that will make one, the microphone is off:
\* no path of failure, loss or reconnection leaves it open.
MicrophoneReleased ==
    store.status = "idle" /\ (\A c \in Slots : call[c].op \notin {"start", "resume", "end"})
        => ~mic.open /\ mic.pending \in {"no", "stale"}

\* What is sent to the upload of a session is all that was recorded of it on
\* this page (stopRecording waits for the last chunk; nothing is dropped on the
\* way), at least of a user who waits ...
EverythingIsUploaded ==
    \A c \in Slots : call[c].stage = "issue" =>
        {g \in segment \ lostPage : g.session = call[c].session} \subseteq call[c].audio
PatientIsUploaded == Patient => EverythingIsUploaded

\* ... and nothing recorded in another session: an earlier recording leaves no
\* chunk behind, not even one that its recorder hands over late.  (An end that
\* outlived its recording stops the next one, and uploads all of that as its own.)
NothingElseIsUploaded ==
    \A c \in Slots : call[c].stage \in {"issue", "put", "complete"} =>
        /\ \A g, h \in call[c].audio : g.session = h.session
        /\ StartsAlone => \A g \in call[c].audio : g.session = call[c].session

\* A recording leaves the store only when its session is over at the server (or
\* the page goes): a request that failed never costs the recording.  Two answers
\* may, if the user starts a recording beside another call: that of a start that
\* fails after the other has begun it, and that of a call of an earlier recording.
DroppedOnlyWhenOver ==
    [][store.status # "idle" /\ store'.status = "idle" =>
         \/ ~Running(store.session)
         \/ lostPage' = segment /\ faults' # faults
         \/ \E c \in Slots :
               /\ call[c].op # "none" /\ call'[c].op = "none" /\ ~StartsAlone
               /\ call[c].op = "start" \/ call[c].session # store.session]_vars

\* When everything was answered, the session is in the state the screen of a
\* patient user shows.
ServerInStep ==
    Patient /\ Quiet /\ faults = 0 /\ ~store.lost /\ store.session # 0 =>
        server[store.session].state = store.status

\* One end at a time: two ends would stop and upload the same recording twice.
OneEnd ==
    StartsAlone => \A c, d \in Slots :
        call[c].op = "end" /\ call[d].op = "end" /\ call[c].session = call[d].session => c = d

\* An end comes to an end: the recording is closed, or goes on.
EndingSettles == store.ending ~> ~store.ending

\* A recording that a lost microphone paused says so, or goes on: it does not
\* stay paused with nobody told.
LossIsShown ==
    store.lost /\ store.status = "paused" ~> "resume" \in dialogs \/ store.status # "paused"

-----------------------------------------------------------------------------
(* What a comment of the repository says, and the code does not do. *)

\* recordingStore: startRecording is called after the session was opened.  The
\* answer to a repeated request tells the session's state, and it is not read.
StartsIntoOpenSession ==
    [][\A c \in Slots : store.status = "idle" /\ store'.status = "recording"
            => ~(StartAnswered(c) /\ call[c].answer = "over")]_vars
=============================================================================
