----------------------- MODULE FrontendRecordingProofs -----------------------
(***************************************************************************)
(* Proofs about the recording of a browser tab, for any workspaces, calls,  *)
(* requests, segments and faults, and for any user.                         *)
(*                                                                          *)
(* TabInv is of every user, whatever overlaps.  RecInv is of one who starts *)
(* no recording beside another call (the button does not see to it, and the *)
(* README says what becomes of a recording if it is pressed then): a call   *)
(* is of the recording in the store or of one that is over, and of a user   *)
(* who waits for every answer there is one call at a time, and each of its  *)
(* stages says what the microphone, the recorder and the server are doing.  *)
(***************************************************************************)
EXTENDS Frontend, FiniteSetTheorems, TLAPS

-----------------------------------------------------------------------------
(* The invariant, of any user ... *)

Over(q) == server[q].state \in {"ended", "discarded"}
Begun(q) == server[q].state # "none"

\* The stages that a call of each kind goes through.
StagesOf(op) ==
    CASE op = "none" -> {"none"}
      [] op \in {"start", "resume"} -> {"mic", "request", "response"}
      [] op = "pause" -> {"request", "response"}
      [] op = "end" -> {"request", "response", "stopping", "issue", "put", "complete"}
Uploading(c) == call[c].stage \in {"issue", "put", "complete"}
Ending(c) == call[c].stage \in {"stopping", "issue", "put", "complete"}

\* A call of any user: what it was told of its session is so, and the audio that it uploads is of
\* one session.
TabCall(c) ==
    LET k == call[c] IN
    /\ k.stage \in StagesOf(k.op)
    /\ k.op # "none" /\ k.stage # "mic" => k.session # 0
    /\ k.op \in {"pause", "resume", "end"} /\ k.stage # "mic" => Begun(k.session)
    /\ k.op = "start" /\ k.stage = "response" /\ k.answer \in {"ok", "over"} => Begun(k.session)
    /\ k.stage = "response" /\ k.answer = "closed" => Over(k.session)
    /\ k.op = "end" /\ k.stage = "response" /\ k.answer = "ok" => Over(k.session)
    /\ Ending(c) => Over(k.session)
    /\ Uploading(c) => \A g, h \in k.audio : g.session = h.session
TabCalls == \A c \in Slots : TabCall(c)

\* The store holds a session that the server knows.
TabStore ==
    /\ store.status = "idle" <=> store.session = 0
    /\ store.session # 0 => Begun(store.session)

\* Without a recording the microphone is on for a start that the server is asked for.
TabMic ==
    /\ ~mic.open => mic.connection = Control!NoConnection
    /\ store.status = "idle" /\ mic.open =>
          \E c \in Slots : call[c].op = "start" /\ call[c].stage \in {"request", "response"}
    /\ mic.pending = "current" => \E c \in Slots : call[c].stage = "mic"
    /\ \A c \in Slots : call[c].stage = "mic" => mic.pending # "no"
    /\ \A c \in Slots : call[c].op = "resume" /\ call[c].stage = "mic" =>
          /\ ~(mic.open /\ mic.connection.live)
          /\ mic.pending = "current" => store.status = "paused"

\* What is kept and gathered is of the recording in the store.
RecAudio == \A g \in audio \cup mic.connection.collects : g.session = store.session

TabInv ==
    Control!TypeOK /\ TabCalls /\ TabStore /\ TabMic /\ RecAudio /\ IsFiniteSet(segment)

-----------------------------------------------------------------------------
(* ... of a user who starts a recording alone *)

\* One call, beside the store and the server: it is of the recording in the store, if there
\* is one, and what it was told of its session is so.
CallIs(c) ==
    LET k == call[c] IN
    /\ k.stage \in StagesOf(k.op)
    /\ k.op \in {"pause", "resume", "end"} /\ k.stage # "mic" =>
          /\ k.session # 0 /\ Begun(k.session)
          /\ store.session \in {0, k.session}
    /\ k.op = "start" =>
          /\ store.status = "idle"
          /\ k.stage # "mic" => k.session = proof /\ proof # 0
          /\ k.stage = "response" /\ k.answer \in {"ok", "over"} => Begun(k.session)
    /\ k.op = "end" => store.session = 0 \/ store.ending
    /\ k.stage = "response" /\ k.answer = "closed" => Over(k.session)
    /\ k.op = "end" /\ k.stage = "response" /\ k.answer = "ok" => Over(k.session)
    /\ Ending(c) => Over(k.session)
    /\ Uploading(c) => \A g \in k.audio : g.session = k.session

RecCalls ==
    /\ \A c \in Slots : CallIs(c)
    /\ \A c, d \in Slots : call[c].op = "start" /\ call[d].op # "none" => c = d
    /\ \A c, d \in Slots : call[c].op = "end" /\ call[d].op = "end" => c = d

Starting == \E c \in Slots : call[c].op = "start"

\* The store holds a session that the server knows, by the request whose proof is kept.
RecStore ==
    /\ store.status = "idle" <=> store.session = 0
    /\ store.session # 0 => proof = store.session /\ Begun(store.session)
    /\ store.ending => \E c \in Slots : call[c].op = "end"

\* The microphone is on for a recording or a start only.
RecMic ==
    /\ ~mic.open => mic.connection = Control!NoConnection
    /\ ~mic.connection.live => mic.connection.recorder = "inactive"
    /\ store.status = "idle" /\ ~Starting => ~mic.open /\ mic.pending # "current"
    /\ \A c \in Slots : call[c].op = "start" /\ call[c].stage = "mic" => ~mic.open
    /\ \A c \in Slots : call[c].op = "resume" /\ call[c].stage = "mic" =>
          /\ ~(mic.open /\ mic.connection.live)
          /\ mic.pending = "current" => store.status = "paused"
    /\ mic.pending = "current" => \E c \in Slots : call[c].stage = "mic"
    /\ mic.connection.flushing => \E c \in Slots : call[c].stage = "stopping"

\* A new request has no session and no segments yet, and neither has the one that is kept, on
\* this page, until its recording starts.
RecSegments ==
    /\ IsFiniteSet(segment)
    /\ proof <= used
    /\ \A g \in segment : g.session <= used
    /\ \A q \in Control!Requests : q > used => server[q].state = "none"
    /\ store.session = 0 /\ proof # 0 => \A g \in segment \ lostPage : g.session # proof

-----------------------------------------------------------------------------
(* ... and of a patient user *)

PatientCalls ==
    /\ \A c, d \in Slots : call[c].op # "none" /\ call[d].op # "none" => c = d
    /\ store.lost => Control!Quiet /\ store.status = "paused"
    /\ \A c \in Slots : call[c].op \in {"pause", "resume", "end"} => store.session # 0

\* Until an end has stopped it, the recorder does what the store says.
PatientMic ==
    /\ \A c \in Slots : call[c].op = "start" /\ call[c].stage # "mic" =>
          mic.open /\ mic.connection.live
    /\ \A c \in Slots : call[c].stage = "stopping" => mic.connection.recorder = "inactive"
    /\ (\A c \in Slots : ~Ending(c)) /\ store.status # "idle" =>
          /\ store.status = "recording" => store.counting /\ mic.open /\ mic.connection.live
          /\ mic.open /\ mic.connection.live => mic.connection.recorder = store.status

\* What was recorded of a session is in the chunks or with the recorder, and then with the upload.
HasHandedOver == mic.connection.recorder = "inactive" /\ ~mic.connection.flushing
OfSession(q) == {g \in segment \ lostPage : g.session = q}
PatientAudio ==
    /\ store.session # 0 =>
          OfSession(store.session) \subseteq
              audio \cup (IF HasHandedOver THEN {} ELSE mic.connection.collects)
    /\ \A c \in Slots : Uploading(c) => OfSession(call[c].session) \subseteq call[c].audio

\* As long as nothing fails, a call that was answered has brought the session to the state of the
\* store, and one that was not will.
SessionState == server[store.session].state
Undisturbed(c) ==
    LET k == call[c] IN
    /\ k.op = "pause" => store.status = "paused"
    /\ k.op = "resume" => store.status = (IF k.stage = "mic" THEN "paused" ELSE "recording")
    /\ k.op \in {"pause", "resume"} =>
          /\ k.stage = "mic" => SessionState = "paused"
          /\ k.stage = "request" => SessionState \in {"recording", "paused"}
          /\ k.stage = "response" => k.answer = "ok" /\ SessionState = store.status
    /\ k.op = "end" /\ k.stage = "request" => SessionState = store.status
    /\ k.op = "end" /\ k.stage = "response" =>
          k.answer = "ok" \/ (k.answer = "refused" /\ SessionState = store.status)
    /\ k.op = "start" /\ k.stage = "response" /\ k.answer \in {"ok", "over"} =>
          server[k.session].state = "recording"
PatientServer ==
    /\ \A c \in Slots : Undisturbed(c)
    /\ store.session # 0 /\ Control!Quiet =>
          \/ SessionState = store.status
          \/ store.lost /\ store.status = "paused" /\ SessionState = "recording"
    /\ store.session = 0 /\ proof # 0 => server[proof].state \in {"none", "recording"}

RecInv ==
    /\ Control!TypeOK /\ RecCalls /\ RecStore /\ RecMic /\ RecAudio /\ RecSegments
    /\ Control!Patient => PatientCalls /\ PatientMic /\ PatientAudio
    /\ Control!Patient /\ recordingFaults = 0 => PatientServer

-----------------------------------------------------------------------------
(* What the definitions come to *)

\* A step of the frontend is one of the recording, or leaves it alone.
LEMMA RecStep == [Next]_vars => [Control!Next]_(Control!vars)
BY DEF Next, Moves, vars, recorderVars, Control!vars, Control!chunks, Control!proofs,
       Control!record, Control!screen

\* The bounds.
LEMMA RecBounds ==
    /\ RecordingWorkspaces # {} /\ IsFiniteSet(Slots)
    /\ MaxRequests \in Nat /\ MaxSegments \in Nat /\ MaxRecordingFaults \in Nat
BY FrontendAssumption DEF Control!RecordingControlAssumption, Control!IsFiniteSet, IsFiniteSet

\* The library's operator, by either name.
LEMMA RecCardinality == ASSUME NEW S PROVE Control!Cardinality(S) = Cardinality(S)
BY DEF Control!Cardinality, Cardinality

\* Some workspace.
LEMMA SomeWorkspace == (CHOOSE w \in RecordingWorkspaces : TRUE) \in RecordingWorkspaces
BY RecBounds

\* The calls that are made.
LEMMA NoCallIs ==
    /\ Control!NoCall \in Control!Call
    /\ Control!NoCall.op = "none" /\ Control!NoCall.stage = "none"
    /\ Control!NoCall.answer = "none" /\ Control!NoCall.session = 0
BY SomeWorkspace, RecBounds DEF Control!NoCall, Control!Call, Control!Segment

\* A request as it is sent.
LEMMA SendIs ==
    ASSUME NEW op \in {"start", "pause", "resume", "end"}, NEW w \in RecordingWorkspaces,
           NEW q \in 0..MaxRequests
    PROVE  /\ Control!Send(op, w, q) \in Control!Call
           /\ Control!Send(op, w, q).op = op /\ Control!Send(op, w, q).stage = "request"
           /\ Control!Send(op, w, q).session = q /\ Control!Send(op, w, q).answer = "none"
BY NoCallIs DEF Control!Send, Control!Call

\* A call that waits for the microphone.
LEMMA AwaitIs ==
    ASSUME NEW op \in {"start", "resume"}, NEW w \in RecordingWorkspaces
    PROVE  /\ Control!AwaitMic(op, w) \in Control!Call
           /\ Control!AwaitMic(op, w).op = op /\ Control!AwaitMic(op, w).stage = "mic"
           /\ Control!AwaitMic(op, w).session = 0 /\ Control!AwaitMic(op, w).answer = "none"
BY NoCallIs DEF Control!AwaitMic, Control!Call

\* A slot gets another call.
LEMMA OneCall ==
    ASSUME Control!TypeOK, NEW c \in Slots, NEW k \in Control!Call,
           call' = [call EXCEPT ![c] = k]
    PROVE  /\ call' \in [Slots -> Control!Call] /\ call'[c] = k
           /\ \A d \in Slots \ {c} : call'[d] = call[d]
BY DEF Control!TypeOK

\* The variables, one by one.
LEMMA RecTypes ==
    ASSUME Control!TypeOK
    PROVE  /\ overlap \in Overlaps /\ store \in Control!Store /\ mic \in Control!Mic
           /\ audio \subseteq Control!Segment /\ late \subseteq Control!Segment
           /\ proof \in Nat /\ used \in Nat /\ proof <= MaxRequests /\ used <= MaxRequests
           /\ segment \subseteq Control!Segment /\ lostPage \subseteq Control!Segment
           /\ call \in [Slots -> Control!Call]
           /\ server \in [Control!Requests -> Control!Session]
           /\ recordingFaults \in Nat
BY RecBounds DEF Control!TypeOK

\* The store, field by field.
LEMMA StoreFields ==
    ASSUME Control!TypeOK
    PROVE  /\ store.status \in {"idle", "recording", "paused"} /\ store.session \in 0..MaxRequests
           /\ store.workspace \in RecordingWorkspaces
           /\ store.ending \in BOOLEAN /\ store.lost \in BOOLEAN
BY DEF Control!TypeOK, Control!Store

\* It is paused, or the clock stopped.
LEMMA StorePauses ==
    ASSUME Control!TypeOK
    PROVE  LET s == [Control!FreezeElapsed(store) EXCEPT !.status = "paused"] IN
           /\ s \in Control!Store /\ s.status = "paused" /\ s.session = store.session
           /\ s.ending = store.ending /\ s.lost = store.lost
BY DEF Control!TypeOK, Control!Store, Control!FreezeElapsed

\* The recorder pauses, if it records.
LEMMA MicPauses ==
    ASSUME Control!TypeOK
    PROVE  LET m == Control!RecorderPaused(mic) IN
           /\ m \in Control!Mic /\ m.open = mic.open /\ m.pending = mic.pending
           /\ m.connection.live = mic.connection.live
           /\ m.connection.collects = mic.connection.collects
           /\ m.connection.flushing = mic.connection.flushing
           /\ mic.open /\ mic.connection.recorder = "recording" => m.connection.recorder = "paused"
           /\ ~(mic.open /\ mic.connection.recorder = "recording") => m = mic
BY DEF Control!TypeOK, Control!Mic, Control!Connection, Control!RecorderPaused

-----------------------------------------------------------------------------
(* The steps, one by one *)

RecView == <<overlap, store, mic, audio, proof, used, segment, lostPage, call, server,
             recordingFaults>>

\* What the invariant says of is all that matters.
LEMMA RecSame ==
    ASSUME RecInv, UNCHANGED RecView, Control!TypeOK'
    PROVE  RecInv'
<1> USE DEF RecView
<1>1. RecCalls' /\ RecStore' /\ RecMic' /\ RecAudio' /\ RecSegments'
  BY DEF RecInv, RecCalls, CallIs, Over, Begun, Uploading, Ending, RecStore, RecMic, Starting,
         RecAudio, RecSegments
<1>2. Control!Patient' => PatientCalls' /\ PatientMic' /\ PatientAudio'
  BY DEF RecInv, Control!Patient, PatientCalls, PatientMic, PatientAudio, Control!Quiet,
         Control!Free, Ending, Uploading, HasHandedOver, OfSession
<1>3. Control!Patient' /\ recordingFaults' = 0 => PatientServer'
  BY DEF RecInv, Control!Patient, PatientServer, Undisturbed, SessionState, Control!Quiet,
         Control!Free
<1> QED
  BY <1>1, <1>2, <1>3 DEF RecInv

\* A slot without a call, and a tab without calls.
LEMMA FreeIs ==
    ASSUME RecInv, NEW c \in Slots, Control!Free(c)
    PROVE  call[c].op = "none" /\ call[c].stage = "none"
BY DEF RecInv, RecCalls, CallIs, StagesOf, Control!Free

\* What a user who waits may do, and one who does not.
LEMMA MayHappenIs ==
    ASSUME RecInv, NEW op, Control!MayHappen(op)
    PROVE  /\ op \in overlap \/ (Control!Quiet /\ ~store.lost)
           /\ Control!Patient => ~store.lost /\ \A c \in Slots : call[c].op = "none" /\ call[c].stage = "none"
BY FreeIs DEF Control!MayHappen, Control!Patient, Control!Quiet

\* What the server has of a session only goes on.
GoesOn == \A q \in Control!Requests : (Over(q) => Over(q)') /\ (Begun(q) => Begun(q)')

\* A call that is left alone.
LEMMA CallKept ==
    ASSUME NEW c \in Slots, CallIs(c), GoesOn, call[c] \in Control!Call, call'[c] = call[c],
           store'.session \in {0, store.session},
           call[c].op = "end" /\ store'.session # 0 /\ store.ending => store'.ending,
           call[c].op = "start" => store'.status = "idle" /\ proof' = proof
    PROVE  CallIs(c)'
<1>1. call[c].session \in Control!Requests \/ call[c].session = 0
  BY RecBounds DEF Control!Call, Control!Requests
<1>2. call[c].stage # "mic" /\ call[c].op # "none" => call[c].session # 0
  BY DEF CallIs, StagesOf, Control!Call
<1>3. call[c].op = "none" => call[c].stage = "none"
  BY DEF CallIs, StagesOf
<1>4. Over(call[c].session) /\ call[c].session # 0 => Over(call[c].session)'
  BY <1>1 DEF GoesOn, Over
<1>5. Begun(call[c].session) /\ call[c].session # 0 => Begun(call[c].session)'
  BY <1>1 DEF GoesOn, Begun
<1> QED
  BY <1>2, <1>3, <1>4, <1>5 DEF CallIs, Uploading, Ending

\* All calls but one are left alone.
LEMMA CallsKept ==
    ASSUME RecCalls, Control!TypeOK, NEW c \in Slots, GoesOn,
           \A d \in Slots \ {c} : call'[d] = call[d],
           store'.session \in {0, store.session},
           \A d \in Slots \ {c} :
               /\ call[d].op = "end" /\ store'.session # 0 /\ store.ending => store'.ending
               /\ call[d].op = "start" => store'.status = "idle" /\ proof' = proof,
           CallIs(c)',
           call'[c].op = "start" =>
               call[c].op = "start" \/ \A d \in Slots \ {c} : call[d].op = "none",
           call'[c].op \in {"none", call[c].op} \/ \A d \in Slots \ {c} : call[d].op # "start",
           call'[c].op = "end" =>
               call[c].op = "end" \/ \A d \in Slots \ {c} : call[d].op # "end"
    PROVE  RecCalls'
<1>1. ASSUME NEW d \in Slots \ {c} PROVE CallIs(d)'
  <2>1. CallIs(d) /\ call[d] \in Control!Call
    BY RecTypes DEF RecCalls
  <2> QED
    BY <2>1, CallKept
<1>2. \A d \in Slots : CallIs(d)'
  BY <1>1
<1>3. (\A d, e \in Slots : call[d].op = "start" /\ call[e].op # "none" => d = e)'
  BY DEF RecCalls
<1>4. (\A d, e \in Slots : call[d].op = "end" /\ call[e].op = "end" => d = e)'
  BY DEF RecCalls
<1> QED
  BY <1>2, <1>3, <1>4 DEF RecCalls

\* The user pauses, at a recording that records.
LEMMA ClickPauseKeeps ==
    ASSUME RecInv, NEW c \in Slots, Control!ClickPause(c)
    PROVE  RecInv'
<1> DEFINE k == Control!Send("pause", store.workspace, store.session)
<1>t. Control!TypeOK
  BY DEF RecInv
<1>s. /\ store.status = "recording" /\ ~store.ending /\ store.session # 0
      /\ Begun(store.session) /\ proof = store.session
  BY <1>t, StoreFields DEF RecInv, RecStore, Control!ClickPause
<1>k. /\ k \in Control!Call /\ k.op = "pause" /\ k.stage = "request"
      /\ k.session = store.session /\ k.answer = "none"
  BY <1>t, StoreFields, SendIs
<1>c. call' = [call EXCEPT ![c] = k]
  BY <1>s DEF Control!ClickPause, Control!SyncPause
<1> HIDE DEF k
<1>d. /\ call' \in [Slots -> Control!Call] /\ call'[c] = k
      /\ \A d \in Slots \ {c} : call'[d] = call[d]
  BY <1>t, <1>c, <1>k, OneCall
<1>f. call[c].op = "none" /\ call[c].stage = "none"
  BY FreeIs DEF Control!ClickPause, Control!MayBegin
<1>u. /\ UNCHANGED <<overlap, audio, late, proof, used, segment, lostPage, page, dialogs, server,
                     recordingFaults>>
  BY DEF Control!ClickPause, Control!chunks, Control!proofs, Control!record, Control!screen
<1>m. /\ store' \in Control!Store /\ store'.session = store.session
      /\ store'.status \in {"recording", "paused"} /\ store'.ending = store.ending
      /\ store'.lost = store.lost
      /\ mic' \in Control!Mic /\ mic'.open = mic.open /\ mic'.pending = mic.pending
      /\ mic'.connection.live = mic.connection.live
      /\ mic'.connection.collects = mic.connection.collects
      /\ mic'.connection.flushing = mic.connection.flushing
      /\ ~mic.open => mic' = mic
      /\ mic'.connection.recorder \in {mic.connection.recorder, "paused"}
      /\ mic.connection.recorder = "inactive" => mic'.connection.recorder = "inactive"
      /\ mic.connection.recorder # "inactive" => mic'.connection.recorder # "inactive"
      /\ store.counting =>
            /\ store'.status = "paused"
            /\ mic.open /\ mic.connection.recorder = "recording"
                  => mic'.connection.recorder = "paused"
      /\ store.status = "paused" => mic' = mic
  BY <1>t, <1>s, StorePauses, MicPauses, RecTypes DEF Control!ClickPause
<1>1. Control!TypeOK'
  BY <1>t, <1>d, <1>u, <1>m DEF Control!TypeOK
<1>2. RecCalls'
  <2>1. GoesOn
    BY <1>u DEF GoesOn, Over, Begun
  <2>2. CallIs(c)'
    BY <1>s, <1>k, <1>d, <1>u, <1>m DEF CallIs, Begun, StagesOf, Uploading, Ending
  <2>3. \A d \in Slots \ {c} : call[d].op # "start"
    BY <1>s DEF RecInv, RecCalls, CallIs
  <2> QED
    BY <1>t, <1>s, <1>k, <1>d, <1>m, <2>1, <2>2, <2>3, CallsKept DEF RecInv
<1>3. RecStore'
  BY <1>t, <1>s, <1>d, <1>f, <1>u, <1>m DEF RecInv, RecStore, Begun
<1>4. RecMic'
  BY <1>t, <1>s, <1>k, <1>d, <1>f, <1>u, <1>m DEF RecInv, RecMic, Starting
<1>5. RecAudio'
  BY <1>u, <1>m DEF RecInv, RecAudio
<1>6. RecSegments'
  BY <1>s, <1>k, <1>d, <1>f, <1>u, <1>m DEF RecInv, RecSegments
<1>7. Control!Patient' =>
          Control!Patient /\ ~store.lost /\ \A d \in Slots : call[d].op = "none" /\ call[d].stage = "none"
  BY <1>u, MayHappenIs DEF Control!Patient, Control!ClickPause, Control!MayBegin
<1>8. ASSUME Control!Patient' PROVE PatientCalls'
  BY <1>7, <1>8, <1>s, <1>k, <1>d, <1>m DEF RecInv, PatientCalls, Control!Quiet
<1>9. ASSUME Control!Patient' PROVE PatientMic'
  BY <1>7, <1>9, <1>s, <1>k, <1>d, <1>m DEF RecInv, PatientMic, Ending
<1>10. ASSUME Control!Patient' PROVE PatientAudio'
  BY <1>7, <1>10, <1>s, <1>k, <1>d, <1>u, <1>m
     DEF RecInv, PatientAudio, HasHandedOver, OfSession, Uploading, Control!Quiet, Control!Free
<1>11. ASSUME Control!Patient', recordingFaults' = 0 PROVE PatientServer'
  <2>1. store.counting
    BY <1>7, <1>11, <1>s DEF RecInv, PatientMic, Ending
  <2>2. SessionState' = "recording"
    BY <1>7, <1>11, <1>s, <1>u, <1>m DEF RecInv, PatientServer, SessionState, Control!Quiet, Control!Free
  <2>3. ASSUME NEW d \in Slots PROVE Undisturbed(d)'
    <3>1. CASE d = c
      BY <3>1, <1>k, <1>d, <1>m, <2>1, <2>2 DEF Undisturbed
    <3>2. CASE d # c
      BY <3>2, <1>7, <1>11, <1>d DEF Undisturbed
    <3> QED
      BY <3>1, <3>2
  <2>4. ~Control!Quiet'
    BY <1>k, <1>d DEF Control!Quiet, Control!Free
  <2> QED
    BY <2>3, <2>4, <1>s, <1>m DEF PatientServer
<1> QED
  BY <1>1, <1>2, <1>3, <1>4, <1>5, <1>6, <1>8, <1>9, <1>10, <1>11 DEF RecInv

\* The steps between screens, and what a recorder that was closed hands over.
LEMMA ScreensKeep ==
    ASSUME RecInv,
           \/ \E w \in RecordingWorkspaces, to \in {"home", "recording"} : Control!Navigate(w, to)
           \/ Control!EntryGuard
           \/ \E d \in dialogs : Control!CloseDialog(d)
           \/ \E g \in late : Control!LateChunk(g)
    PROVE  RecInv'
<1> USE DEF Control!chunks, Control!proofs, Control!record, Control!screen
<1>t. Control!TypeOK
  BY DEF RecInv
<1>1. ASSUME NEW w \in RecordingWorkspaces, NEW to \in {"home", "recording"},
             Control!Navigate(w, to)
      PROVE  UNCHANGED RecView /\ Control!TypeOK'
  BY <1>1, <1>t DEF Control!Navigate, Control!TypeOK, Control!At, RecView
<1>2. ASSUME Control!EntryGuard PROVE UNCHANGED RecView /\ Control!TypeOK'
  BY <1>2, <1>t DEF Control!EntryGuard, Control!TypeOK, Control!At, RecView
<1>3. ASSUME NEW d \in dialogs, Control!CloseDialog(d) PROVE UNCHANGED RecView /\ Control!TypeOK'
  BY <1>3, <1>t DEF Control!CloseDialog, Control!TypeOK, RecView
<1>4. ASSUME NEW g \in late, Control!LateChunk(g) PROVE UNCHANGED RecView /\ Control!TypeOK'
  BY <1>4, <1>t DEF Control!LateChunk, Control!TypeOK, RecView
<1> QED
  BY <1>1, <1>2, <1>3, <1>4, RecSame

\* A start asks for the microphone, with nothing else under way.
LEMMA StartKeeps ==
    ASSUME RecInv, Control!StartsAlone, NEW c \in Slots, Control!ClickMic(c) \/ Control!RetryStart(c)
    PROVE  RecInv'
<1> USE DEF Control!chunks, Control!proofs, Control!record, Control!screen
<1> DEFINE k == Control!AwaitMic("start", page.workspace)
<1>t. Control!TypeOK /\ page \in [workspace: RecordingWorkspaces, screen: {"home", "recording"}]
  BY DEF RecInv, Control!TypeOK
<1>u. /\ Control!StartRecording(c, page.workspace)
      /\ UNCHANGED <<overlap, store, audio, late, proof, used, segment, lostPage, server,
                     recordingFaults>>
      /\ dialogs' \subseteq dialogs
  BY DEF Control!ClickMic, Control!RetryStart
<1>q. ~store.lost /\ \A d \in Slots : call[d].op = "none" /\ call[d].stage = "none"
  <2>1. "start" \notin overlap
    BY DEF Control!StartsAlone
  <2>2. Control!Quiet /\ ~store.lost
    BY <2>1, MayHappenIs DEF Control!ClickMic, Control!RetryStart, Control!MayBegin
  <2> QED
    BY <2>2, FreeIs DEF Control!Quiet
<1>1. CASE store.status # "idle"
  <2>1. UNCHANGED RecView /\ page' \in [workspace: RecordingWorkspaces, screen: {"home", "recording"}]
    BY <1>1, <1>t, <1>u DEF Control!StartRecording, Control!At, RecView
  <2>2. Control!TypeOK'
    BY <1>t, <1>u, <2>1 DEF Control!TypeOK, RecView
  <2> QED
    BY <2>1, <2>2, RecSame
<1>2. CASE store.status = "idle"
  <2>k. /\ k \in Control!Call /\ k.op = "start" /\ k.stage = "mic"
        /\ k.session = 0 /\ k.answer = "none"
    BY <1>t, AwaitIs
  <2>c. /\ call' = [call EXCEPT ![c] = k] /\ UNCHANGED page
        /\ mic' = [mic EXCEPT !.pending = Control!PendingConnect] /\ Control!MayRecord
    BY <1>2, <1>u DEF Control!StartRecording
  <2> HIDE DEF k
  <2>d. /\ call' \in [Slots -> Control!Call] /\ call'[c] = k
        /\ \A d \in Slots \ {c} : call'[d] = call[d]
    BY <1>t, <2>c, <2>k, OneCall
  <2>m. /\ mic' \in Control!Mic /\ mic'.open = mic.open /\ mic'.connection = mic.connection
        /\ ~mic.open /\ mic.connection = Control!NoConnection
    <3>1. Control!PendingConnect \in {"no", "current", "stale"}
      BY <1>t DEF Control!TypeOK, Control!Mic, Control!PendingConnect
    <3> QED
      BY <1>t, <1>2, <1>q, <2>c, <3>1, RecTypes
         DEF Control!Mic, RecInv, RecMic, Starting
  <2>1. Control!TypeOK'
    BY <1>t, <1>u, <2>c, <2>d, <2>m DEF Control!TypeOK
  <2>2. RecCalls'
    <3>1. GoesOn
      BY <1>u DEF GoesOn, Over, Begun
    <3>2. CallIs(c)'
      BY <1>2, <1>u, <2>k, <2>d DEF CallIs, StagesOf, Uploading, Ending
    <3> QED
      BY <1>t, <1>u, <1>q, <2>d, <2>k, <3>1, <3>2, CallsKept, StoreFields DEF RecInv
  <2>3. RecStore'
    BY <1>q, <1>u, <1>2 DEF RecInv, RecStore, Begun
  <2>4. RecMic'
    BY <1>q, <1>u, <2>k, <2>d, <2>m DEF RecInv, RecMic, Starting, Control!NoConnection, Control!Connected
  <2>5. RecAudio'
    BY <1>u, <2>m DEF RecInv, RecAudio
  <2>6. RecSegments'
    BY <1>u DEF RecInv, RecSegments
  <2>7. PatientCalls'
    BY <1>q, <1>u, <2>d, <2>k DEF PatientCalls
  <2>8. PatientMic'
    BY <1>q, <1>u, <1>2, <2>d, <2>k DEF PatientMic
  <2>9. ASSUME Control!Patient PROVE PatientAudio'
    BY <2>9, <1>q, <1>u, <1>2, <2>d, <2>k, <2>m
       DEF RecInv, PatientAudio, Uploading, HasHandedOver, OfSession
  <2>10. ASSUME Control!Patient, recordingFaults = 0 PROVE PatientServer'
    <3>1. store.session = 0
      BY <1>2 DEF RecInv, RecStore
    <3>2. \A d \in Slots : Undisturbed(d)'
      BY <1>q, <2>d, <2>k DEF Undisturbed
    <3> QED
      BY <2>10, <1>u, <3>1, <3>2 DEF RecInv, PatientServer
  <2> QED
    BY <1>u, <2>1, <2>2, <2>3, <2>4, <2>5, <2>6, <2>7, <2>8, <2>9, <2>10
       DEF RecInv, Control!Patient
<1> QED
  BY <1>1, <1>2

\* A recording goes on.
LEMMA StoreResumes ==
    ASSUME Control!TypeOK
    PROVE  LET s == [store EXCEPT !.status = "recording", !.counting = TRUE, !.lost = FALSE] IN
           /\ s \in Control!Store /\ s.status = "recording" /\ s.session = store.session
           /\ s.ending = store.ending /\ ~s.lost /\ s.counting
BY DEF Control!TypeOK, Control!Store

\* The recorder goes on, if it is paused.
LEMMA MicResumes ==
    ASSUME Control!TypeOK
    PROVE  LET m == Control!RecorderResumed(mic) IN
           /\ m \in Control!Mic /\ m.open = mic.open /\ m.pending = mic.pending
           /\ m.connection.live = mic.connection.live
           /\ m.connection.collects = mic.connection.collects
           /\ m.connection.flushing = mic.connection.flushing
           /\ mic.connection.recorder = "paused" => m.connection.recorder = "recording"
           /\ mic.connection.recorder # "paused" => m = mic
BY DEF Control!TypeOK, Control!Mic, Control!Connection, Control!RecorderResumed

\* Of a microphone that is live: the recording goes on, and the server is told.
LEMMA ResumeLiveKeeps ==
    ASSUME RecInv, NEW c \in Slots, Control!ClickResume(c), ~store.ending,
           \/ store.status = "recording" /\ UNCHANGED <<store, mic>>
           \/ /\ store.status = "paused" /\ mic.open /\ mic.connection.live
              /\ mic' = Control!RecorderResumed(mic)
              /\ store' = [store EXCEPT !.status = "recording", !.counting = TRUE, !.lost = FALSE],
           call' = IF proof = 0 THEN call
                   ELSE [call EXCEPT ![c] = Control!Send("resume", store.workspace, store.session)],
           dialogs' = dialogs \ {"resume"}
    PROVE  RecInv'
<1> DEFINE k == Control!Send("resume", store.workspace, store.session)
<1>t. Control!TypeOK
  BY DEF RecInv
<1>s. /\ store.session # 0 /\ Begun(store.session) /\ proof = store.session
  BY <1>t, StoreFields DEF RecInv, RecStore
<1>k. /\ k \in Control!Call /\ k.op = "resume" /\ k.stage = "request"
      /\ k.session = store.session /\ k.answer = "none"
  BY <1>t, StoreFields, SendIs
<1>c. call' = [call EXCEPT ![c] = k]
  BY <1>s
<1> HIDE DEF k
<1>d. /\ call' \in [Slots -> Control!Call] /\ call'[c] = k
      /\ \A d \in Slots \ {c} : call'[d] = call[d]
  BY <1>t, <1>c, <1>k, OneCall
<1>f. call[c].op = "none" /\ call[c].stage = "none"
  BY FreeIs DEF Control!ClickResume, Control!MayBegin
<1>u. /\ UNCHANGED <<overlap, audio, late, proof, used, segment, lostPage, page, server,
                     recordingFaults>>
  BY DEF Control!ClickResume, Control!chunks, Control!proofs, Control!record, Control!screen
<1>m. /\ store' \in Control!Store /\ store'.session = store.session
      /\ store'.status = "recording" /\ store'.ending = store.ending
      /\ store'.lost => store.lost
      /\ store.status = "recording" => store' = store
      /\ store.status # "recording" => store'.counting /\ mic.open /\ mic.connection.live
      /\ mic' \in Control!Mic /\ mic'.open = mic.open /\ mic'.pending = mic.pending
      /\ mic'.connection.live = mic.connection.live
      /\ mic'.connection.collects = mic.connection.collects
      /\ mic'.connection.flushing = mic.connection.flushing
      /\ ~mic.open \/ ~mic.connection.live => mic' = mic
      /\ mic.connection.recorder = "inactive" <=> mic'.connection.recorder = "inactive"
      /\ mic.connection.recorder = "recording" => mic'.connection.recorder = "recording"
      /\ mic.connection.recorder = "paused" /\ store.status # "recording"
            => mic'.connection.recorder = "recording"
  <2>1. CASE store.status = "recording" /\ UNCHANGED <<store, mic>>
    BY <2>1, <1>t, RecTypes
  <2>2. CASE store.status = "paused" /\ mic.open /\ mic.connection.live
             /\ mic' = Control!RecorderResumed(mic)
             /\ store' = [store EXCEPT !.status = "recording", !.counting = TRUE, !.lost = FALSE]
    <3>1. mic.connection.recorder \in {"inactive", "recording", "paused"}
      BY <1>t DEF Control!TypeOK, Control!Mic, Control!Connection
    <3> QED
      BY <2>2, <3>1, <1>t, StoreResumes, MicResumes
  <2> QED
    BY <2>1, <2>2
<1>1. Control!TypeOK'
  BY <1>t, <1>d, <1>u, <1>m DEF Control!TypeOK
<1>2. RecCalls'
  <2>1. GoesOn
    BY <1>u DEF GoesOn, Over, Begun
  <2>2. CallIs(c)'
    BY <1>s, <1>k, <1>d, <1>u, <1>m DEF CallIs, Begun, StagesOf, Uploading, Ending
  <2>3. \A d \in Slots \ {c} : call[d].op # "start"
    BY <1>s DEF RecInv, RecCalls, CallIs, RecStore
  <2> QED
    BY <1>t, <1>s, <1>k, <1>d, <1>m, <2>1, <2>2, <2>3, CallsKept DEF RecInv
<1>3. RecStore'
  BY <1>t, <1>s, <1>d, <1>f, <1>u, <1>m DEF RecInv, RecStore, Begun
<1>4. RecMic'
  <2>1. \A d \in Slots : call[d].op = "resume" /\ call[d].stage = "mic" =>
           ~(mic.open /\ mic.connection.live) /\ (mic.pending = "current" => store.status = "paused")
    BY DEF RecInv, RecMic
  <2>2. \A d \in Slots : call'[d].op = "resume" /\ call'[d].stage = "mic" =>
           /\ ~(mic.open /\ mic.connection.live)
           /\ mic.pending # "current"
    <3>1. CASE store.status = "recording"
      BY <3>1, <2>1, <1>k, <1>d
    <3>2. CASE store.status # "recording"
      BY <3>2, <2>1, <1>k, <1>d, <1>m
    <3> QED
      BY <3>1, <3>2
  <2> QED
    BY <2>2, <1>s, <1>k, <1>d, <1>f, <1>m DEF RecInv, RecMic, Starting
<1>5. RecAudio'
  BY <1>u, <1>m DEF RecInv, RecAudio
<1>6. RecSegments'
  BY <1>s, <1>k, <1>d, <1>f, <1>u, <1>m DEF RecInv, RecSegments
<1>7. Control!Patient' =>
          Control!Patient /\ ~store.lost /\ \A d \in Slots : call[d].op = "none" /\ call[d].stage = "none"
  BY <1>u, MayHappenIs DEF Control!Patient, Control!ClickResume, Control!MayBegin
<1>8. ASSUME Control!Patient' PROVE PatientCalls'
  BY <1>7, <1>8, <1>s, <1>k, <1>d, <1>m DEF RecInv, PatientCalls, Control!Quiet
<1>9. ASSUME Control!Patient' PROVE PatientMic'
  BY <1>7, <1>9, <1>s, <1>k, <1>d, <1>m DEF RecInv, RecStore, PatientMic, Ending
<1>10. ASSUME Control!Patient' PROVE PatientAudio'
  BY <1>7, <1>10, <1>s, <1>k, <1>d, <1>u, <1>m
     DEF RecInv, PatientAudio, HasHandedOver, OfSession, Uploading
<1>11. ASSUME Control!Patient', recordingFaults' = 0 PROVE PatientServer'
  <2>2. SessionState' \in {"recording", "paused"}
    BY <1>7, <1>11, <1>s, <1>u, <1>m
       DEF RecInv, PatientServer, SessionState, Control!Quiet, Control!Free
  <2>3. ASSUME NEW d \in Slots PROVE Undisturbed(d)'
    <3>1. CASE d = c
      BY <3>1, <1>k, <1>d, <1>m, <2>2 DEF Undisturbed
    <3>2. CASE d # c
      BY <3>2, <1>7, <1>11, <1>d DEF Undisturbed
    <3> QED
      BY <3>1, <3>2
  <2>4. ~Control!Quiet'
    BY <1>k, <1>d DEF Control!Quiet, Control!Free
  <2> QED
    BY <2>3, <2>4, <1>s, <1>m DEF PatientServer
<1> QED
  BY <1>1, <1>2, <1>3, <1>4, <1>5, <1>6, <1>8, <1>9, <1>10, <1>11 DEF RecInv

\* Of a microphone that is gone: another is asked for.
LEMMA ResumeAwaitsKeeps ==
    ASSUME RecInv, NEW c \in Slots, Control!ClickResume(c), ~store.ending,
           store.status = "paused", ~(mic.open /\ mic.connection.live), Control!MayRecord,
           mic' = [mic EXCEPT !.pending = Control!PendingConnect],
           call' = [call EXCEPT ![c] = Control!AwaitMic("resume", store.workspace)],
           dialogs' = dialogs \ {"resume"}, UNCHANGED store
    PROVE  RecInv'
<1> DEFINE k == Control!AwaitMic("resume", store.workspace)
<1>t. Control!TypeOK
  BY DEF RecInv
<1>s. /\ store.session # 0 /\ Begun(store.session) /\ proof = store.session
  BY <1>t, StoreFields DEF RecInv, RecStore
<1>k. /\ k \in Control!Call /\ k.op = "resume" /\ k.stage = "mic"
      /\ k.session = 0 /\ k.answer = "none"
  BY <1>t, StoreFields, AwaitIs
<1>c. call' = [call EXCEPT ![c] = k]
  OBVIOUS
<1> HIDE DEF k
<1>d. /\ call' \in [Slots -> Control!Call] /\ call'[c] = k
      /\ \A d \in Slots \ {c} : call'[d] = call[d]
  BY <1>t, <1>c, <1>k, OneCall
<1>f. call[c].op = "none" /\ call[c].stage = "none"
  BY FreeIs DEF Control!ClickResume, Control!MayBegin
<1>u. /\ UNCHANGED <<overlap, store, audio, late, proof, used, segment, lostPage, page, server,
                     recordingFaults>>
  BY DEF Control!ClickResume, Control!chunks, Control!proofs, Control!record, Control!screen
<1>m. mic' \in Control!Mic /\ mic'.open = mic.open /\ mic'.connection = mic.connection
  <2>1. Control!PendingConnect \in {"no", "current", "stale"}
    BY <1>t DEF Control!TypeOK, Control!Mic, Control!PendingConnect
  <2> QED
    BY <1>t, <2>1, RecTypes DEF Control!Mic
<1>1. Control!TypeOK'
  BY <1>t, <1>d, <1>u, <1>m DEF Control!TypeOK
<1>2. RecCalls'
  <2>1. GoesOn
    BY <1>u DEF GoesOn, Over, Begun
  <2>2. CallIs(c)'
    BY <1>k, <1>d DEF CallIs, StagesOf, Uploading, Ending
  <2>3. \A d \in Slots \ {c} : call[d].op # "start"
    BY DEF RecInv, RecCalls, CallIs
  <2> QED
    BY <1>t, <1>u, <1>k, <1>d, <2>1, <2>2, <2>3, CallsKept DEF RecInv
<1>3. RecStore'
  BY <1>d, <1>f, <1>u DEF RecInv, RecStore, Begun
<1>4. RecMic'
  BY <1>k, <1>d, <1>f, <1>u, <1>m DEF RecInv, RecMic, Starting
<1>5. RecAudio'
  BY <1>u, <1>m DEF RecInv, RecAudio
<1>6. RecSegments'
  BY <1>u DEF RecInv, RecSegments
<1>7. Control!Patient' =>
          Control!Patient /\ ~store.lost /\ \A d \in Slots : call[d].op = "none" /\ call[d].stage = "none"
  BY <1>u, MayHappenIs DEF Control!Patient, Control!ClickResume, Control!MayBegin
<1>8. ASSUME Control!Patient' PROVE PatientCalls'
  BY <1>7, <1>8, <1>s, <1>k, <1>d, <1>u DEF RecInv, PatientCalls, Control!Quiet
<1>9. ASSUME Control!Patient' PROVE PatientMic'
  BY <1>7, <1>9, <1>s, <1>k, <1>d, <1>m, <1>u DEF RecInv, RecStore, PatientMic, Ending
<1>10. ASSUME Control!Patient' PROVE PatientAudio'
  BY <1>7, <1>10, <1>s, <1>k, <1>d, <1>u, <1>m
     DEF RecInv, PatientAudio, HasHandedOver, OfSession, Uploading
<1>11. ASSUME Control!Patient', recordingFaults' = 0 PROVE PatientServer'
  <2>2. SessionState' = "paused"
    BY <1>7, <1>11, <1>s, <1>u DEF RecInv, PatientServer, SessionState, Control!Quiet, Control!Free
  <2>3. ASSUME NEW d \in Slots PROVE Undisturbed(d)'
    <3>1. CASE d = c
      BY <3>1, <1>k, <1>d, <1>u, <2>2 DEF Undisturbed
    <3>2. CASE d # c
      BY <3>2, <1>7, <1>11, <1>d DEF Undisturbed
    <3> QED
      BY <3>1, <3>2
  <2>4. ~Control!Quiet'
    BY <1>k, <1>d DEF Control!Quiet, Control!Free
  <2> QED
    BY <2>3, <2>4, <1>s, <1>u DEF PatientServer
<1> QED
  BY <1>1, <1>2, <1>3, <1>4, <1>5, <1>6, <1>8, <1>9, <1>10, <1>11 DEF RecInv

\* The user, or the dialog, resumes.
LEMMA ClickResumeKeeps ==
    ASSUME RecInv, NEW c \in Slots, Control!ClickResume(c)
    PROVE  RecInv'
<1>1. Control!ResumeRecording(c)
  BY DEF Control!ClickResume
<1>2. CASE UNCHANGED <<store, mic, call>> /\ dialogs' = dialogs \cup {"resume"}
  <2>1. UNCHANGED RecView /\ UNCHANGED <<late, page>>
    BY <1>2 DEF Control!ClickResume, Control!chunks, Control!proofs, Control!record, RecView
  <2>2. Control!TypeOK'
    BY <1>2, <2>1 DEF RecInv, Control!TypeOK, RecView
  <2> QED
    BY <2>1, <2>2, RecSame
<1>3. CASE ~(UNCHANGED <<store, mic, call>> /\ dialogs' = dialogs \cup {"resume"})
  BY <1>1, <1>3, ResumeLiveKeeps, ResumeAwaitsKeeps DEF Control!ResumeRecording
<1> QED
  BY <1>2, <1>3

\* The user ends the recording.
LEMMA ClickEndKeeps ==
    ASSUME RecInv, NEW c \in Slots, Control!ClickEnd(c)
    PROVE  RecInv'
<1> DEFINE k == Control!Send("end", store.workspace, store.session)
<1>t. Control!TypeOK
  BY DEF RecInv
<1>s. /\ store.session # 0 /\ store.status # "idle" /\ ~store.ending
      /\ Begun(store.session) /\ proof = store.session
  BY <1>t, StoreFields DEF RecInv, RecStore, Control!ClickEnd
<1>k. /\ k \in Control!Call /\ k.op = "end" /\ k.stage = "request"
      /\ k.session = store.session /\ k.answer = "none"
  BY <1>t, StoreFields, SendIs
<1>c. call' = [call EXCEPT ![c] = k]
  BY DEF Control!ClickEnd
<1> HIDE DEF k
<1>d. /\ call' \in [Slots -> Control!Call] /\ call'[c] = k
      /\ \A d \in Slots \ {c} : call'[d] = call[d]
  BY <1>t, <1>c, <1>k, OneCall
<1>f. call[c].op = "none" /\ call[c].stage = "none"
  BY FreeIs DEF Control!ClickEnd, Control!MayBegin
<1>u. /\ UNCHANGED <<overlap, mic, audio, late, proof, used, segment, lostPage, page, dialogs,
                     server, recordingFaults>>
  BY DEF Control!ClickEnd, Control!chunks, Control!proofs, Control!record, Control!screen
<1>m. /\ store' \in Control!Store /\ store'.session = store.session
      /\ store'.status = store.status /\ store'.ending
      /\ store'.lost = store.lost /\ store'.counting = store.counting
  BY <1>t DEF Control!TypeOK, Control!Store, Control!ClickEnd
<1>1. Control!TypeOK'
  BY <1>t, <1>d, <1>u, <1>m DEF Control!TypeOK
<1>2. RecCalls'
  <2>1. GoesOn
    BY <1>u DEF GoesOn, Over, Begun
  <2>2. CallIs(c)'
    BY <1>s, <1>k, <1>d, <1>u, <1>m DEF CallIs, Begun, StagesOf, Uploading, Ending
  <2>3. \A d \in Slots \ {c} : call[d].op # "start" /\ call[d].op # "end"
    BY <1>s DEF RecInv, RecCalls, CallIs
  <2> QED
    BY <1>t, <1>s, <1>k, <1>d, <1>m, <2>1, <2>2, <2>3, CallsKept DEF RecInv
<1>3. RecStore'
  BY <1>s, <1>k, <1>d, <1>u, <1>m DEF RecInv, RecStore, Begun
<1>4. RecMic'
  BY <1>s, <1>k, <1>d, <1>f, <1>u, <1>m DEF RecInv, RecMic, Starting
<1>5. RecAudio'
  BY <1>u, <1>m DEF RecInv, RecAudio
<1>6. RecSegments'
  BY <1>s, <1>k, <1>d, <1>f, <1>u, <1>m DEF RecInv, RecSegments
<1>7. Control!Patient' =>
          Control!Patient /\ ~store.lost /\ \A d \in Slots : call[d].op = "none" /\ call[d].stage = "none"
  BY <1>u, MayHappenIs DEF Control!Patient, Control!ClickEnd, Control!MayBegin
<1>8. ASSUME Control!Patient' PROVE PatientCalls'
  BY <1>7, <1>8, <1>s, <1>k, <1>d, <1>m DEF RecInv, PatientCalls, Control!Quiet
<1>9. ASSUME Control!Patient' PROVE PatientMic'
  BY <1>7, <1>9, <1>s, <1>k, <1>d, <1>m, <1>u DEF RecInv, PatientMic, Ending
<1>10. ASSUME Control!Patient' PROVE PatientAudio'
  BY <1>7, <1>10, <1>s, <1>k, <1>d, <1>u, <1>m
     DEF RecInv, PatientAudio, HasHandedOver, OfSession, Uploading
<1>11. ASSUME Control!Patient', recordingFaults' = 0 PROVE PatientServer'
  <2>2. SessionState' = store.status
    BY <1>7, <1>11, <1>s, <1>u, <1>m
       DEF RecInv, PatientServer, SessionState, Control!Quiet, Control!Free
  <2>3. ASSUME NEW d \in Slots PROVE Undisturbed(d)'
    <3>1. CASE d = c
      BY <3>1, <1>k, <1>d, <1>m, <2>2 DEF Undisturbed
    <3>2. CASE d # c
      BY <3>2, <1>7, <1>11, <1>d DEF Undisturbed
    <3> QED
      BY <3>1, <3>2
  <2>4. ~Control!Quiet'
    BY <1>k, <1>d DEF Control!Quiet, Control!Free
  <2> QED
    BY <2>3, <2>4, <1>s, <1>m DEF PatientServer
<1> QED
  BY <1>1, <1>2, <1>3, <1>4, <1>5, <1>6, <1>8, <1>9, <1>10, <1>11 DEF RecInv


\* The loss of the microphone is shown, and the pause that it made is told to the server.
LEMMA LostEffectKeeps ==
    ASSUME RecInv, NEW c \in Slots, Control!MicrophoneLostEffect(c)
    PROVE  RecInv'
<1> DEFINE k == Control!Send("pause", store.workspace, store.session)
<1>t. Control!TypeOK
  BY DEF RecInv
<1>f. call[c].op = "none" /\ call[c].stage = "none"
  BY FreeIs DEF Control!MicrophoneLostEffect
<1>u. /\ UNCHANGED <<overlap, mic, audio, late, proof, used, segment, lostPage, page, server,
                     recordingFaults>>
      /\ dialogs' = dialogs \cup {"resume"}
  BY DEF Control!MicrophoneLostEffect, Control!chunks, Control!proofs, Control!record
<1>m. /\ store' \in Control!Store /\ store'.session = store.session /\ store.lost /\ ~store'.lost
      /\ store'.status = store.status /\ store'.ending = store.ending
      /\ store'.counting = store.counting
  BY <1>t DEF Control!TypeOK, Control!Store, Control!MicrophoneLostEffect
<1>p. Control!Patient => \A d \in Slots : call[d].op = "none" /\ call[d].stage = "none"
  BY <1>m, FreeIs DEF RecInv, PatientCalls, Control!Quiet
<1>y. SessionState' = SessionState
  BY <1>u, <1>m DEF SessionState
<1>1. CASE store.session # 0 /\ proof # 0 /\ ~store.ending
  <2>s. store.status # "idle" /\ Begun(store.session)
    BY <1>1 DEF RecInv, RecStore
  <2>k. /\ k \in Control!Call /\ k.op = "pause" /\ k.stage = "request"
        /\ k.session = store.session /\ k.answer = "none"
    BY <1>t, StoreFields, SendIs
  <2>c. call' = [call EXCEPT ![c] = k]
    BY <1>1 DEF Control!MicrophoneLostEffect, Control!SyncPause
  <2> HIDE DEF k
  <2>d. /\ call' \in [Slots -> Control!Call] /\ call'[c] = k
        /\ \A d \in Slots \ {c} : call'[d] = call[d]
    BY <1>t, <2>c, <2>k, OneCall
  <2>1. Control!TypeOK'
    BY <1>t, <2>d, <1>u, <1>m DEF Control!TypeOK
  <2>2. RecCalls'
    <3>1. GoesOn
      BY <1>u DEF GoesOn, Over, Begun
    <3>2. CallIs(c)'
      BY <1>1, <2>s, <2>k, <2>d, <1>u, <1>m DEF CallIs, Begun, StagesOf, Uploading, Ending
    <3>3. \A d \in Slots \ {c} : call[d].op # "start"
      BY <2>s DEF RecInv, RecCalls, CallIs
    <3> QED
      BY <1>t, <2>k, <2>d, <1>m, <3>1, <3>2, <3>3, CallsKept DEF RecInv
  <2>3. RecStore'
    BY <1>1, <2>d, <1>f, <1>u, <1>m DEF RecInv, RecStore, Begun
  <2>4. RecMic'
    BY <2>s, <2>k, <2>d, <1>f, <1>u, <1>m DEF RecInv, RecMic, Starting
  <2>5. RecAudio'
    BY <1>u, <1>m DEF RecInv, RecAudio
  <2>6. RecSegments'
    BY <1>1, <2>k, <2>d, <1>f, <1>u, <1>m DEF RecInv, RecSegments
  <2>8. ASSUME Control!Patient' PROVE PatientCalls'
    BY <1>p, <1>u, <1>1, <2>k, <2>d, <1>m, <2>8 DEF Control!Patient, PatientCalls
  <2>9. ASSUME Control!Patient' PROVE PatientMic'
    BY <1>p, <1>u, <2>s, <2>k, <2>d, <1>m, <2>9 DEF RecInv, Control!Patient, PatientMic, Ending
  <2>10. ASSUME Control!Patient' PROVE PatientAudio'
    BY <1>p, <1>u, <2>k, <2>d, <1>m, <2>10
       DEF RecInv, Control!Patient, PatientAudio, HasHandedOver, OfSession, Uploading
  <2>11. ASSUME Control!Patient', recordingFaults' = 0 PROVE PatientServer'
    <3>1. /\ Control!Quiet /\ Control!Patient /\ PatientServer /\ PatientMic
      BY <1>p, <1>u, <2>11 DEF RecInv, Control!Patient, Control!Quiet, Control!Free
    <3>2. SessionState \in {"recording", "paused"}
      BY <2>s, <3>1, <1>t, StoreFields DEF PatientServer, RecInv, RecStore
    <3>3. store.status = "paused"
      BY <3>1, <1>m DEF RecInv, PatientCalls
    <3>4. ASSUME NEW d \in Slots PROVE Undisturbed(d)'
      <4>1. CASE d = c
        BY <4>1, <2>k, <2>d, <1>m, <3>2, <3>3, <1>y DEF Undisturbed
      <4>2. CASE d # c
        BY <4>2, <1>p, <3>1, <2>d DEF Undisturbed
      <4> QED
        BY <4>1, <4>2
    <3>5. ~Control!Quiet'
      BY <2>k, <2>d DEF Control!Quiet, Control!Free
    <3> QED
      BY <3>4, <3>5, <1>1, <1>m DEF PatientServer
  <2> QED
    BY <2>1, <2>2, <2>3, <2>4, <2>5, <2>6, <2>8, <2>9, <2>10, <2>11 DEF RecInv
<1>2. CASE ~(store.session # 0 /\ proof # 0 /\ ~store.ending)
  <2>c. call' = call
    BY <1>2 DEF Control!MicrophoneLostEffect, Control!SyncPause
  <2>1. Control!TypeOK'
    BY <1>t, <2>c, <1>u, <1>m DEF Control!TypeOK
  <2>2. RecCalls'
    BY <1>m, <1>u, <2>c DEF RecInv, RecCalls, CallIs, Over, Begun, Uploading, Ending
  <2>3. RecStore'
    BY <1>m, <1>u, <2>c DEF RecInv, RecStore, Begun
  <2>4. RecMic'
    BY <1>m, <1>u, <2>c DEF RecInv, RecMic, Starting
  <2>5. RecAudio' /\ RecSegments'
    BY <1>m, <1>u, <2>c DEF RecInv, RecAudio, RecSegments
  <2>s. ASSUME Control!Patient' PROVE store.session = 0
    BY <2>s, <1>2, <1>p, <1>u DEF RecInv, RecStore, Control!Patient
  <2>8. ASSUME Control!Patient' PROVE PatientCalls' /\ PatientMic' /\ PatientAudio'
    BY <1>p, <1>u, <2>c, <1>m, <2>s, <2>8
       DEF RecInv, RecStore, Control!Patient, PatientCalls, PatientMic, PatientAudio, Uploading
  <2>9. ASSUME Control!Patient', recordingFaults' = 0 PROVE PatientServer'
    <3>1. \A d \in Slots : Undisturbed(d)'
      BY <1>p, <1>u, <2>c, <2>9 DEF Undisturbed, Control!Patient
    <3> QED
      BY <3>1, <2>s, <2>9, <1>u, <1>m DEF RecInv, Control!Patient, PatientServer
  <2> QED
    BY <2>1, <2>2, <2>3, <2>4, <2>5, <2>8, <2>9 DEF RecInv
<1> QED
  BY <1>1, <1>2

-----------------------------------------------------------------------------
(* The server and its answers *)

\* A call goes to its next stage, with or without an answer.
LEMMA CallGoesOn ==
    ASSUME Control!TypeOK, NEW c \in Slots,
           NEW s \in {"response", "stopping", "issue", "put", "complete"},
           NEW a \in {"none", "ok", "over", "closed", "refused", "network"},
           call' = [call EXCEPT ![c].stage = s, ![c].answer = a]
    PROVE  /\ call' \in [Slots -> Control!Call]
           /\ call'[c].op = call[c].op /\ call'[c].session = call[c].session
           /\ call'[c].audio = call[c].audio
           /\ call'[c].stage = s /\ call'[c].answer = a
           /\ \A d \in Slots \ {c} : call'[d] = call[d]
<1> DEFINE k == [call[c] EXCEPT !.stage = s, !.answer = a]
<1>1. call \in [Slots -> Control!Call] /\ call[c] \in Control!Call
  BY RecTypes
<1>2. call' = [call EXCEPT ![c] = k]
  BY <1>1
<1>3. /\ k \in Control!Call /\ k.op = call[c].op /\ k.session = call[c].session
      /\ k.audio = call[c].audio /\ k.stage = s /\ k.answer = a
  BY <1>1 DEF Control!Call
<1> HIDE DEF k
<1> QED
  BY <1>2, <1>3, OneCall

LEMMA CallStops ==
    ASSUME Control!TypeOK, NEW c \in Slots,
           call' = [call EXCEPT ![c].stage = "stopping"]
    PROVE  /\ call' \in [Slots -> Control!Call]
           /\ call'[c].op = call[c].op /\ call'[c].session = call[c].session
           /\ call'[c].audio = call[c].audio
           /\ call'[c].stage = "stopping" /\ call'[c].answer = call[c].answer
           /\ \A d \in Slots \ {c} : call'[d] = call[d]
<1> DEFINE k == [call[c] EXCEPT !.stage = "stopping"]
<1>1. call \in [Slots -> Control!Call] /\ call[c] \in Control!Call
  BY RecTypes
<1>2. call' = [call EXCEPT ![c] = k]
  BY <1>1
<1>3. /\ k \in Control!Call /\ k.op = call[c].op /\ k.session = call[c].session
      /\ k.audio = call[c].audio /\ k.stage = "stopping" /\ k.answer = call[c].answer
  BY <1>1 DEF Control!Call
<1> HIDE DEF k
<1> QED
  BY <1>2, <1>3, OneCall

LEMMA AnsweredIs ==
    ASSUME Control!TypeOK, NEW c \in Slots,
           NEW a \in {"ok", "over", "closed", "refused", "network"}, Control!Answered(c, a)
    PROVE  /\ call' \in [Slots -> Control!Call]
           /\ call'[c].op = call[c].op /\ call'[c].session = call[c].session
           /\ call'[c].audio = call[c].audio
           /\ call'[c].stage = "response" /\ call'[c].answer = a
           /\ \A d \in Slots \ {c} : call'[d] = call[d]
<1> DEFINE k == [call[c] EXCEPT !.stage = "response", !.answer = a]
<1>1. call \in [Slots -> Control!Call] /\ call[c] \in Control!Call
  BY RecTypes
<1>2. call' = [call EXCEPT ![c] = k]
  BY <1>1 DEF Control!Answered
<1>3. /\ k \in Control!Call /\ k.op = call[c].op /\ k.session = call[c].session
      /\ k.audio = call[c].audio /\ k.stage = "response" /\ k.answer = a
  BY <1>1 DEF Control!Call
<1> HIDE DEF k
<1> QED
  BY <1>2, <1>3, OneCall

\* A call asks the server for a session that was begun, or that it begins.
Asks(c, q) ==
    /\ call[c].stage = "request" /\ call[c].session = q /\ q \in Control!Requests
    /\ call[c].op \in {"start", "pause", "resume", "end"}
    /\ call[c].op # "start" => Begun(q)

\* A request is of a session that was begun, or that the request begins.
LEMMA RequestIs ==
    ASSUME RecInv, NEW c \in Slots, call[c].stage = "request"
    PROVE  /\ call[c] \in Control!Call /\ call[c].op \in {"start", "pause", "resume", "end"}
           /\ call[c].session \in Control!Requests /\ call[c].session <= used
           /\ call[c].op # "start" => Begun(call[c].session) /\ store.session \in {0, call[c].session}
           /\ call[c].op = "start" => call[c].session = proof /\ store.session = 0
<1>t. Control!TypeOK /\ RecCalls /\ RecStore /\ RecSegments /\ CallIs(c)
  BY DEF RecInv, RecCalls
<1>1. call[c] \in Control!Call /\ call[c].op \in {"start", "pause", "resume", "end"}
  BY <1>t, RecTypes DEF CallIs, StagesOf, Control!Call
<1>2. call[c].session # 0
  BY <1>t, <1>1 DEF CallIs
<1>3. call[c].session \in Control!Requests
  BY <1>1, <1>2, RecBounds DEF Control!Call, Control!Requests
<1>4. /\ call[c].op # "start" => Begun(call[c].session) /\ store.session \in {0, call[c].session}
      /\ call[c].op = "start" => call[c].session = proof /\ store.session = 0
  BY <1>t, <1>1 DEF CallIs, RecStore
<1>5. call[c].session <= used
  <2>1. CASE call[c].op = "start"
    BY <2>1, <1>4, <1>t DEF RecSegments
  <2>2. CASE call[c].op # "start"
    <3>1. Begun(call[c].session) /\ used \in Nat /\ call[c].session \in Nat
      BY <2>2, <1>3, <1>4, <1>t, RecTypes, RecBounds DEF Control!Requests
    <3> QED
      BY <3>1, <1>3, <1>t DEF RecSegments, Begun
  <2> QED
    BY <2>1, <2>2
<1> QED
  BY <1>1, <1>3, <1>4, <1>5

\* What the server may say to a request.
LEMMA AnswersAre ==
    ASSUME Control!TypeOK, NEW c \in Slots, NEW q, Asks(c, q), NEW a \in Control!Answers(call[c])
    PROVE  /\ a \in {"ok", "over", "closed", "refused"}
           /\ call[c].op = "start" =>
                 /\ a # "closed"
                 /\ a = "ok" => server[q].state = "none" \/ Control!Running(q)
                 /\ a = "over" => Over(q)
           /\ call[c].op \in {"pause", "resume"} =>
                 IF Control!Running(q) THEN a = "ok" ELSE a \in {"closed", "refused"} /\ Over(q)
           /\ call[c].op = "end" =>
                 /\ a \in {"ok", "closed", "refused"}
                 /\ a = "closed" => Over(q)
<1> DEFINE k == call[c]
<1>r. /\ k.op \in {"start", "pause", "resume", "end"}
      /\ k.op # "start" => Begun(q)
      /\ k.session = q /\ a \in Control!Answers(k)
  BY DEF Asks
<1>x. server[q].state \in {"none", "recording", "paused", "ended", "discarded"}
  <2>1. server \in [Control!Requests -> Control!Session] /\ q \in Control!Requests
    BY RecTypes DEF Asks
  <2> QED
    BY <2>1 DEF Control!Session
<1> HIDE DEF k
<1>1. CASE k.op = "start"
  <2>1. a \in Control!StartAnswers(k)
    BY <1>1, <1>r DEF Control!Answers
  <2>2. \/ server[q].state = "none" /\ a \in {"ok", "refused"}
        \/ server[q].state # "none" /\ a = "refused"
        \/ Control!Running(q) /\ a = "ok"
        \/ server[q].state = "ended" /\ a = "over"
        \/ server[q].state = "discarded" /\ a \in {"over", "refused"}
    <3>1. CASE server[q].state = "none"
      BY <3>1, <2>1, <1>r DEF Control!StartAnswers
    <3>2. CASE server[q].state # "none" /\ server[q].workspace # k.workspace
      BY <3>2, <2>1, <1>r DEF Control!StartAnswers, Control!Running
    <3>3. CASE server[q].state \in {"recording", "paused"} /\ server[q].workspace = k.workspace
      BY <3>3, <2>1, <1>r DEF Control!StartAnswers, Control!Running
    <3>4. CASE server[q].state = "ended" /\ server[q].workspace = k.workspace
      BY <3>4, <2>1, <1>r DEF Control!StartAnswers, Control!Running
    <3>5. CASE server[q].state = "discarded" /\ server[q].workspace = k.workspace
      BY <3>5, <2>1, <1>r DEF Control!StartAnswers, Control!Running
    <3> QED
      BY <3>1, <3>2, <3>3, <3>4, <3>5, <1>x
  <2> QED
    BY <2>2, <1>1 DEF k, Over, Control!Running
<1>2. CASE k.op \in {"pause", "resume"}
  <2>1. a \in IF Control!Running(q) THEN {"ok"} ELSE Control!Closed(q)
    BY <1>2, <1>r DEF Control!Answers, Control!ControlAnswers
  <2>2. Control!Running(q) \/ Over(q)
    BY <1>2, <1>r, <1>x DEF Control!Running, Over, Begun
  <2> QED
    BY <2>1, <2>2, <1>2 DEF k, Control!Closed
<1>3. CASE k.op = "end"
  <2>1. a \in Control!EndAnswers(k)
    BY <1>3, <1>r DEF Control!Answers
  <2>2. a = "refused" \/ a \in (IF server[q].state = "discarded" THEN Control!Closed(q) ELSE {"ok"})
    BY <2>1, <1>r DEF Control!EndAnswers
  <2> QED
    BY <2>2, <1>3 DEF k, Control!Closed, Over
<1> QED
  BY <1>1, <1>2, <1>3, <1>r DEF k

\* What the server makes of a request.
LEMMA ServedIs ==
    ASSUME Control!TypeOK, NEW c \in Slots, NEW q, Asks(c, q),
           NEW a \in Control!Answers(call[c]), server' = Control!Served(call[c], a)
    PROVE  /\ server' \in [Control!Requests -> Control!Session] /\ GoesOn
           /\ \A p \in Control!Requests \ {q} : server'[p] = server[p]
           /\ a \in {"ok", "over", "closed", "refused"}
           /\ a # "ok" => server' = server
           /\ call[c].op = "start" /\ a \in {"ok", "over"} => Begun(q)'
           /\ a = "closed" => Over(q)'
           /\ call[c].op = "end" /\ a = "ok" => Over(q)'
           /\ call[c].op \in {"pause", "resume"} /\ Control!Running(q) =>
                 /\ a = "ok"
                 /\ server'[q].state = (IF call[c].op = "pause" THEN "paused" ELSE "recording")
           /\ call[c].op = "end" /\ Control!Running(q) => a \in {"ok", "refused"}
           /\ call[c].op = "start" /\ server[q].state \in {"none", "recording"} =>
                 /\ server'[q].state \in {"none", "recording"}
                 /\ a \in {"ok", "over"} => server'[q].state = "recording"
<1> DEFINE k == call[c]
<1>t. server \in [Control!Requests -> Control!Session]
  BY RecTypes
<1>r. /\ k \in Control!Call /\ k.op \in {"start", "pause", "resume", "end"}
      /\ q \in Control!Requests /\ k.session = q
      /\ k.op # "start" => Begun(q)
  BY RecTypes DEF Asks
<1>w. k.workspace \in RecordingWorkspaces
  BY <1>r DEF Control!Call
<1>a. /\ a \in {"ok", "over", "closed", "refused"}
      /\ k.op = "start" =>
            /\ a # "closed"
            /\ a = "ok" => server[q].state = "none" \/ Control!Running(q)
            /\ a = "over" => Over(q)
      /\ k.op \in {"pause", "resume"} =>
            IF Control!Running(q) THEN a = "ok" ELSE a \in {"closed", "refused"} /\ Over(q)
      /\ k.op = "end" => a \in {"ok", "closed", "refused"} /\ (a = "closed" => Over(q))
  BY AnswersAre
<1>s. server' = Control!Served(k, a)
  OBVIOUS
<1> HIDE DEF k
<1>0. CASE a # "ok"
  <2>1. server' = server
    BY <1>0, <1>s DEF Control!Served
  <2>2. k.op \in {"pause", "resume"} => ~Control!Running(q)
    BY <1>0, <1>a
  <2>3. a = "over" => Over(q) /\ Begun(q)
    BY <1>a, <1>r DEF Over, Begun
  <2>4. a = "closed" => Over(q) /\ ~Control!Running(q)
    BY <1>a, <1>r DEF Over, Control!Running
  <2>5. k.op = "start" /\ server[q].state \in {"none", "recording"} => a \notin {"ok", "over"}
    BY <1>0, <2>3 DEF Over
  <2>6. /\ GoesOn /\ server' \in [Control!Requests -> Control!Session]
        /\ server'[q] = server[q] /\ \A p \in Control!Requests \ {q} : server'[p] = server[p]
    BY <2>1, <1>t DEF GoesOn, Over, Begun
  <2>7. (Over(q) => Over(q)') /\ (Begun(q) => Begun(q)')
    BY <2>6 DEF Over, Begun
  <2> QED
    BY <1>0, <1>a, <2>1, <2>2, <2>3, <2>4, <2>5, <2>6, <2>7 DEF k
<1>1. CASE k.op = "start" /\ a = "ok" /\ server[q].state = "none"
  <2>1. server' = [server EXCEPT ![q].state = "recording", ![q].workspace = k.workspace]
    BY <1>1, <1>r, <1>s DEF Control!Served
  <2>2. /\ server' \in [Control!Requests -> Control!Session]
        /\ server'[q].state = "recording"
        /\ \A p \in Control!Requests \ {q} : server'[p] = server[p]
    <3> DEFINE s == [server[q] EXCEPT !.state = "recording", !.workspace = k.workspace]
    <3>1. server' = [server EXCEPT ![q] = s]
      BY <2>1, <1>t, <1>r
    <3>2. s \in Control!Session /\ s.state = "recording"
      BY <1>t, <1>r, <1>w DEF Control!Session
    <3> HIDE DEF s
    <3> QED
      BY <3>1, <3>2, <1>t, <1>r
  <2>3. GoesOn
    BY <2>2, <1>1 DEF GoesOn, Over, Begun
  <2> QED
    BY <2>2, <2>3, <1>1 DEF k, Begun
<1>2. CASE k.op = "start" /\ a = "ok" /\ server[q].state # "none"
  <2>1. server' = server
    BY <1>2, <1>r, <1>s DEF Control!Served
  <2> QED
    BY <2>1, <1>2, <1>a, <1>t DEF k, GoesOn, Over, Begun, Control!Running
<1>3. CASE k.op # "start" /\ a = "ok"
  <2> DEFINE to == CASE k.op = "pause" -> "paused" [] k.op = "resume" -> "recording"
                     [] k.op = "end" -> "ended"
  <2>1. server' = [server EXCEPT ![q].state = to]
    BY <1>3, <1>r, <1>s DEF Control!Served
  <2>2. /\ to \in {"paused", "recording", "ended"}
        /\ k.op \in {"pause", "resume"} => to = (IF k.op = "pause" THEN "paused" ELSE "recording")
        /\ k.op = "end" => to = "ended"
    BY <1>3, <1>r
  <2> HIDE DEF to
  <2>3. /\ server' \in [Control!Requests -> Control!Session]
        /\ server'[q].state = to
        /\ \A p \in Control!Requests \ {q} : server'[p] = server[p]
    BY <2>1, <2>2, <1>t, <1>r DEF Control!Session
  <2>4. k.op \in {"pause", "resume"} => ~Over(q)
    BY <1>3, <1>a DEF Over, Control!Running
  <2>5. GoesOn
    BY <2>2, <2>3, <2>4, <1>3, <1>r DEF GoesOn, Over, Begun
  <2> QED
    BY <2>2, <2>3, <2>5, <1>3, <1>r, <1>a DEF k, Over
<1> QED
  BY <1>0, <1>1, <1>2, <1>3

\* A request is answered, or it or its answer is lost.
LEMMA AnsweredKeeps ==
    ASSUME RecInv, NEW c \in Slots, call[c].stage = "request", Control!TabUnchanged,
           NEW a, Control!Answered(c, a),
           \/ /\ a \in Control!Answers(call[c]) /\ server' = Control!Served(call[c], a)
              /\ recordingFaults' = recordingFaults
           \/ /\ a = "network"
              /\ server' \in {server} \cup
                              {Control!Served(call[c], b) : b \in Control!Answers(call[c])}
              /\ recordingFaults < MaxRecordingFaults /\ recordingFaults' = recordingFaults + 1
           \/ /\ a = "refused" /\ server' = server
              /\ recordingFaults < MaxRecordingFaults /\ recordingFaults' = recordingFaults + 1
    PROVE  RecInv'
<1>q. PICK q : q = call[c].session
  OBVIOUS
<1>t. Control!TypeOK
  BY DEF RecInv
<1>u. /\ UNCHANGED <<overlap, store, mic, audio, late, proof, used, segment, lostPage, page,
                     dialogs>>
  BY DEF Control!TabUnchanged, Control!tab, Control!chunks, Control!proofs, Control!record,
         Control!screen
<1>r. /\ call[c] \in Control!Call /\ call[c].op \in {"start", "pause", "resume", "end"}
      /\ q \in Control!Requests /\ q <= used
      /\ call[c].op # "start" => Begun(q) /\ store.session \in {0, q}
      /\ call[c].op = "start" => q = proof /\ store.session = 0
  BY <1>q, RequestIs DEF Begun
<1>k. Asks(c, q)
  BY <1>q, <1>r DEF Asks
<1>v. /\ server' \in [Control!Requests -> Control!Session] /\ GoesOn
      /\ \A p \in Control!Requests \ {q} : server'[p] = server[p]
      /\ a \in {"ok", "over", "closed", "refused", "network"}
      /\ call[c].op = "start" /\ a \in {"ok", "over"} => Begun(q)'
      /\ a = "closed" => Over(q)'
      /\ call[c].op = "end" /\ a = "ok" => Over(q)'
  <2>1. CASE a \in Control!Answers(call[c]) /\ server' = Control!Served(call[c], a)
    BY <2>1, <1>k, <1>t, ServedIs
  <2>2. CASE server' = server /\ a \in {"network", "refused"}
    BY <2>2, <1>q, <1>t, RecTypes DEF GoesOn, Over, Begun
  <2>3. CASE a = "network" /\ \E b \in Control!Answers(call[c]) : server' = Control!Served(call[c], b)
    BY <2>3, <1>k, <1>t, ServedIs
  <2> QED
    BY <2>1, <2>2, <2>3
<1>d. /\ call' \in [Slots -> Control!Call]
      /\ call'[c].op = call[c].op /\ call'[c].session = q /\ call'[c].audio = call[c].audio
      /\ call'[c].stage = "response" /\ call'[c].answer = a
      /\ \A d \in Slots \ {c} : call'[d] = call[d]
  <2>1. PICK b \in {"ok", "over", "closed", "refused", "network"} : b = a
    BY <1>v
  <2>2. Control!Answered(c, b)
    BY <2>1
  <2> QED
    BY <2>1, <2>2, <1>q, <1>t, AnsweredIs
<1>1. Control!TypeOK'
  <2>1. recordingFaults' \in 0..MaxRecordingFaults
    BY <1>t, RecBounds DEF Control!TypeOK
  <2> QED
    BY <2>1, <1>t, <1>d, <1>u, <1>v DEF Control!TypeOK
<1>c. CallIs(c)
  BY DEF RecInv, RecCalls
<1>2. RecCalls'
  <2>1. CallIs(c)'
    <3>1. Begun(q) => Begun(q)'
      BY <1>v, <1>r DEF GoesOn
    <3> QED
      BY <3>1, <1>r, <1>v, <1>d, <1>u, <1>c, <1>q DEF CallIs, StagesOf, Uploading, Ending
  <2> QED
    BY <2>1, <1>t, <1>r, <1>v, <1>d, <1>u, CallsKept DEF RecInv, RecCalls, CallIs
<1>s. Begun(store.session) /\ store.session # 0 => Begun(store.session)'
  <2>1. store.session # 0 => store.session \in Control!Requests
    BY <1>t, StoreFields, RecBounds DEF Control!Requests
  <2> QED
    BY <2>1, <1>u, <1>v DEF GoesOn, Begun
<1>3. RecStore'
  <2>1. store.ending => \E d \in Slots : call'[d].op = "end"
    BY <1>d DEF RecInv, RecStore
  <2> QED
    BY <2>1, <1>s, <1>u DEF RecInv, RecStore, Begun
<1>o. /\ \A d \in Slots : call'[d].op = call[d].op
      /\ \A d \in Slots : call'[d].stage # call[d].stage => d = c
      /\ call[c].stage = "request" /\ call'[c].stage = "response"
  BY <1>d
<1>4. RecMic'
  BY <1>u, <1>o DEF RecInv, RecMic, Starting
<1>5. RecAudio'
  BY <1>u DEF RecInv, RecAudio
<1>6. RecSegments'
  <2>1. \A p \in Control!Requests : p > used => server'[p].state = "none"
    <3>1. ASSUME NEW p \in Control!Requests, p > used PROVE p # q
      BY <3>1, <1>r, <1>t, RecTypes, RecBounds DEF Control!Requests
    <3> QED
      BY <3>1, <1>v DEF RecInv, RecSegments
  <2> QED
    BY <2>1, <1>u, <1>o DEF RecInv, RecSegments
<1>8. ASSUME Control!Patient' PROVE PatientCalls'
  BY <1>8, <1>u, <1>o, <1>r DEF RecInv, Control!Patient, PatientCalls, Control!Quiet, Control!Free
<1>9. ASSUME Control!Patient' PROVE PatientMic'
  BY <1>9, <1>u, <1>o DEF RecInv, Control!Patient, PatientMic, Ending
<1>10. ASSUME Control!Patient' PROVE PatientAudio'
  <2>1. \A d \in Slots : Uploading(d)' => call'[d] = call[d] /\ Uploading(d)
    BY <1>d DEF Uploading
  <2> QED
    BY <2>1, <1>10, <1>u DEF RecInv, Control!Patient, PatientAudio, HasHandedOver, OfSession
<1>11. ASSUME Control!Patient', recordingFaults' = 0 PROVE PatientServer'
  <2>1. Control!Patient /\ recordingFaults = 0 /\ PatientServer /\ PatientCalls
    BY <1>11, <1>u, <1>t, RecTypes DEF RecInv, Control!Patient
  <2>2. a \in Control!Answers(call[c]) /\ server' = Control!Served(call[c], a)
    BY <1>11, <1>t, RecTypes
  <2>3. \A d \in Slots \ {c} : call'[d].op = "none"
    BY <2>1, <1>r, <1>o DEF PatientCalls
  <2>4. ~Control!Quiet'
    BY <1>r, <1>o DEF Control!Quiet, Control!Free
  <2>5. Undisturbed(c)
    BY <2>1 DEF PatientServer
  <2>6. CASE call[c].op = "start"
    <3>1. server[q].state \in {"none", "recording"} /\ q = proof /\ proof # 0 /\ store.session = 0
      BY <2>1, <2>6, <1>r, <1>c, <1>q DEF PatientServer, CallIs
    <3>2. /\ server'[q].state \in {"none", "recording"}
          /\ a \in {"ok", "over"} => server'[q].state = "recording"
      BY <3>1, <2>2, <2>6, <1>k, <1>t, ServedIs
    <3>3. Undisturbed(c)'
      BY <3>2, <2>6, <1>d DEF Undisturbed
    <3>4. \A d \in Slots : Undisturbed(d)'
      BY <3>3, <2>3 DEF Undisturbed
    <3> QED
      BY <3>1, <3>2, <3>4, <1>u DEF PatientServer
  <2>7. CASE call[c].op # "start"
    <3>1. store.session = q /\ store.session # 0
      BY <2>1, <2>7, <1>r DEF PatientCalls
    <3>2. call[c].op \in {"pause", "resume"} => Control!Running(q)
      BY <3>1, <2>5 DEF Undisturbed, SessionState, Control!Running
    <3>3. call[c].op = "end" => Control!Running(q)
      BY <3>1, <2>5, <1>t, StoreFields DEF Undisturbed, SessionState, Control!Running, RecInv, RecStore
    <3>4. /\ call[c].op \in {"pause", "resume"} => a = "ok"
          /\ call[c].op = "end" => a = "ok" \/ (a = "refused" /\ server' = server)
      BY <3>2, <3>3, <2>2, <2>7, <1>r, <1>k, <1>t, ServedIs
    <3>5. call[c].op \in {"pause", "resume"} =>
             server'[q].state = (IF call[c].op = "pause" THEN "paused" ELSE "recording")
      BY <3>2, <2>2, <1>k, <1>t, ServedIs
    <3>6. SessionState' = server'[q].state /\ SessionState = server[q].state
      BY <3>1, <1>u DEF SessionState
    <3>7. Undisturbed(c)'
      BY <3>4, <3>5, <3>6, <2>5, <2>7, <1>d, <1>u DEF Undisturbed
    <3>8. \A d \in Slots : Undisturbed(d)'
      BY <3>7, <2>3 DEF Undisturbed
    <3> QED
      BY <3>1, <3>8, <2>4, <1>u DEF PatientServer
  <2> QED
    BY <2>6, <2>7
<1> QED
  BY <1>1, <1>2, <1>3, <1>4, <1>5, <1>6, <1>8, <1>9, <1>10, <1>11 DEF RecInv

\* The server answers, or the browser says that nothing came.
LEMMA ServeKeeps ==
    ASSUME RecInv, NEW c \in Slots, Control!Serve(c) \/ Control!LoseMessage(c)
    PROVE  RecInv'
BY AnsweredKeeps DEF Control!Serve, Control!LoseMessage

\* The workspace goes, and its session with it.
LEMMA DiscardKeeps ==
    ASSUME RecInv, NEW q \in Control!Requests, Control!DiscardSession(q)
    PROVE  RecInv'
<1>t. Control!TypeOK
  BY DEF RecInv
<1>u. /\ UNCHANGED <<overlap, store, mic, audio, late, proof, used, segment, lostPage, page,
                     dialogs, call>>
      /\ recordingFaults' = recordingFaults + 1 /\ recordingFaults < MaxRecordingFaults
  BY DEF Control!DiscardSession, Control!TabUnchanged, Control!tab, Control!chunks,
         Control!proofs, Control!record, Control!screen
<1>v. /\ server' \in [Control!Requests -> Control!Session]
      /\ Begun(q) /\ ~Over(q) /\ server'[q].state = "discarded"
      /\ \A p \in Control!Requests \ {q} : server'[p] = server[p]
  BY <1>t, RecTypes DEF Control!DiscardSession, Control!Session, Control!Running, Begun, Over
<1>g. GoesOn
  BY <1>v DEF GoesOn, Over, Begun
<1>1. Control!TypeOK'
  <2>1. recordingFaults' \in 0..MaxRecordingFaults /\ recordingFaults' # 0
    BY <1>t, <1>u, RecBounds DEF Control!TypeOK
  <2> QED
    BY <2>1, <1>t, <1>u, <1>v DEF Control!TypeOK
<1>2. RecCalls'
  <2>1. ASSUME NEW c \in Slots PROVE CallIs(c)'
    BY <1>g, <1>u, <1>t, RecTypes, CallKept DEF RecInv, RecCalls, CallIs
  <2> QED
    BY <2>1, <1>u DEF RecInv, RecCalls
<1>3. RecStore'
  <2>1. store.session # 0 => store.session \in Control!Requests
    BY <1>t, StoreFields, RecBounds DEF Control!Requests
  <2> QED
    BY <2>1, <1>u, <1>g DEF RecInv, RecStore, GoesOn, Begun
<1>4. RecMic' /\ RecAudio'
  BY <1>u DEF RecInv, RecMic, Starting, RecAudio
<1>6. RecSegments'
  BY <1>u, <1>v DEF RecInv, RecSegments, Begun
<1>7. Control!Patient' => PatientCalls' /\ PatientMic' /\ PatientAudio'
  BY <1>u DEF RecInv, Control!Patient, PatientCalls, PatientMic, PatientAudio, Control!Quiet,
         Control!Free, Ending, Uploading, HasHandedOver, OfSession
<1>8. recordingFaults' # 0
  BY <1>t, <1>u, RecTypes
<1> QED
  BY <1>1, <1>2, <1>3, <1>4, <1>6, <1>7, <1>8 DEF RecInv

-----------------------------------------------------------------------------
(* The end of a call, and of a recording *)

\* Without calls there is nothing to say of them.
LEMMA NoCallsAre ==
    ASSUME \A c \in Slots : call'[c].op = "none" /\ call'[c].stage = "none"
    PROVE  RecCalls'
BY DEF RecCalls, CallIs, StagesOf, Uploading, Ending

\* The store without a recording.
LEMMA IdleStoreIs ==
    /\ Control!IdleStore \in Control!Store
    /\ Control!IdleStore.status = "idle" /\ Control!IdleStore.session = 0
    /\ ~Control!IdleStore.ending /\ ~Control!IdleStore.lost
BY SomeWorkspace, RecBounds DEF Control!IdleStore, Control!Store

\* Microphone.disconnect
LEMMA DisconnectedIs ==
    ASSUME Control!TypeOK, Control!Disconnect
    PROVE  /\ mic' \in Control!Mic /\ ~mic'.open /\ mic'.pending \in {"no", "stale"}
           /\ mic'.connection = Control!NoConnection
           /\ ~mic'.connection.live /\ mic'.connection.recorder = "inactive"
           /\ mic'.connection.collects = {} /\ ~mic'.connection.flushing
           /\ late' \in SUBSET Control!Segment
<1>1. Control!NoConnection \in Control!Connection
  BY DEF Control!NoConnection, Control!Connected, Control!Connection
<1>2. mic.connection.collects \subseteq Control!Segment
  BY DEF Control!TypeOK, Control!Mic, Control!Connection
<1>3. late' \in SUBSET Control!Segment
  BY <1>2, RecTypes DEF Control!Disconnect, Control!ClosedEarly
<1> QED
  BY <1>1, <1>3 DEF Control!Disconnect, Control!Disconnected, Control!Mic, Control!NoConnection,
                    Control!Connected

\* A call returns.
LEMMA ReturnIs ==
    ASSUME Control!TypeOK, NEW c \in Slots, Control!Return(c)
    PROVE  /\ call' \in [Slots -> Control!Call]
           /\ call'[c].op = "none" /\ call'[c].stage = "none"
           /\ \A d \in Slots \ {c} : call'[d] = call[d]
BY NoCallIs, OneCall DEF Control!Return

\* The recording is closed: what it was is forgotten, and the microphone goes off.
LEMMA ClosingKeeps ==
    ASSUME RecInv, NEW c \in Slots, call[c].op # "none", Control!Disconnect, audio' = {},
           store' = Control!IdleStore, Control!Return(c),
           UNCHANGED <<overlap, used, segment, lostPage, dialogs>>,
           page' \in [workspace: RecordingWorkspaces, screen: {"home", "recording"}],
           server' \in [Control!Requests -> Control!Session],
           \A q \in Control!Requests : server'[q].state = server[q].state,
           recordingFaults' \in 0..MaxRecordingFaults, recordingFaults' = 0 => recordingFaults = 0,
           proof' = 0 \/ (proof' = proof /\ call[c].op = "start")
    PROVE  RecInv'
<1>t. Control!TypeOK
  BY DEF RecInv
<1>m. /\ mic' \in Control!Mic /\ ~mic'.open /\ mic'.pending # "current"
      /\ mic'.connection = Control!NoConnection
      /\ ~mic'.connection.live /\ mic'.connection.recorder = "inactive"
      /\ mic'.connection.collects = {} /\ ~mic'.connection.flushing
      /\ late' \in SUBSET Control!Segment
  BY <1>t, DisconnectedIs
<1>s. /\ store' \in Control!Store /\ store'.status = "idle" /\ store'.session = 0
      /\ ~store'.ending /\ ~store'.lost
  BY IdleStoreIs
<1>d. /\ call' \in [Slots -> Control!Call]
      /\ call'[c].op = "none" /\ call'[c].stage = "none"
      /\ \A d \in Slots \ {c} : call'[d] = call[d]
  BY <1>t, ReturnIs
<1>n. \A d \in Slots \ {c} : call[d].op # "start"
  BY DEF RecInv, RecCalls
<1>z. call[c].op = "start" => store.session = 0
  BY DEF RecInv, RecCalls, CallIs, RecStore
<1>1. Control!TypeOK'
  <2>1. proof' \in 0..MaxRequests
    BY <1>t, RecBounds DEF Control!TypeOK
  <2> QED
    BY <2>1, <1>t, <1>m, <1>s, <1>d DEF Control!TypeOK
<1>2. RecCalls'
  <2>1. GoesOn
    BY DEF GoesOn, Over, Begun
  <2>2. CallIs(c)'
    BY <1>d DEF CallIs, StagesOf, Uploading, Ending
  <2> QED
    BY <1>t, <1>s, <1>d, <1>n, <2>1, <2>2, CallsKept DEF RecInv
<1>3. RecStore'
  BY <1>s DEF RecStore
<1>4. RecMic'
  BY <1>m, <1>d DEF RecMic
<1>5. RecAudio'
  BY <1>m DEF RecAudio
<1>6. RecSegments'
  <2>1. proof' <= used' /\ (proof' # 0 => proof' = proof /\ store.session = 0)
    BY <1>t, <1>z, RecTypes DEF RecInv, RecSegments
  <2>2. \A d \in Slots : call'[d].op = "start" \/ call'[d].stage = "mic" =>
           call[d].op = "start" \/ call[d].stage = "mic"
    BY <1>d
  <2> QED
    BY <2>1, <2>2 DEF RecInv, RecSegments
<1>7. Control!Patient' =>
          Control!Patient /\ \A d \in Slots : call'[d].op = "none" /\ call'[d].stage = "none"
  <2>1. ASSUME Control!Patient, NEW d \in Slots \ {c} PROVE call[d].op = "none" /\ call[d].stage = "none"
    BY <2>1 DEF RecInv, PatientCalls, RecCalls, CallIs, StagesOf
  <2> QED
    BY <2>1, <1>d DEF Control!Patient
<1>8. Control!Patient' => PatientCalls' /\ PatientMic' /\ PatientAudio'
  BY <1>7, <1>s DEF PatientCalls, PatientMic, PatientAudio, Uploading
<1>9. ASSUME Control!Patient', recordingFaults' = 0 PROVE PatientServer'
  <2>1. \A d \in Slots : Undisturbed(d)'
    BY <1>7, <1>9 DEF Undisturbed
  <2>2. proof' # 0 => server'[proof'].state \in {"none", "recording"}
    <3>1. proof' # 0 => proof' \in Control!Requests
      BY <1>1, RecBounds DEF Control!TypeOK, Control!Requests
    <3> QED
      BY <3>1, <1>7, <1>9, <1>z DEF RecInv, PatientServer
  <2> QED
    BY <2>1, <2>2, <1>s DEF PatientServer
<1> QED
  BY <1>1, <1>2, <1>3, <1>4, <1>5, <1>6, <1>8, <1>9 DEF RecInv

\* A pause or a resume returns, and the recording goes on.
LEMMA ControlReturnKeeps ==
    ASSUME RecInv, NEW c \in Slots, call[c].op \in {"pause", "resume"},
           call[c].stage = "response", Control!Return(c),
           UNCHANGED <<overlap, store, mic, audio, late, proof, used, segment, lostPage, page,
                       dialogs, server, recordingFaults>>
    PROVE  RecInv'
<1>t. Control!TypeOK
  BY DEF RecInv
<1>d. /\ call' \in [Slots -> Control!Call]
      /\ call'[c].op = "none" /\ call'[c].stage = "none"
      /\ \A d \in Slots \ {c} : call'[d] = call[d]
  BY <1>t, ReturnIs
<1>1. Control!TypeOK'
  BY <1>t, <1>d DEF Control!TypeOK
<1>2. RecCalls'
  <2>1. GoesOn
    BY DEF GoesOn, Over, Begun
  <2>2. CallIs(c)'
    BY <1>d DEF CallIs, StagesOf, Uploading, Ending
  <2> QED
    BY <1>t, <1>d, <2>1, <2>2, CallsKept DEF RecInv, RecCalls, CallIs
<1>3. RecStore'
  BY <1>d DEF RecInv, RecStore, Begun
<1>4. RecMic'
  BY <1>d DEF RecInv, RecMic, Starting
<1>5. RecAudio' /\ RecSegments'
  BY <1>d DEF RecInv, RecAudio, RecSegments
<1>7. Control!Patient' =>
          Control!Patient /\ \A d \in Slots : call'[d].op = "none" /\ call'[d].stage = "none"
  <2>1. ASSUME Control!Patient, NEW d \in Slots \ {c} PROVE call[d].op = "none" /\ call[d].stage = "none"
    BY <2>1 DEF RecInv, PatientCalls, RecCalls, CallIs, StagesOf
  <2> QED
    BY <2>1, <1>d DEF Control!Patient
<1>8. ASSUME Control!Patient' PROVE PatientCalls'
  BY <1>7, <1>8 DEF RecInv, PatientCalls, Control!Quiet, Control!Free
<1>9. ASSUME Control!Patient' PROVE PatientMic'
  <2>1. \A d \in Slots : ~Ending(d)
    BY <1>7, <1>9, <1>d DEF Ending
  <2> QED
    BY <2>1, <1>7, <1>9 DEF RecInv, PatientMic
<1>10. ASSUME Control!Patient' PROVE PatientAudio'
  BY <1>7, <1>10 DEF RecInv, PatientAudio, HasHandedOver, OfSession, Uploading
<1>11. ASSUME Control!Patient', recordingFaults' = 0 PROVE PatientServer'
  <2>1. \A d \in Slots : Undisturbed(d)'
    BY <1>7, <1>11 DEF Undisturbed
  <2>2. SessionState' = store'.status
    BY <1>7, <1>11 DEF RecInv, PatientServer, Undisturbed, SessionState
  <2> QED
    BY <2>1, <2>2, <1>7, <1>11 DEF RecInv, PatientServer
<1> QED
  BY <1>1, <1>2, <1>3, <1>4, <1>5, <1>8, <1>9, <1>10, <1>11 DEF RecInv

\* The answer to a pause or a resume.
LEMMA ControlAnsweredKeeps ==
    ASSUME RecInv, NEW c \in Slots, Control!ControlAnswered(c)
    PROVE  RecInv'
<1> USE DEF Control!chunks, Control!proofs, Control!record, Control!screen
<1>t. Control!TypeOK
  BY DEF RecInv
<1>k. call[c].workspace \in RecordingWorkspaces /\ call[c].op \in {"pause", "resume"}
      /\ call[c].stage = "response"
  BY <1>t, RecTypes DEF Control!Call, Control!ControlAnswered
<1>1. CASE Control!IsClosed(call[c].answer)
  <2>1. /\ Control!Disconnect /\ audio' = {} /\ store' = Control!IdleStore /\ proof' = 0
        /\ Control!Return(c)
        /\ UNCHANGED <<overlap, used, segment, lostPage, dialogs, server, recordingFaults>>
        /\ page' = Control!At(call[c].workspace, "home")
    BY <1>1 DEF Control!ControlAnswered, Control!CloseRecording
  <2>2. /\ page' \in [workspace: RecordingWorkspaces, screen: {"home", "recording"}]
        /\ server' \in [Control!Requests -> Control!Session]
        /\ recordingFaults' \in 0..MaxRecordingFaults
    BY <2>1, <1>k, <1>t DEF Control!At, Control!TypeOK
  <2> QED
    BY <2>1, <2>2, <1>k, ClosingKeeps
<1>2. CASE ~Control!IsClosed(call[c].answer)
  BY <1>2, <1>k, ControlReturnKeeps DEF Control!ControlAnswered
<1> QED
  BY <1>1, <1>2

-----------------------------------------------------------------------------
(* The end and the upload *)

\* An end that failed: the recording goes on.
LEMMA EndFailedKeeps ==
    ASSUME RecInv, NEW c \in Slots, call[c].op = "end", call[c].stage = "response",
           call[c].answer # "ok", store' = Control!CancelEnding(store), Control!Return(c),
           UNCHANGED <<overlap, mic, audio, late, proof, used, segment, lostPage, page, dialogs,
                       server, recordingFaults>>
    PROVE  RecInv'
<1>t. Control!TypeOK
  BY DEF RecInv
<1>d. /\ call' \in [Slots -> Control!Call]
      /\ call'[c].op = "none" /\ call'[c].stage = "none"
      /\ \A d \in Slots \ {c} : call'[d] = call[d]
  BY <1>t, ReturnIs
<1>m. /\ store' \in Control!Store /\ store'.session = store.session
      /\ store'.status = store.status /\ ~store'.ending
      /\ store'.lost = store.lost /\ store'.counting = store.counting
  BY <1>t DEF Control!TypeOK, Control!Store, Control!CancelEnding
<1>n. \A d \in Slots \ {c} : call[d].op # "end" /\ call[d].op # "start"
  BY DEF RecInv, RecCalls
<1>1. Control!TypeOK'
  BY <1>t, <1>d, <1>m DEF Control!TypeOK
<1>2. RecCalls'
  <2>1. GoesOn
    BY DEF GoesOn, Over, Begun
  <2>2. CallIs(c)'
    BY <1>d DEF CallIs, StagesOf, Uploading, Ending
  <2> QED
    BY <1>t, <1>d, <1>m, <1>n, <2>1, <2>2, CallsKept DEF RecInv
<1>3. RecStore'
  BY <1>d, <1>m DEF RecInv, RecStore, Begun
<1>4. RecMic'
  BY <1>d, <1>m DEF RecInv, RecMic, Starting
<1>5. RecAudio' /\ RecSegments'
  BY <1>d, <1>m DEF RecInv, RecAudio, RecSegments
<1>7. Control!Patient' =>
          Control!Patient /\ \A d \in Slots : call'[d].op = "none" /\ call'[d].stage = "none"
  <2>1. ASSUME Control!Patient, NEW d \in Slots \ {c} PROVE call[d].op = "none" /\ call[d].stage = "none"
    BY <2>1 DEF RecInv, PatientCalls, RecCalls, CallIs, StagesOf
  <2> QED
    BY <2>1, <1>d DEF Control!Patient
<1>8. ASSUME Control!Patient' PROVE PatientCalls'
  BY <1>7, <1>8, <1>m DEF RecInv, PatientCalls, Control!Quiet, Control!Free
<1>9. ASSUME Control!Patient' PROVE PatientMic'
  <2>1. \A d \in Slots : ~Ending(d)
    BY <1>7, <1>9, <1>d DEF Ending
  <2> QED
    BY <2>1, <1>7, <1>9, <1>m DEF RecInv, PatientMic
<1>10. ASSUME Control!Patient' PROVE PatientAudio'
  BY <1>7, <1>10, <1>m DEF RecInv, PatientAudio, HasHandedOver, OfSession, Uploading
<1>11. ASSUME Control!Patient', recordingFaults' = 0 PROVE PatientServer'
  <2>1. PatientServer
    BY <1>7, <1>11 DEF RecInv
  <2>2. SessionState' = store'.status
    BY <2>1, <1>m DEF PatientServer, Undisturbed, SessionState
  <2>3. \A d \in Slots : Undisturbed(d)'
    BY <1>7, <1>11 DEF Undisturbed
  <2> QED
    BY <2>1, <2>2, <2>3, <1>m DEF PatientServer
<1> QED
  BY <1>1, <1>2, <1>3, <1>4, <1>5, <1>8, <1>9, <1>10, <1>11 DEF RecInv

\* The session is over, and the recorder is stopped; its last chunk is still to come.
LEMMA EndStopsKeeps ==
    ASSUME RecInv, NEW c \in Slots, call[c].op = "end", call[c].stage = "response",
           call[c].answer = "ok", mic.open, mic.connection.recorder # "inactive",
           mic' = [mic EXCEPT !.connection.recorder = "inactive", !.connection.flushing = TRUE],
           store' = [Control!FreezeElapsed(store) EXCEPT !.ending = TRUE],
           call' = [call EXCEPT ![c].stage = "stopping"],
           UNCHANGED <<overlap, audio, late, proof, used, segment, lostPage, page, dialogs,
                       server, recordingFaults>>
    PROVE  RecInv'
<1>t. Control!TypeOK /\ CallIs(c)
  BY DEF RecInv, RecCalls
<1>d. /\ call' \in [Slots -> Control!Call]
      /\ call'[c].op = "end" /\ call'[c].session = call[c].session
      /\ call'[c].stage = "stopping"
      /\ \A d \in Slots \ {c} : call'[d] = call[d]
  BY <1>t, CallStops
<1>m. /\ store' \in Control!Store /\ store'.session = store.session
      /\ store'.status = store.status /\ store'.ending /\ store'.lost = store.lost
      /\ mic' \in Control!Mic /\ mic'.open = mic.open /\ mic'.pending = mic.pending
      /\ mic'.connection.live = mic.connection.live
      /\ mic'.connection.collects = mic.connection.collects
      /\ mic'.connection.recorder = "inactive" /\ mic'.connection.flushing
  BY <1>t DEF Control!TypeOK, Control!Store, Control!FreezeElapsed, Control!Mic, Control!Connection
<1>o. \A d \in Slots : call'[d].op = call[d].op
  BY <1>d
<1>n. \A d \in Slots : call[d].op # "start"
  BY DEF RecInv, RecCalls
<1>1. Control!TypeOK'
  BY <1>t, <1>d, <1>m DEF Control!TypeOK
<1>2. RecCalls'
  <2>1. GoesOn
    BY DEF GoesOn, Over, Begun
  <2>2. CallIs(c)'
    BY <1>t, <1>d, <1>m DEF CallIs, StagesOf, Uploading, Ending, Over, Begun
  <2> QED
    BY <1>t, <1>d, <1>m, <1>n, <2>1, <2>2, CallsKept DEF RecInv
<1>3. RecStore'
  BY <1>d, <1>m DEF RecInv, RecStore, Begun
<1>4. RecMic'
  BY <1>d, <1>m, <1>o, <1>n DEF RecInv, RecMic, Starting
<1>5. RecAudio' /\ RecSegments'
  BY <1>d, <1>m, <1>o, <1>n DEF RecInv, RecAudio, RecSegments
<1>8. ASSUME Control!Patient' PROVE PatientCalls'
  BY <1>8, <1>m, <1>o DEF RecInv, Control!Patient, PatientCalls, Control!Quiet, Control!Free
<1>9. ASSUME Control!Patient' PROVE PatientMic'
  BY <1>9, <1>m, <1>d, <1>n DEF RecInv, Control!Patient, PatientMic, Ending
<1>10. ASSUME Control!Patient' PROVE PatientAudio'
  <2>1. \A d \in Slots : Uploading(d)' => call'[d] = call[d] /\ Uploading(d)
    BY <1>d DEF Uploading
  <2> QED
    BY <2>1, <1>10, <1>m DEF RecInv, Control!Patient, PatientAudio, HasHandedOver, OfSession
<1>11. ASSUME Control!Patient', recordingFaults' = 0 PROVE PatientServer'
  <2>1. PatientCalls /\ store.session # 0
    BY <1>11, <1>t DEF RecInv, Control!Patient, PatientCalls
  <2>2. \A d \in Slots : Undisturbed(d)'
    <3>1. Undisturbed(c)'
      BY <1>d DEF Undisturbed
    <3>2. \A d \in Slots \ {c} : call'[d].op = "none"
      BY <2>1, <1>d DEF PatientCalls
    <3> QED
      BY <3>1, <3>2 DEF Undisturbed
  <2>3. ~Control!Quiet'
    BY <1>d DEF Control!Quiet, Control!Free
  <2> QED
    BY <2>1, <2>2, <2>3, <1>m DEF PatientServer
<1> QED
  BY <1>1, <1>2, <1>3, <1>4, <1>5, <1>8, <1>9, <1>10, <1>11 DEF RecInv

\* The recorder is silent, and all it recorded goes to upload.
LEMMA UploadKeeps ==
    ASSUME RecInv, NEW c \in Slots, call[c].op = "end", Over(call[c].session),
           NEW blob \in SUBSET Control!Segment, \A g \in blob : g.session = store.session,
           audio' = blob, Control!Disconnect, Control!Upload(c, blob),
           store' \in Control!Store, store'.session = store.session,
           store'.status = store.status, store'.ending = store.ending \/ store'.ending,
           store'.lost = store.lost,
           Control!Patient /\ store.session # 0 => OfSession(store.session) \subseteq blob,
           UNCHANGED <<overlap, proof, used, segment, lostPage, page, dialogs, server,
                       recordingFaults>>
    PROVE  RecInv'
<1>t. Control!TypeOK /\ CallIs(c)
  BY DEF RecInv, RecCalls
<1>d. /\ call' \in [Slots -> Control!Call]
      /\ call'[c].op = "end" /\ call'[c].session = call[c].session
      /\ call'[c].stage = "issue" /\ call'[c].audio = blob /\ call'[c].answer = "none"
      /\ \A d \in Slots \ {c} : call'[d] = call[d]
  <2> DEFINE k == [call[c] EXCEPT !.stage = "issue", !.answer = "none", !.audio = blob]
  <2>1. call \in [Slots -> Control!Call] /\ call[c] \in Control!Call
    BY <1>t, RecTypes
  <2>2. call' = [call EXCEPT ![c] = k]
    BY <2>1 DEF Control!Upload
  <2>3. /\ k \in Control!Call /\ k.op = call[c].op /\ k.session = call[c].session
        /\ k.audio = blob /\ k.stage = "issue" /\ k.answer = "none"
    BY <2>1 DEF Control!Call
  <2> HIDE DEF k
  <2> QED
    BY <1>t, <2>2, <2>3, OneCall
<1>m. /\ mic' \in Control!Mic /\ ~mic'.open /\ mic'.pending # "current"
      /\ mic'.connection = Control!NoConnection
      /\ ~mic'.connection.live /\ mic'.connection.recorder = "inactive"
      /\ mic'.connection.collects = {} /\ ~mic'.connection.flushing
      /\ late' \in SUBSET Control!Segment
  BY <1>t, DisconnectedIs
<1>n. \A d \in Slots : call[d].op # "start"
  BY DEF RecInv, RecCalls
<1>x. call[c].stage # "mic"
  BY <1>t DEF CallIs, StagesOf
<1>s. \A g \in blob : g.session = call[c].session
  <2>1. \A g \in blob : g.session # 0
    BY RecBounds DEF Control!Segment, Control!Requests
  <2> QED
    BY <2>1, <1>t, <1>x DEF CallIs
<1>e. store'.ending \/ store'.ending = store.ending
  OBVIOUS
<1>1. Control!TypeOK'
  BY <1>t, <1>d, <1>m DEF Control!TypeOK
<1>2. RecCalls'
  <2>1. GoesOn
    BY DEF GoesOn, Over, Begun
  <2>2. CallIs(c)'
    BY <1>t, <1>d, <1>s, <1>e, <1>x DEF CallIs, StagesOf, Uploading, Ending, Over, Begun
  <2> QED
    BY <1>t, <1>d, <1>n, <1>e, <2>1, <2>2, CallsKept DEF RecInv
<1>3. RecStore'
  BY <1>d DEF RecInv, RecStore, Begun
<1>4. RecMic'
  BY <1>d, <1>m, <1>n DEF RecMic
<1>5. RecAudio'
  BY <1>m DEF RecAudio
<1>6. RecSegments'
  BY <1>d, <1>n DEF RecInv, RecSegments
<1>7. ASSUME Control!Patient PROVE \A d \in Slots \ {c} : call'[d].op = "none" /\ call'[d].stage = "none"
  BY <1>7, <1>d DEF RecInv, PatientCalls, RecCalls, CallIs, StagesOf
<1>8. ASSUME Control!Patient' PROVE PatientCalls'
  BY <1>7, <1>8, <1>d DEF RecInv, Control!Patient, PatientCalls, Control!Quiet, Control!Free
<1>9. ASSUME Control!Patient' PROVE PatientMic'
  BY <1>7, <1>9, <1>d DEF Control!Patient, PatientMic, Ending
<1>10. ASSUME Control!Patient' PROVE PatientAudio'
  <2>1. Control!Patient /\ store.session # 0 /\ store.session = call[c].session
    BY <1>10, <1>t, <1>x DEF RecInv, Control!Patient, PatientCalls, CallIs
  <2> QED
    BY <2>1, <1>7, <1>d DEF PatientAudio, OfSession, Uploading
<1>11. ASSUME Control!Patient', recordingFaults' = 0 PROVE PatientServer'
  <2>1. store.session # 0
    BY <1>11 DEF RecInv, Control!Patient, PatientCalls
  <2>2. \A d \in Slots : Undisturbed(d)'
    BY <1>7, <1>11, <1>d DEF Undisturbed, Control!Patient
  <2>3. ~Control!Quiet'
    BY <1>d DEF Control!Quiet, Control!Free
  <2> QED
    BY <2>1, <2>2, <2>3 DEF PatientServer
<1> QED
  BY <1>1, <1>2, <1>3, <1>4, <1>5, <1>6, <1>8, <1>9, <1>10, <1>11 DEF RecInv

\* The answer to an end.
LEMMA EndAnsweredKeeps ==
    ASSUME RecInv, NEW c \in Slots, Control!EndAnswered(c)
    PROVE  RecInv'
<1> USE DEF Control!chunks, Control!proofs, Control!record, Control!screen
<1>t. Control!TypeOK /\ CallIs(c)
  BY DEF RecInv, RecCalls
<1>k. /\ call[c].workspace \in RecordingWorkspaces /\ call[c].op = "end"
      /\ call[c].stage = "response"
      /\ UNCHANGED <<overlap, used, segment, lostPage, dialogs, server, recordingFaults>>
  BY <1>t, RecTypes DEF Control!Call, Control!EndAnswered
<1>1. CASE Control!IsClosed(call[c].answer) /\ Control!CloseRecording(call[c].workspace)
           /\ Control!Return(c)
  <2>1. /\ Control!Disconnect /\ audio' = {} /\ store' = Control!IdleStore /\ proof' = 0
        /\ Control!Return(c) /\ page' = Control!At(call[c].workspace, "home")
    BY <1>1 DEF Control!CloseRecording
  <2>2. /\ page' \in [workspace: RecordingWorkspaces, screen: {"home", "recording"}]
        /\ server' \in [Control!Requests -> Control!Session]
        /\ recordingFaults' \in 0..MaxRecordingFaults
    BY <2>1, <1>k, <1>t DEF Control!At, Control!TypeOK
  <2> QED
    BY <2>1, <2>2, <1>k, ClosingKeeps
<1>2. CASE /\ call[c].answer # "ok" /\ store' = Control!CancelEnding(store) /\ Control!Return(c)
           /\ UNCHANGED <<mic, audio, late, proof, page>>
  BY <1>2, <1>k, EndFailedKeeps
<1>3. CASE /\ call[c].answer = "ok" /\ mic.open /\ mic.connection.recorder # "inactive"
           /\ mic' = [mic EXCEPT !.connection.recorder = "inactive", !.connection.flushing = TRUE]
           /\ store' = [Control!FreezeElapsed(store) EXCEPT !.ending = TRUE]
           /\ call' = [call EXCEPT ![c].stage = "stopping"]
           /\ UNCHANGED <<audio, late, proof, page>>
  BY <1>3, <1>k, EndStopsKeeps
<1>4. CASE /\ call[c].answer = "ok" /\ (~mic.open \/ mic.connection.recorder = "inactive")
           /\ Control!Disconnect
           /\ store' = [Control!FreezeElapsed(store) EXCEPT !.ending = TRUE, !.analyser = FALSE]
           /\ Control!Upload(c, audio)
           /\ UNCHANGED <<audio, proof, page>>
  <2>1. Over(call[c].session)
    BY <1>4, <1>k, <1>t DEF CallIs
  <2>2. audio \in SUBSET Control!Segment /\ \A g \in audio : g.session = store.session
    BY <1>t, RecTypes DEF RecInv, RecAudio
  <2>3. /\ store' \in Control!Store /\ store'.session = store.session
        /\ store'.status = store.status /\ store'.ending /\ store'.lost = store.lost
    BY <1>4, <1>t DEF Control!TypeOK, Control!Store, Control!FreezeElapsed
  <2>4. ASSUME Control!Patient, store.session # 0 PROVE OfSession(store.session) \subseteq audio
    <3>1. \A d \in Slots : call[d].stage # "stopping"
      BY <2>4, <1>k DEF RecInv, PatientCalls, RecCalls, CallIs, StagesOf
    <3>2. HasHandedOver
      BY <3>1, <1>4 DEF RecInv, RecMic, HasHandedOver, Control!NoConnection, Control!Connected
    <3> QED
      BY <2>4, <3>2 DEF RecInv, PatientAudio
  <2> QED
    BY <2>1, <2>2, <2>3, <2>4, <1>4, <1>k, UploadKeeps
<1> QED
  BY <1>1, <1>2, <1>3, <1>4 DEF Control!EndAnswered

\* The recorder has stopped.
LEMMA RecorderStoppedKeeps ==
    ASSUME RecInv, NEW c \in Slots, Control!RecorderStopped(c)
    PROVE  RecInv'
<1>t. Control!TypeOK /\ CallIs(c) /\ call[c].stage = "stopping" /\ call[c] \in Control!Call
  BY RecTypes DEF RecInv, RecCalls, Control!RecorderStopped
<1>u. UNCHANGED <<overlap, proof, used, segment, lostPage, page, dialogs, server, recordingFaults>>
  BY DEF Control!RecorderStopped, Control!proofs, Control!record, Control!screen
<1>1. call[c].op = "end" /\ Over(call[c].session)
  BY <1>t DEF CallIs, StagesOf, Control!Call, Ending
<1>2. mic.connection.collects \subseteq Control!Segment
  BY <1>t DEF Control!TypeOK, Control!Mic, Control!Connection
<1>3. /\ Control!LastChunk \in SUBSET Control!Segment
      /\ \A g \in Control!LastChunk : g.session = store.session
  BY <1>2, <1>t, RecTypes DEF RecInv, RecAudio, Control!LastChunk
<1>4. /\ store' \in Control!Store /\ store'.session = store.session
      /\ store'.status = store.status /\ store'.ending = store.ending /\ store'.lost = store.lost
  BY <1>t DEF Control!TypeOK, Control!Store, Control!RecorderStopped
<1>5. ASSUME Control!Patient, store.session # 0
      PROVE  OfSession(store.session) \subseteq Control!LastChunk
  <2>1. mic.connection.recorder = "inactive"
    BY <1>5, <1>t DEF RecInv, PatientMic
  <2> QED
    BY <1>5, <2>1 DEF RecInv, PatientAudio, HasHandedOver, Control!LastChunk
<1> QED
  BY <1>1, <1>3, <1>4, <1>5, <1>u, UploadKeeps DEF Control!RecorderStopped

\* The upload goes to its next step, or again from the first.
LEMMA UploadGoesOnKeeps ==
    ASSUME RecInv, NEW c \in Slots, Uploading(c),
           NEW k \in Control!Call, call' = [call EXCEPT ![c] = k],
           k.op = call[c].op, k.session = call[c].session, k.audio = call[c].audio,
           k.stage \in {"issue", "put", "complete"},
           UNCHANGED <<overlap, store, mic, audio, late, proof, used, segment, lostPage, page,
                       dialogs>>,
           server' \in [Control!Requests -> Control!Session],
           \A q \in Control!Requests : server'[q].state = server[q].state,
           recordingFaults' \in 0..MaxRecordingFaults, recordingFaults' = 0 => recordingFaults = 0
    PROVE  RecInv'
<1>t. Control!TypeOK /\ CallIs(c)
  BY DEF RecInv, RecCalls
<1>c. call[c] \in Control!Call /\ call[c].op = "end"
  BY <1>t, RecTypes DEF CallIs, StagesOf, Control!Call, Uploading
<1>d. /\ call' \in [Slots -> Control!Call] /\ call'[c] = k
      /\ \A d \in Slots \ {c} : call'[d] = call[d]
  BY <1>t, OneCall
<1>o. /\ \A d \in Slots : call'[d].op = call[d].op /\ call'[d].session = call[d].session
                          /\ call'[d].audio = call[d].audio
      /\ \A d \in Slots : call'[d] # call[d] => d = c
      /\ \A d \in Slots : Uploading(d) <=> Uploading(d)'
      /\ \A d \in Slots : Ending(d) <=> Ending(d)'
  BY <1>d DEF Uploading, Ending
<1>g. GoesOn
  BY DEF GoesOn, Over, Begun
<1>1. Control!TypeOK'
  BY <1>t, <1>d DEF Control!TypeOK
<1>2. RecCalls'
  <2>1. CallIs(c)'
    <3>1. call[c].session \in Control!Requests
      BY <1>t, <1>c, RecBounds DEF CallIs, Uploading, Control!Call, Control!Requests
    <3>2. Over(call[c].session)' /\ Begun(call[c].session)'
      BY <1>t, <1>c, <1>g, <1>o, <3>1 DEF CallIs, Uploading, Ending, GoesOn, Over, Begun
    <3> QED
      BY <3>2, <1>t, <1>c, <1>d DEF CallIs, StagesOf, Uploading, Ending, Over, Begun
  <2> QED
    BY <1>t, <1>c, <1>d, <1>g, <2>1, CallsKept DEF RecInv, RecCalls, CallIs
<1>3. RecStore'
  <2>1. store.session # 0 => store.session \in Control!Requests
    BY <1>t, StoreFields, RecBounds DEF Control!Requests
  <2> QED
    BY <2>1, <1>o, <1>g DEF RecInv, RecStore, GoesOn, Begun
<1>4. RecMic'
  BY <1>o, <1>d DEF RecInv, RecMic, Starting, Uploading
<1>5. RecAudio' /\ RecSegments'
  BY <1>o, <1>d DEF RecInv, RecAudio, RecSegments, Uploading
<1>8. ASSUME Control!Patient' PROVE PatientCalls'
  BY <1>8, <1>o DEF RecInv, Control!Patient, PatientCalls, Control!Quiet, Control!Free
<1>9. ASSUME Control!Patient' PROVE PatientMic'
  BY <1>9, <1>o, <1>c, <1>d DEF RecInv, Control!Patient, PatientMic, Ending
<1>10. ASSUME Control!Patient' PROVE PatientAudio'
  BY <1>10, <1>o DEF RecInv, Control!Patient, PatientAudio, HasHandedOver, OfSession
<1>11. ASSUME Control!Patient', recordingFaults' = 0 PROVE PatientServer'
  <2>1. PatientCalls /\ store.session # 0
    BY <1>11, <1>c DEF RecInv, Control!Patient, PatientCalls
  <2>2. \A d \in Slots : Undisturbed(d)'
    <3>1. Undisturbed(c)'
      BY <1>c, <1>d DEF Undisturbed
    <3>2. \A d \in Slots \ {c} : call'[d].op = "none"
      BY <2>1, <1>c, <1>d DEF PatientCalls
    <3> QED
      BY <3>1, <3>2 DEF Undisturbed
  <2>3. ~Control!Quiet'
    BY <1>c, <1>o DEF Control!Quiet, Control!Free
  <2> QED
    BY <2>1, <2>2, <2>3 DEF PatientServer
<1> QED
  BY <1>1, <1>2, <1>3, <1>4, <1>5, <1>8, <1>9, <1>10, <1>11 DEF RecInv

\* The server changes what it holds of an audio, and not the session's state.
LEMMA UploadedIs ==
    ASSUME Control!TypeOK, NEW c \in Slots, Uploading(c), call[c].session \in Control!Requests,
           server' \in {server, Control!Uploaded(call[c])}
    PROVE  /\ server' \in [Control!Requests -> Control!Session]
           /\ \A q \in Control!Requests : server'[q].state = server[q].state
<1>t. server \in [Control!Requests -> Control!Session] /\ call[c] \in Control!Call
  BY RecTypes
<1>1. call[c].audio \subseteq Control!Segment
  BY <1>t DEF Control!Call
<1>2. CASE server' = server
  BY <1>2, <1>t
<1>3. CASE server' = [server EXCEPT ![call[c].session].object = call[c].audio]
  BY <1>3, <1>1, <1>t DEF Control!Session
<1>4. CASE server' = [server EXCEPT ![call[c].session].completed =
                         IF @ = {} THEN server[call[c].session].object ELSE @]
  <2> DEFINE s == server[call[c].session]
             v == IF s.completed = {} THEN s.object ELSE s.completed
  <2>1. s \in Control!Session
    BY <1>1, <1>t
  <2>2. v \in SUBSET Control!Segment
    BY <2>1 DEF Control!Session
  <2>3. server' = [server EXCEPT ![call[c].session].completed = v]
    BY <1>4, <1>1, <1>t
  <2> HIDE DEF v, s
  <2> QED
    BY <2>2, <2>3, <1>1, <1>t DEF Control!Session
<1>5. Control!Uploaded(call[c]) \in
          {server, [server EXCEPT ![call[c].session].object = call[c].audio],
           [server EXCEPT ![call[c].session].completed =
               IF @ = {} THEN server[call[c].session].object ELSE @]}
  BY DEF Uploading, Control!Uploaded
<1> QED
  BY <1>2, <1>3, <1>4, <1>5

\* A step of the upload.
LEMMA UploadStepKeeps ==
    ASSUME RecInv, NEW c \in Slots, Control!UploadStep(c) \/ Control!UploadStepLost(c)
    PROVE  RecInv'
<1> USE DEF Control!chunks, Control!proofs, Control!record, Control!screen
<1>t. Control!TypeOK /\ CallIs(c) /\ call[c] \in Control!Call
  BY RecTypes DEF RecInv, RecCalls
<1>u. /\ Uploading(c) /\ server' \in {server, Control!Uploaded(call[c])}
      /\ UNCHANGED <<overlap, used, segment, lostPage, dialogs>>
      /\ recordingFaults' = recordingFaults
         \/ (recordingFaults < MaxRecordingFaults /\ recordingFaults' = recordingFaults + 1)
  BY DEF Control!UploadStep, Control!UploadStepLost, Uploading
<1>f. recordingFaults' \in 0..MaxRecordingFaults /\ (recordingFaults' = 0 => recordingFaults = 0)
  BY <1>u, <1>t, RecBounds DEF Control!TypeOK
<1>s. call[c].session \in Control!Requests
  <2>1. call[c].session # 0
    BY <1>t, <1>u DEF CallIs, StagesOf, Uploading, Control!Call
  <2> QED
    BY <2>1, <1>t, RecBounds DEF Control!Call, Control!Requests
<1>v. /\ server' \in [Control!Requests -> Control!Session]
      /\ \A q \in Control!Requests : server'[q].state = server[q].state
  BY <1>s, <1>t, <1>u, UploadedIs
<1>a. PICK answer : Control!UploadContinues(c, answer)
  BY DEF Control!UploadStep, Control!UploadStepLost
<1>1. CASE /\ call[c].stage # "complete"
           /\ call' = [call EXCEPT ![c].stage = Control!NextStage(call[c].stage)]
           /\ UNCHANGED <<store, mic, audio, late, proof, page>>
  <2> DEFINE k == [call[c] EXCEPT !.stage = Control!NextStage(call[c].stage)]
  <2>1. Control!NextStage(call[c].stage) \in {"put", "complete"}
    BY <1>1, <1>u DEF Uploading, Control!NextStage
  <2>2. /\ k \in Control!Call /\ k.op = call[c].op /\ k.session = call[c].session
        /\ k.audio = call[c].audio /\ k.stage \in {"issue", "put", "complete"}
    BY <2>1, <1>t DEF Control!Call
  <2>3. call' = [call EXCEPT ![c] = k]
    BY <1>1, <1>t, RecTypes
  <2> HIDE DEF k
  <2> QED
    BY <2>2, <2>3, <1>1, <1>f, <1>u, <1>v, UploadGoesOnKeeps
<1>2. CASE /\ call[c].retries < Control!AUDIO_UPLOAD_MAX_RETRIES
           /\ call' = [call EXCEPT ![c].stage = "issue", ![c].retries = @ + 1]
           /\ UNCHANGED <<store, mic, audio, late, proof, page>>
  <2> DEFINE k == [call[c] EXCEPT !.stage = "issue", !.retries = @ + 1]
  <2>1. call[c].retries + 1 \in 0..3
    BY <1>2, <1>t DEF Control!Call, Control!AUDIO_UPLOAD_MAX_RETRIES
  <2>2. /\ k \in Control!Call /\ k.op = call[c].op /\ k.session = call[c].session
        /\ k.audio = call[c].audio /\ k.stage \in {"issue", "put", "complete"}
    BY <2>1, <1>t DEF Control!Call
  <2>3. call' = [call EXCEPT ![c] = k]
    BY <1>2, <1>t, RecTypes
  <2> HIDE DEF k
  <2> QED
    BY <2>2, <2>3, <1>2, <1>f, <1>u, <1>v, UploadGoesOnKeeps
<1>3. CASE Control!CloseRecording(call[c].workspace) /\ Control!Return(c)
  <2>1. /\ Control!Disconnect /\ audio' = {} /\ store' = Control!IdleStore /\ proof' = 0
        /\ Control!Return(c) /\ page' = Control!At(call[c].workspace, "home")
    BY <1>3 DEF Control!CloseRecording
  <2>2. page' \in [workspace: RecordingWorkspaces, screen: {"home", "recording"}]
    BY <2>1, <1>t DEF Control!At, Control!Call
  <2>3. call[c].op # "none"
    BY <1>t, <1>u DEF CallIs, StagesOf, Uploading
  <2> QED
    BY <2>1, <2>2, <2>3, <1>f, <1>u, <1>v, ClosingKeeps
<1> QED
  BY <1>a, <1>1, <1>2, <1>3 DEF Control!UploadContinues, Control!Retries

-----------------------------------------------------------------------------
(* The microphone is obtained, or is not, or is lost *)

\* The next segment is a new one.
LEMMA NextSegmentIs ==
    ASSUME IsFiniteSet(segment), NEW q \in Control!Requests
    PROVE  /\ Control!NextSegment(q) \in Control!Segment
           /\ Control!NextSegment(q).session = q
<1>1. Cardinality(segment) \in Nat
  BY FS_CardinalityType
<1>2. Control!Cardinality(segment) + 1 \in Nat
  BY <1>1, RecCardinality
<1> QED
  BY <1>2 DEF Control!NextSegment, Control!Segment

\* The recording starts.
LEMMA BeginKeeps ==
    ASSUME RecInv, NEW c \in Slots, call[c].op = "start", call[c].stage = "response",
           call[c].answer \in {"ok", "over"}, ~Control!Dead,
           Control!Begin(call[c].workspace, call[c].session), Control!Return(c),
           page' = Control!At(call[c].workspace, "recording"),
           UNCHANGED <<overlap, late, proof, used, lostPage, dialogs, server, recordingFaults>>
    PROVE  RecInv'
<1>t. Control!TypeOK /\ CallIs(c) /\ call[c] \in Control!Call
  BY RecTypes DEF RecInv, RecCalls
<1>q. PICK q : q = call[c].session
  OBVIOUS
<1>w. PICK w \in RecordingWorkspaces : w = call[c].workspace
  BY <1>t DEF Control!Call
<1>s. /\ q = proof /\ q # 0 /\ q \in Control!Requests /\ Begun(q)
      /\ store.status = "idle" /\ store.session = 0
  BY <1>t, <1>q, RecBounds DEF CallIs, RecInv, RecStore, Control!Call, Control!Requests
<1>d. /\ call' \in [Slots -> Control!Call]
      /\ call'[c].op = "none" /\ call'[c].stage = "none"
      /\ \A d \in Slots \ {c} : call'[d] = call[d]
  BY <1>t, ReturnIs
<1>n. \A d \in Slots \ {c} : call[d].op = "none" /\ call[d].stage = "none"
  BY DEF RecInv, RecCalls, CallIs, StagesOf
<1>o. \A d \in Slots : call'[d].op = "none" /\ call'[d].stage = "none"
  BY <1>d, <1>n
<1>m. /\ store' \in Control!Store /\ store'.session = q /\ store'.status = "recording"
      /\ store'.ending = store.ending /\ store'.lost = store.lost /\ store'.counting
  BY <1>t, <1>s, <1>q, <1>w DEF Control!TypeOK, Control!Store, Control!Begin, Control!Requests
<1>e. ~store.ending
  BY <1>n DEF RecInv, RecStore
<1>g. /\ Control!NextSegment(q) \in Control!Segment /\ Control!NextSegment(q).session = q
  BY <1>s, NextSegmentIs DEF RecInv, RecSegments
<1>p. mic.pending # "current" /\ ~mic.connection.flushing
  BY <1>n DEF RecInv, RecMic
<1>h. CASE mic.open
  <2>1. /\ mic.connection.live
        /\ mic' = [mic EXCEPT !.connection = Control!Started(@, q)]
        /\ segment' = segment \cup {Control!NextSegment(q)} /\ audio' = {}
    BY <1>h, <1>q, <1>t DEF Control!Begin, Control!Dead, Control!TypeOK, Control!Mic, Control!Connection
  <2>2. /\ mic' \in Control!Mic /\ mic'.open /\ mic'.pending = mic.pending
        /\ mic'.connection.live
        /\ mic'.connection.recorder = "recording"
        /\ mic'.connection.collects = {Control!NextSegment(q)}
        /\ mic'.connection.flushing = mic.connection.flushing
    BY <2>1, <1>h, <1>g, <1>t DEF Control!TypeOK, Control!Mic, Control!Connection, Control!Started
  <2>3. Control!TypeOK'
    BY <2>1, <2>2, <1>g, <1>t, <1>d, <1>m, <1>w DEF Control!TypeOK, Control!At
  <2>4. RecStore' /\ RecCalls'
    BY <1>m, <1>s, <1>e, <1>o, NoCallsAre DEF RecStore, Begun
  <2>5. RecMic' /\ RecAudio'
    BY <2>1, <2>2, <1>m, <1>o, <1>p, <1>g DEF RecMic, RecAudio
  <2>6. RecSegments'
    <3>1. IsFiniteSet(segment')
      BY <2>1, FS_AddElement DEF RecInv, RecSegments
    <3> QED
      BY <3>1, <2>1, <1>m, <1>s, <1>g, <1>o DEF RecInv, RecSegments
  <2>7. PatientMic'
    BY <2>2, <1>m, <1>o DEF PatientMic
  <2>8. PatientAudio'
    <3>1. OfSession(q)' \subseteq {Control!NextSegment(q)}
      BY <2>1, <1>s DEF RecInv, RecSegments, OfSession
    <3>2. ~HasHandedOver'
      BY <2>2 DEF HasHandedOver
    <3> QED
      BY <3>1, <3>2, <2>2, <1>m, <1>o DEF PatientAudio, Uploading, OfSession
  <2>9. ASSUME Control!Patient PROVE PatientCalls'
    BY <2>9, <1>m, <1>o DEF RecInv, PatientCalls, Control!Quiet, Control!Free
  <2>10. ASSUME Control!Patient, recordingFaults = 0 PROVE PatientServer'
    BY <2>10, <1>m, <1>s, <1>o, <1>q DEF RecInv, PatientServer, Undisturbed, SessionState
  <2> QED
    BY <2>3, <2>4, <2>5, <2>6, <2>7, <2>8, <2>9, <2>10 DEF RecInv, Control!Patient
<1>i. CASE ~mic.open
  <2>1. UNCHANGED <<mic, segment>> /\ audio' = {} /\ mic.connection = Control!NoConnection
    BY <1>i DEF Control!Begin, RecInv, RecMic
  <2>2. mic.connection.collects = {}
    BY <2>1 DEF Control!NoConnection, Control!Connected
  <2>3. Control!TypeOK'
    BY <2>1, <1>t, <1>d, <1>m, <1>w DEF Control!TypeOK, Control!At
  <2>4. RecStore' /\ RecCalls'
    BY <1>m, <1>s, <1>e, <1>o, NoCallsAre DEF RecStore, Begun
  <2>5. RecMic' /\ RecAudio'
    BY <2>1, <2>2, <1>m, <1>o, <1>p DEF RecInv, RecMic, RecAudio
  <2>6. RecSegments'
    BY <2>1, <1>m, <1>s, <1>o DEF RecInv, RecSegments
  <2>7. ~Control!Patient
    BY <1>i DEF RecInv, PatientMic
  <2> QED
    BY <2>3, <2>4, <2>5, <2>6, <2>7 DEF RecInv, Control!Patient
<1> QED
  BY <1>h, <1>i

\* The answer to a start.
LEMMA StartAnsweredKeeps ==
    ASSUME RecInv, NEW c \in Slots, Control!StartAnswered(c)
    PROVE  RecInv'
<1> USE DEF Control!chunks, Control!proofs, Control!record, Control!screen
<1>t. Control!TypeOK /\ CallIs(c) /\ call[c].op = "start" /\ call[c].stage = "response"
  BY DEF RecInv, RecCalls, Control!StartAnswered
<1>u. /\ Control!Return(c)
      /\ UNCHANGED <<overlap, proof, used, lostPage, dialogs, server, recordingFaults>>
  BY DEF Control!StartAnswered
<1>s. store.status = "idle"
  BY <1>t DEF CallIs
<1>1. CASE Control!Disconnect /\ audio' = {} /\ store' = Control!IdleStore /\ UNCHANGED <<segment, page>>
  BY <1>1, <1>t, <1>u, ClosingKeeps DEF Control!TypeOK
<1>2. CASE /\ call[c].answer \in {"ok", "over"} /\ ~Control!Dead
           /\ Control!Begin(call[c].workspace, call[c].session)
           /\ page' = Control!At(call[c].workspace, "recording") /\ UNCHANGED late
  BY <1>2, <1>t, <1>u, BeginKeeps
<1> QED
  BY <1>1, <1>2, <1>s DEF Control!StartAnswered

\* The microphone is not obtained: who waited for it returns, and the dialogs say so.
LEMMA NotObtainedKeeps ==
    ASSUME RecInv, mic.pending # "no", mic' = [mic EXCEPT !.pending = "no"],
           dialogs' = dialogs \cup {op \in {"start", "resume"} : Control!Waiting(op) # {}},
           call' = [c \in Slots |-> IF call[c].stage = "mic" THEN Control!NoCall ELSE call[c]],
           UNCHANGED <<overlap, store, audio, late, proof, used, segment, lostPage, page, server,
                       recordingFaults>>
    PROVE  RecInv'
<1>t. Control!TypeOK
  BY DEF RecInv
<1>d. /\ call' \in [Slots -> Control!Call]
      /\ \A c \in Slots : call[c].stage # "mic" => call'[c] = call[c]
      /\ \A c \in Slots : call[c].stage = "mic" =>
            call'[c].op = "none" /\ call'[c].stage = "none" /\ call'[c].answer = "none"
  BY <1>t, NoCallIs, RecTypes
<1>e. \A c \in Slots : call[c].op = "end" => call'[c] = call[c]
  BY <1>d DEF RecInv, RecCalls, CallIs, StagesOf
<1>m. /\ mic' \in Control!Mic /\ mic'.open = mic.open /\ mic'.connection = mic.connection
      /\ mic'.pending = "no"
  BY <1>t DEF Control!TypeOK, Control!Mic
<1>o. \A c \in Slots : call'[c].op \in {"none", call[c].op}
  BY <1>d
<1>1. Control!TypeOK'
  BY <1>t, <1>d, <1>m DEF Control!TypeOK
<1>2. RecCalls'
  <2>1. GoesOn
    BY DEF GoesOn, Over, Begun
  <2>2. ASSUME NEW c \in Slots PROVE CallIs(c)'
    <3>1. CASE call[c].stage = "mic"
      BY <3>1, <1>d DEF CallIs, StagesOf, Uploading, Ending
    <3>2. CASE call[c].stage # "mic"
      BY <3>2, <2>1, <1>d, <1>t, RecTypes, CallKept DEF RecInv, RecCalls, CallIs
    <3> QED
      BY <3>1, <3>2
  <2> QED
    BY <2>2, <1>o DEF RecInv, RecCalls
<1>3. RecStore'
  BY <1>e DEF RecInv, RecStore, Begun
<1>4. RecMic'
  <2>1. store.status = "idle" /\ ~Starting' => ~mic.open
    <3>1. CASE Starting
      <4>1. PICK c \in Slots : call[c].op = "start"
        BY <3>1 DEF Starting
      <4>2. CASE call[c].stage = "mic"
        BY <4>1, <4>2 DEF RecInv, RecMic
      <4>3. CASE call[c].stage # "mic"
        BY <4>1, <4>3, <1>d DEF Starting
      <4> QED
        BY <4>2, <4>3
    <3>2. CASE ~Starting
      BY <3>2 DEF RecInv, RecMic
    <3> QED
      BY <3>1, <3>2
  <2>2. mic.connection.flushing => \E c \in Slots : call'[c].stage = "stopping"
    BY <1>d DEF RecInv, RecMic
  <2>3. \A c \in Slots : call'[c].stage # "mic"
    BY <1>d
  <2> QED
    BY <2>1, <2>2, <2>3, <1>m DEF RecInv, RecMic
<1>5. RecAudio'
  BY <1>m DEF RecInv, RecAudio
<1>6. RecSegments'
  <2>1. \A c \in Slots : call'[c].op = "start" \/ call'[c].stage = "mic" =>
           call[c].op = "start" \/ call[c].stage = "mic"
    BY <1>d
  <2> QED
    BY <2>1 DEF RecInv, RecSegments
<1>8. ASSUME Control!Patient' PROVE PatientCalls'
  BY <1>8, <1>d, <1>o DEF RecInv, Control!Patient, PatientCalls, Control!Quiet, Control!Free
<1>9. ASSUME Control!Patient' PROVE PatientMic'
  <2>1. \A c \in Slots : Ending(c) => Ending(c)'
    BY <1>d DEF Ending
  <2> QED
    BY <2>1, <1>9, <1>d, <1>m DEF RecInv, Control!Patient, PatientMic
<1>10. ASSUME Control!Patient' PROVE PatientAudio'
  <2>1. \A c \in Slots : Uploading(c)' => Uploading(c) /\ call'[c] = call[c]
    BY <1>d DEF Uploading
  <2> QED
    BY <2>1, <1>10, <1>m DEF RecInv, Control!Patient, PatientAudio, HasHandedOver, OfSession
<1>11. ASSUME Control!Patient', recordingFaults' = 0 PROVE PatientServer'
  <2>1. PatientServer
    BY <1>11 DEF RecInv, Control!Patient
  <2>2. \A c \in Slots : Undisturbed(c)'
    <3>1. ASSUME NEW c \in Slots PROVE Undisturbed(c)'
      BY <2>1, <1>d DEF PatientServer, Undisturbed, SessionState
    <3> QED
      BY <3>1
  <2>3. ASSUME store.session # 0, Control!Quiet', ~Control!Quiet PROVE SessionState = store.status
    <3>1. PICK c \in Slots : call[c].op # "none"
      BY <2>3 DEF Control!Quiet, Control!Free
    <3>2. call[c].stage = "mic"
      BY <2>3, <3>1, <1>d DEF Control!Quiet, Control!Free
    <3>3. call[c].op = "resume"
      <4>1. CallIs(c) /\ call[c] \in Control!Call
        BY <1>t, RecTypes DEF RecInv, RecCalls
      <4>2. call[c].op # "start"
        BY <2>3, <4>1 DEF CallIs, RecInv, RecStore
      <4> QED
        BY <3>1, <3>2, <4>1, <4>2 DEF CallIs, StagesOf, Control!Call
    <3> QED
      BY <3>2, <3>3, <2>1 DEF PatientServer, Undisturbed
  <2> QED
    BY <2>1, <2>2, <2>3 DEF PatientServer, SessionState
<1> QED
  BY <1>1, <1>2, <1>3, <1>4, <1>5, <1>6, <1>8, <1>9, <1>10, <1>11 DEF RecInv

\* A microphone that was just connected.
LEMMA ConnectedIs ==
    /\ Control!Connected \in Control!Connection
    /\ Control!Connected.live /\ ~Control!Connected.flushing
    /\ Control!Connected.recorder = "inactive" /\ Control!Connected.collects = {}
BY DEF Control!Connected, Control!Connection

\* A start obtains the microphone, and asks the server with its proof.
LEMMA StartObtainsKeeps ==
    ASSUME RecInv, NEW c \in Slots, call[c].op = "start", call[c].stage = "mic",
           Control!StartProof <= MaxRequests,
           late' = late \cup Control!ClosedEarly,
           mic' = [mic EXCEPT !.pending = "no", !.open = TRUE, !.connection = Control!Connected],
           store' = [store EXCEPT !.analyser = TRUE],
           proof' = Control!StartProof, used' = IF proof' > used THEN proof' ELSE used,
           call' = [call EXCEPT ![c] = Control!Send("start", call[c].workspace, proof')],
           UNCHANGED <<overlap, audio, segment, lostPage, page, dialogs, server, recordingFaults>>
    PROVE  RecInv'
<1>t. Control!TypeOK /\ call[c] \in Control!Call /\ CallIs(c)
  BY RecTypes DEF RecInv, RecCalls
<1>p. /\ proof' \in 0..MaxRequests /\ proof' # 0 /\ used' \in 0..MaxRequests /\ proof' <= used'
      /\ used <= used' /\ (proof # 0 => proof' = proof /\ used' = used)
      /\ (proof = 0 => proof' = used + 1)
  BY <1>t, RecTypes, RecBounds DEF Control!StartProof, RecInv, RecSegments
<1> DEFINE k == Control!Send("start", call[c].workspace, proof')
<1>k. /\ k \in Control!Call /\ k.op = "start" /\ k.stage = "request"
      /\ k.session = proof' /\ k.answer = "none"
  BY <1>t, <1>p, SendIs DEF Control!Call
<1> HIDE DEF k
<1>d. /\ call' \in [Slots -> Control!Call] /\ call'[c] = k
      /\ \A d \in Slots \ {c} : call'[d] = call[d]
  BY <1>t, <1>k, OneCall DEF k
<1>n. \A d \in Slots \ {c} : call[d].op = "none" /\ call[d].stage = "none"
  BY DEF RecInv, RecCalls, CallIs, StagesOf
<1>s. store.status = "idle" /\ store.session = 0 /\ ~store.ending /\ ~mic.open
  BY <1>t, <1>n DEF CallIs, RecInv, RecStore, RecMic
<1>m. /\ store' \in Control!Store /\ store'.session = 0 /\ store'.status = "idle"
      /\ store'.ending = store.ending /\ store'.lost = store.lost
  BY <1>t, <1>s DEF Control!TypeOK, Control!Store
<1>c. /\ Control!Connected \in Control!Connection
      /\ Control!Connected.live /\ ~Control!Connected.flushing
      /\ Control!Connected.recorder = "inactive" /\ Control!Connected.collects = {}
  BY ConnectedIs
<1>i. /\ mic' \in Control!Mic /\ mic'.open /\ mic'.pending = "no"
      /\ mic'.connection = Control!Connected
  BY <1>t, <1>c DEF Control!TypeOK, Control!Mic
<1>l. late' \in SUBSET Control!Segment
  <2>1. mic.connection.collects \subseteq Control!Segment
    BY <1>t DEF Control!TypeOK, Control!Mic, Control!Connection
  <2> QED
    BY <2>1, <1>t, RecTypes DEF Control!ClosedEarly
<1>1. Control!TypeOK'
  BY <1>t, <1>p, <1>d, <1>m, <1>i, <1>l DEF Control!TypeOK
<1>2. RecCalls'
  <2>1. CallIs(c)'
    BY <1>k, <1>d, <1>m, <1>p DEF CallIs, StagesOf, Uploading, Ending
  <2>2. ASSUME NEW d \in Slots \ {c} PROVE CallIs(d)'
    BY <1>d, <1>n DEF CallIs, StagesOf, Uploading, Ending
  <2> QED
    BY <2>1, <2>2, <1>d, <1>n, <1>k DEF RecCalls
<1>3. RecStore'
  BY <1>m, <1>s DEF RecStore
<1>4. RecMic'
  BY <1>i, <1>c, <1>k, <1>d, <1>n DEF RecMic, Starting
<1>5. RecAudio'
  BY <1>i, <1>c, <1>m, <1>s DEF RecInv, RecAudio
<1>6. RecSegments'
  <2>1. \A g \in segment : g.session \in Nat
    BY <1>t, RecTypes, RecBounds DEF Control!Segment, Control!Requests
  <2>2. \A q \in Control!Requests : q \in Nat
    BY RecBounds DEF Control!Requests
  <2>3. \A g \in segment \ lostPage : g.session # proof'
    <3>1. CASE proof = 0
      BY <3>1, <2>1, <1>p, <1>t, RecTypes DEF RecInv, RecSegments
    <3>2. CASE proof # 0
      BY <3>2, <1>p, <1>s DEF RecInv, RecSegments
    <3> QED
      BY <3>1, <3>2
  <2>4. \A g \in segment : g.session <= used'
    BY <2>1, <1>p, <1>t, RecTypes DEF RecInv, RecSegments
  <2>5. \A q \in Control!Requests : q > used' => server[q].state = "none"
    BY <2>2, <1>p, <1>t, RecTypes DEF RecInv, RecSegments
  <2> QED
    BY <2>3, <2>4, <2>5, <1>p DEF RecInv, RecSegments
<1>8. ASSUME Control!Patient' PROVE PatientCalls'
  BY <1>8, <1>m, <1>n, <1>d, <1>k DEF RecInv, Control!Patient, PatientCalls, Control!Quiet, Control!Free
<1>9. PatientMic'
  BY <1>i, <1>c, <1>m, <1>n, <1>d, <1>k DEF PatientMic
<1>10. PatientAudio'
  BY <1>m, <1>n, <1>d, <1>k DEF PatientAudio, Uploading
<1>11. ASSUME Control!Patient', recordingFaults' = 0 PROVE PatientServer'
  <2>1. \A d \in Slots : Undisturbed(d)'
    BY <1>n, <1>d, <1>k DEF Undisturbed
  <2>2. server[proof'].state \in {"none", "recording"}
    <3>1. CASE proof = 0
      <4>1. proof' \in Control!Requests /\ proof' > used
        BY <3>1, <1>p, <1>t, RecTypes, RecBounds DEF Control!Requests
      <4> QED
        BY <4>1 DEF RecInv, RecSegments
    <3>2. CASE proof # 0
      BY <3>2, <1>p, <1>s, <1>11 DEF RecInv, Control!Patient, PatientServer
    <3> QED
      BY <3>1, <3>2
  <2> QED
    BY <2>1, <2>2, <1>m DEF PatientServer
<1> QED
  BY <1>1, <1>2, <1>3, <1>4, <1>5, <1>6, <1>8, <1>9, <1>10, <1>11 DEF RecInv

\* Those who wait to resume obtain the microphone: a new segment is recorded, and the server told.
LEMMA ResumesObtainKeep ==
    ASSUME RecInv, NEW b \in Slots, call[b].op = "resume", call[b].stage = "mic",
           mic.pending = "current",
           late' = late \cup Control!ClosedEarly,
           mic' = [mic EXCEPT !.pending = "no", !.open = TRUE,
                      !.connection = Control!Started(Control!Connected, store.session)],
           segment' = segment \cup {Control!NextSegment(store.session)},
           store' = [store EXCEPT !.analyser = TRUE, !.status = "recording",
                                  !.counting = TRUE, !.lost = FALSE],
           call' = [c \in Slots |->
                      IF call[c].stage = "mic" /\ call[c].op = "resume"
                      THEN Control!Send("resume", store.workspace, store.session)
                      ELSE call[c]],
           UNCHANGED <<overlap, audio, proof, used, lostPage, page, dialogs, server,
                       recordingFaults>>
    PROVE  RecInv'
<1> DEFINE k == Control!Send("resume", store.workspace, store.session)
           Waits(c) == call[c].stage = "mic" /\ call[c].op = "resume"
<1>t. Control!TypeOK
  BY DEF RecInv
<1>s. /\ store.status = "paused" /\ store.session # 0 /\ store.session \in Control!Requests
      /\ proof = store.session /\ Begun(store.session) /\ ~(mic.open /\ mic.connection.live)
  BY <1>t, StoreFields, RecBounds DEF RecInv, RecMic, RecStore, Control!Requests
<1>k. /\ k \in Control!Call /\ k.op = "resume" /\ k.stage = "request"
      /\ k.session = store.session /\ k.answer = "none"
  BY <1>t, StoreFields, SendIs
<1> HIDE DEF k
<1>d. /\ call' \in [Slots -> Control!Call]
      /\ \A c \in Slots : Waits(c) => call'[c] = k
      /\ \A c \in Slots : ~Waits(c) => call'[c] = call[c]
  BY <1>t, <1>k, RecTypes DEF k
<1>n. \A c \in Slots : call[c].op # "start"
  BY DEF RecInv, RecCalls
<1>w. \A c \in Slots : call[c].stage = "mic" => Waits(c)
  <2> SUFFICES ASSUME NEW c \in Slots, call[c].stage = "mic" PROVE call[c].op = "resume"
    OBVIOUS
  <2>1. CallIs(c) /\ call[c] \in Control!Call
    BY <1>t, RecTypes DEF RecInv, RecCalls
  <2> QED
    BY <2>1, <1>n DEF CallIs, StagesOf, Control!Call
<1>m. /\ store' \in Control!Store /\ store'.session = store.session
      /\ store'.status = "recording" /\ store'.counting /\ ~store'.lost
      /\ store'.ending = store.ending
  BY <1>t DEF Control!TypeOK, Control!Store
<1>g. /\ Control!NextSegment(store.session) \in Control!Segment
      /\ Control!NextSegment(store.session).session = store.session
  BY <1>s, NextSegmentIs DEF RecInv, RecSegments
<1>i. /\ mic' \in Control!Mic /\ mic'.open /\ mic'.pending = "no" /\ mic'.connection.live
      /\ mic'.connection.recorder = "recording"
      /\ mic'.connection.collects = {Control!NextSegment(store.session)}
      /\ ~mic'.connection.flushing
  <2> DEFINE n == Control!Started(Control!Connected, store.session)
  <2>1. /\ n \in Control!Connection /\ n.live /\ n.recorder = "recording"
        /\ n.collects = {Control!NextSegment(store.session)} /\ ~n.flushing
    BY <1>g, ConnectedIs DEF Control!Started, Control!Connection
  <2> HIDE DEF n
  <2>2. mic' = [mic EXCEPT !.pending = "no", !.open = TRUE, !.connection = n]
    BY DEF n
  <2> QED
    BY <2>1, <2>2, <1>t DEF Control!TypeOK, Control!Mic
<1>l. late' \in SUBSET Control!Segment
  <2>1. mic.connection.collects \subseteq Control!Segment
    BY <1>t DEF Control!TypeOK, Control!Mic, Control!Connection
  <2> QED
    BY <2>1, <1>t, RecTypes DEF Control!ClosedEarly
<1>o. \A c \in Slots : call'[c].op = call[c].op /\ call'[c].stage # "mic"
  BY <1>d, <1>k, <1>w
<1> HIDE DEF Waits
<1>1. Control!TypeOK'
  BY <1>t, <1>d, <1>m, <1>i, <1>l, <1>g DEF Control!TypeOK
<1>2. RecCalls'
  <2>1. GoesOn
    BY DEF GoesOn, Over, Begun
  <2>2. ASSUME NEW c \in Slots PROVE CallIs(c)'
    <3>1. CASE Waits(c)
      BY <3>1, <1>d, <1>k, <1>m, <1>s DEF CallIs, StagesOf, Uploading, Ending, Begun
    <3>2. CASE ~Waits(c)
      BY <3>2, <2>1, <1>d, <1>m, <1>n, <1>t, RecTypes, CallKept DEF RecInv, RecCalls, CallIs
    <3> QED
      BY <3>1, <3>2
  <2> QED
    BY <2>2, <1>o DEF RecInv, RecCalls
<1>3. RecStore'
  BY <1>m, <1>s, <1>o DEF RecInv, RecStore, Begun
<1>4. RecMic'
  BY <1>m, <1>i, <1>o DEF RecMic
<1>5. RecAudio'
  BY <1>m, <1>i, <1>g DEF RecInv, RecAudio
<1>6. RecSegments'
  <2>1. IsFiniteSet(segment')
    BY FS_AddElement DEF RecInv, RecSegments
  <2>2. \A g \in segment' : g.session <= used
    BY <1>g, <1>s DEF RecInv, RecSegments
  <2>3. ~\E c \in Slots : call'[c].op = "start" \/ call'[c].stage = "mic"
    BY <1>o, <1>n
  <2> QED
    BY <2>1, <2>2, <2>3, <1>m, <1>s DEF RecInv, RecSegments
<1>7. ASSUME Control!Patient' PROVE \A c \in Slots \ {b} : call[c].op = "none" /\ call[c].stage = "none"
                                                      /\ call'[c] = call[c]
  <2>1. Control!Patient /\ PatientCalls /\ RecCalls
    BY <1>7 DEF RecInv, Control!Patient
  <2>2. ASSUME NEW c \in Slots \ {b} PROVE call[c].op = "none" /\ call[c].stage = "none"
    BY <2>1 DEF PatientCalls, RecCalls, CallIs, StagesOf
  <2> QED
    BY <2>2, <1>d DEF Waits
<1>b. call'[b] = k
  BY <1>d DEF Waits
<1>8. ASSUME Control!Patient' PROVE PatientCalls'
  BY <1>7, <1>8, <1>m, <1>s, <1>b, <1>k DEF PatientCalls
<1>9. ASSUME Control!Patient' PROVE PatientMic'
  BY <1>7, <1>9, <1>m, <1>i, <1>b, <1>k DEF PatientMic
<1>10. ASSUME Control!Patient' PROVE PatientAudio'
  <2>1. \A c \in Slots : ~Uploading(c)'
    BY <1>7, <1>10, <1>b, <1>k DEF Uploading
  <2>2. HasHandedOver
    BY <1>7, <1>10, <1>s DEF RecInv, RecMic, HasHandedOver, Control!NoConnection, Control!Connected
  <2>3. OfSession(store.session) \subseteq audio
    BY <2>2, <1>10, <1>s DEF RecInv, Control!Patient, PatientAudio
  <2>4. OfSession(store.session)' \subseteq audio \cup {Control!NextSegment(store.session)}
    BY <2>3, <1>m DEF OfSession
  <2> QED
    BY <2>1, <2>4, <1>m, <1>i DEF PatientAudio, HasHandedOver, OfSession
<1>11. ASSUME Control!Patient', recordingFaults' = 0 PROVE PatientServer'
  <2>1. SessionState = "paused"
    BY <1>11 DEF RecInv, Control!Patient, PatientServer, Undisturbed
  <2>2. SessionState' = "paused"
    BY <2>1, <1>m DEF SessionState
  <2>3. \A c \in Slots : Undisturbed(c)'
    <3>1. Undisturbed(b)'
      BY <2>2, <1>b, <1>k, <1>m DEF Undisturbed
    <3> QED
      BY <3>1, <1>7, <1>11 DEF Undisturbed
  <2>4. ~Control!Quiet'
    BY <1>b, <1>k DEF Control!Quiet, Control!Free
  <2> QED
    BY <2>3, <2>4, <1>m, <1>s DEF PatientServer
<1> QED
  BY <1>1, <1>2, <1>3, <1>4, <1>5, <1>6, <1>8, <1>9, <1>10, <1>11 DEF RecInv

\* The browser answers.
LEMMA MicAnsweredKeeps ==
    ASSUME RecInv, NEW granted \in BOOLEAN, Control!MicAnswered(granted)
    PROVE  RecInv'
<1> USE DEF Control!chunks, Control!proofs, Control!record, Control!screen
<1>t. Control!TypeOK /\ call \in [Slots -> Control!Call]
  BY RecTypes DEF RecInv
<1>u. mic.pending # "no" /\ UNCHANGED <<overlap, audio, lostPage, page, server, recordingFaults>>
  BY DEF Control!MicAnswered
<1>1. CASE ~Control!Obtained(granted)
  BY <1>1, <1>u, NotObtainedKeeps DEF Control!MicAnswered
<1>2. CASE Control!Obtained(granted)
  <2>1. /\ Control!Waiting("start") # {} => Control!StartProof <= MaxRequests
        /\ late' = late \cup Control!ClosedEarly
        /\ mic' = [mic EXCEPT !.pending = "no", !.open = TRUE,
                      !.connection = IF Control!Waiting("resume") # {}
                                     THEN Control!Started(Control!Connected, store.session)
                                     ELSE Control!Connected]
        /\ segment' = IF Control!Waiting("resume") # {}
                      THEN segment \cup {Control!NextSegment(store.session)} ELSE segment
        /\ store' = IF Control!Waiting("resume") # {}
                    THEN [store EXCEPT !.analyser = TRUE, !.status = "recording",
                                       !.counting = TRUE, !.lost = FALSE]
                    ELSE [store EXCEPT !.analyser = Control!Waiting("start") # {} \/ @]
        /\ proof' = IF Control!Waiting("start") # {} THEN Control!StartProof ELSE proof
        /\ used' = IF proof' > used THEN proof' ELSE used
        /\ call' = [c \in Slots |->
                      CASE c \in Control!Waiting("start") ->
                             Control!Send("start", call[c].workspace, proof')
                        [] c \in Control!Waiting("resume") ->
                             IF proof = 0 THEN Control!NoCall
                             ELSE Control!Send("resume", store.workspace, store.session)
                        [] OTHER -> call[c]]
        /\ UNCHANGED dialogs
    BY <1>2 DEF Control!MicAnswered
  <2>2. PICK b \in Slots : call[b].stage = "mic"
    BY <1>2 DEF Control!Obtained, RecInv, RecMic
  <2>3. call[b].op \in {"start", "resume"}
    <3>1. CallIs(b) /\ call[b] \in Control!Call
      BY <1>t DEF RecInv, RecCalls
    <3> QED
      BY <2>2, <3>1 DEF CallIs, StagesOf, Control!Call
  <2>4. CASE call[b].op = "start"
    <3>1. Control!Waiting("start") = {b} /\ Control!Waiting("resume") = {}
      BY <2>2, <2>4 DEF Control!Waiting, RecInv, RecCalls
    <3>2. call' = [call EXCEPT ![b] = Control!Send("start", call[b].workspace, proof')]
      <4>1. \A c \in Slots : c \in Control!Waiting("start") <=> c = b
        BY <3>1
      <4> QED
        BY <2>1, <3>1, <4>1, <1>t
    <3>3. store' = [store EXCEPT !.analyser = TRUE]
      BY <2>1, <3>1
    <3>4. /\ late' = late \cup Control!ClosedEarly /\ proof' = Control!StartProof
          /\ mic' = [mic EXCEPT !.pending = "no", !.open = TRUE, !.connection = Control!Connected]
          /\ segment' = segment /\ used' = (IF proof' > used THEN proof' ELSE used)
          /\ UNCHANGED dialogs /\ Control!StartProof <= MaxRequests
      BY <2>1, <3>1
    <3> QED
      BY <2>2, <2>4, <3>2, <3>3, <3>4, <1>u, StartObtainsKeeps
  <2>5. CASE call[b].op = "resume"
    <3>1. b \in Control!Waiting("resume") /\ Control!Waiting("start") = {}
      BY <2>2, <2>5 DEF Control!Waiting, RecInv, RecCalls
    <3>2. proof # 0 /\ proof' = proof /\ used' = used
      <4>1. proof # 0
        BY <1>2, <2>2, <2>5, <1>t DEF RecInv, RecMic, RecStore, Control!Obtained
      <4>2. proof' = proof
        BY <2>1, <3>1
      <4>3. ~(proof > used)
        BY <1>t, RecTypes DEF RecInv, RecSegments
      <4> QED
        BY <2>1, <4>1, <4>2, <4>3
    <3>3. call' = [c \in Slots |->
                      IF call[c].stage = "mic" /\ call[c].op = "resume"
                      THEN Control!Send("resume", store.workspace, store.session)
                      ELSE call[c]]
      <4>1. \A c \in Slots : c \notin Control!Waiting("start")
        BY <3>1
      <4>2. \A c \in Slots : c \in Control!Waiting("resume") <=>
                                call[c].stage = "mic" /\ call[c].op = "resume"
        BY DEF Control!Waiting
      <4> QED
        BY <2>1, <3>2, <4>1, <4>2
    <3>4. /\ late' = late \cup Control!ClosedEarly
          /\ mic' = [mic EXCEPT !.pending = "no", !.open = TRUE,
                        !.connection = Control!Started(Control!Connected, store.session)]
          /\ segment' = segment \cup {Control!NextSegment(store.session)}
          /\ store' = [store EXCEPT !.analyser = TRUE, !.status = "recording",
                                    !.counting = TRUE, !.lost = FALSE]
          /\ UNCHANGED dialogs
      BY <2>1, <3>1
    <3>5. mic.pending = "current"
      BY <1>2 DEF Control!Obtained
    <3> QED
      BY <2>2, <2>5, <3>2, <3>3, <3>4, <3>5, <1>u, ResumesObtainKeep
  <2> QED
    BY <2>3, <2>4, <2>5
<1> QED
  BY <1>1, <1>2

\* A track ends, and onLost pauses the recording.
LEMMA LoseMicrophoneKeeps ==
    ASSUME RecInv, Control!LoseMicrophone
    PROVE  RecInv'
<1> USE DEF Control!chunks, Control!proofs, Control!record, Control!screen
<1>t. Control!TypeOK /\ mic.open /\ mic.connection.live
  BY DEF RecInv, Control!LoseMicrophone
<1>u. UNCHANGED <<overlap, late, proof, used, segment, lostPage, call, page, dialogs, server,
                  recordingFaults>>
  BY DEF Control!LoseMicrophone
<1>m. /\ mic' \in Control!Mic /\ mic'.open = mic.open /\ mic'.pending = mic.pending
      /\ ~mic'.connection.live /\ mic'.connection.recorder = "inactive"
      /\ mic'.connection.collects = mic.connection.collects
      /\ mic'.connection.flushing = mic.connection.flushing
  BY <1>t DEF Control!TypeOK, Control!Mic, Control!Connection, Control!LoseMicrophone
<1>a. /\ audio' = IF mic.connection.recorder # "inactive"
                  THEN audio \cup mic.connection.collects ELSE audio
      /\ mic.connection.collects \subseteq Control!Segment
      /\ audio' \in SUBSET Control!Segment
  BY <1>t, RecTypes DEF Control!LoseMicrophone, Control!TypeOK, Control!Mic, Control!Connection
<1>s. /\ store' \in Control!Store /\ store'.session = store.session
      /\ store'.ending = store.ending /\ store'.lost
      /\ store.status = "recording" /\ store.counting => store'.status = "paused"
      /\ ~(store.status = "recording" /\ store.counting) => store'.status = store.status
  <2>1. CASE store.status = "recording" /\ store.counting
    BY <2>1, <1>t DEF Control!TypeOK, Control!Store, Control!LoseMicrophone, Control!FreezeElapsed
  <2>2. CASE ~(store.status = "recording" /\ store.counting)
    BY <2>2, <1>t DEF Control!TypeOK, Control!Store, Control!LoseMicrophone
  <2> QED
    BY <2>1, <2>2
<1>1. Control!TypeOK'
  BY <1>t, <1>m, <1>a, <1>s, <1>u DEF Control!TypeOK
<1>2. RecCalls'
  <2>1. GoesOn
    BY <1>u DEF GoesOn, Over, Begun
  <2>2. ASSUME NEW c \in Slots PROVE CallIs(c)'
    <3>1. call[c].op = "start" => store'.status = "idle"
      BY <1>s DEF RecInv, RecCalls, CallIs
    <3> QED
      BY <2>1, <3>1, <1>s, <1>u, <1>t, RecTypes, CallKept DEF RecInv, RecCalls
  <2> QED
    BY <2>2, <1>u DEF RecInv, RecCalls
<1>3. RecStore'
  BY <1>s, <1>u DEF RecInv, RecStore, Begun
<1>4. RecMic'
  BY <1>t, <1>s, <1>m, <1>u DEF RecInv, RecMic, Starting
<1>5. RecAudio'
  BY <1>s, <1>m, <1>a DEF RecInv, RecAudio
<1>6. RecSegments'
  BY <1>s, <1>u DEF RecInv, RecSegments
<1>7. ASSUME Control!Patient'
      PROVE  /\ Control!Patient /\ ~store.lost
             /\ \A c \in Slots : call[c].op = "none" /\ call[c].stage = "none"
  BY <1>7, <1>u, MayHappenIs DEF Control!Patient, Control!LoseMicrophone
<1>p. ASSUME Control!Patient'
      PROVE  store'.status = "paused" /\ store.status \in {"recording", "paused"} /\ store.session # 0
  <2>1. store.status # "idle"
    BY <1>p, <1>7, <1>t DEF RecInv, RecMic, Starting
  <2>2. store.status = "recording" => store.counting
    BY <1>p, <1>7, <2>1 DEF RecInv, PatientMic, Ending
  <2> QED
    BY <2>1, <2>2, <1>s, <1>t, StoreFields DEF RecInv, RecStore
<1>8. ASSUME Control!Patient' PROVE PatientCalls'
  BY <1>7, <1>8, <1>p, <1>u DEF PatientCalls, Control!Quiet, Control!Free
<1>9. ASSUME Control!Patient' PROVE PatientMic'
  BY <1>7, <1>9, <1>p, <1>m, <1>u DEF PatientMic
<1>10. ASSUME Control!Patient' PROVE PatientAudio'
  <2>1. ~mic.connection.flushing
    BY <1>7, <1>10 DEF RecInv, RecMic
  <2>2. OfSession(store.session) \subseteq audio'
    BY <2>1, <1>7, <1>10, <1>p, <1>a DEF RecInv, PatientAudio, HasHandedOver
  <2> QED
    BY <2>2, <1>7, <1>10, <1>s, <1>u DEF PatientAudio, OfSession, Uploading
<1>11. ASSUME Control!Patient', recordingFaults' = 0 PROVE PatientServer'
  <2>1. SessionState = store.status
    BY <1>7, <1>11, <1>p, <1>u DEF RecInv, PatientServer, Control!Quiet, Control!Free
  <2>2. SessionState' \in {"recording", "paused"} /\ store'.lost
    BY <2>1, <1>11, <1>p, <1>s, <1>u DEF SessionState
  <2>3. \A c \in Slots : Undisturbed(c)'
    BY <1>7, <1>11, <1>u DEF Undisturbed
  <2> QED
    BY <2>2, <2>3, <1>11, <1>p, <1>s DEF PatientServer
<1> QED
  BY <1>1, <1>2, <1>3, <1>4, <1>5, <1>6, <1>8, <1>9, <1>10, <1>11 DEF RecInv

\* The page goes with its calls and its audio.
LEMMA ReloadKeeps ==
    ASSUME RecInv, Control!Reload
    PROVE  RecInv'
<1> USE DEF Control!chunks, Control!proofs, Control!record, Control!screen
<1>t. Control!TypeOK
  BY DEF RecInv
<1>u. /\ UNCHANGED <<overlap, proof, used, segment, page, server>>
      /\ store' = Control!IdleStore /\ audio' = {} /\ late' = {} /\ lostPage' = segment
      /\ dialogs' = {} /\ call' = [c \in Slots |-> Control!NoCall]
      /\ recordingFaults < MaxRecordingFaults /\ recordingFaults' = recordingFaults + 1
  BY DEF Control!Reload
<1>m. /\ mic' \in Control!Mic /\ ~mic'.open /\ mic'.pending = "no"
      /\ mic'.connection = Control!NoConnection
      /\ ~mic'.connection.live /\ mic'.connection.recorder = "inactive"
      /\ mic'.connection.collects = {} /\ ~mic'.connection.flushing
  <2>1. /\ Control!NoConnection \in Control!Connection
        /\ ~Control!NoConnection.live /\ Control!NoConnection.recorder = "inactive"
        /\ Control!NoConnection.collects = {} /\ ~Control!NoConnection.flushing
    BY DEF Control!NoConnection, Control!Connected, Control!Connection
  <2>2. mic' = [mic EXCEPT !.open = FALSE, !.connection = Control!NoConnection, !.pending = "no"]
    BY DEF Control!Reload
  <2> QED
    BY <2>1, <2>2, <1>t DEF Control!TypeOK, Control!Mic
<1>d. /\ call' \in [Slots -> Control!Call]
      /\ \A c \in Slots : call'[c].op = "none" /\ call'[c].stage = "none"
  BY <1>u, NoCallIs
<1>s. /\ store' \in Control!Store /\ store'.status = "idle" /\ store'.session = 0
      /\ ~store'.ending /\ ~store'.lost
  BY <1>u, IdleStoreIs
<1>f. recordingFaults' \in 0..MaxRecordingFaults /\ recordingFaults' # 0
  BY <1>u, <1>t, RecBounds DEF Control!TypeOK
<1>1. Control!TypeOK'
  BY <1>t, <1>u, <1>m, <1>d, <1>s, <1>f DEF Control!TypeOK
<1>2. RecCalls' /\ RecStore' /\ RecMic' /\ RecAudio'
  BY <1>u, <1>m, <1>d, <1>s, NoCallsAre DEF RecStore, RecMic, RecAudio
<1>3. RecSegments'
  BY <1>u, <1>d, <1>s DEF RecInv, RecSegments
<1>4. PatientCalls' /\ PatientMic' /\ PatientAudio'
  BY <1>d, <1>s DEF PatientCalls, PatientMic, PatientAudio, Uploading
<1> QED
  BY <1>1, <1>2, <1>3, <1>4, <1>f DEF RecInv

-----------------------------------------------------------------------------
(* The same steps of any user *)

\* What the invariant says of is all that matters.
TabView == <<store, mic, audio, segment, call, server>>
LEMMA TabSame ==
    ASSUME TabInv, UNCHANGED TabView, Control!TypeOK'
    PROVE  TabInv'
BY DEF TabView, TabInv, TabCalls, TabCall, TabStore, TabMic, RecAudio, Over, Begun, Uploading,
       Ending

\* A call that is left alone.
LEMMA TabCallKept ==
    ASSUME NEW c \in Slots, TabCall(c), GoesOn, call[c] \in Control!Call, call'[c] = call[c]
    PROVE  TabCall(c)'
<1>1. call[c].session \in Control!Requests \/ call[c].session = 0
  BY RecBounds DEF Control!Call, Control!Requests
<1>2. call[c].op = "none" => call[c].stage = "none"
  BY DEF TabCall, StagesOf
<1>3. Over(call[c].session) /\ call[c].session # 0 => Over(call[c].session)'
  BY <1>1 DEF GoesOn, Over
<1>4. Begun(call[c].session) /\ call[c].session # 0 => Begun(call[c].session)'
  BY <1>1 DEF GoesOn, Begun
<1>5. Ending(c) => call[c].op # "none" /\ call[c].stage # "mic"
  BY <1>2 DEF Ending
<1> QED
  BY <1>2, <1>3, <1>4, <1>5 DEF TabCall, Uploading, Ending

\* All calls but one are left alone.
LEMMA TabCallsKept ==
    ASSUME Control!TypeOK, TabCalls, NEW c \in Slots, GoesOn,
           \A d \in Slots \ {c} : call'[d] = call[d], TabCall(c)'
    PROVE  TabCalls'
BY RecTypes, TabCallKept DEF TabCalls

\* The session of the store, if there is one, is one that was asked for.
LEMMA StoreHolds ==
    ASSUME Control!TypeOK
    PROVE  store.session # 0 => store.session \in Control!Requests
BY StoreFields, RecBounds DEF Control!Requests

\* A slot without a call.
LEMMA TabFree ==
    ASSUME TabInv, NEW c \in Slots, Control!Free(c)
    PROVE  call[c].op = "none" /\ call[c].stage = "none"
BY DEF TabInv, TabCalls, TabCall, StagesOf, Control!Free

\* A call is made, of the session in the store, and the server asked.
LEMMA SendsKeepsTab ==
    ASSUME TabInv, NEW c \in Slots, call[c].op = "none", call[c].stage = "none",
           NEW op \in {"pause", "resume", "end"}, store.session # 0,
           call' = [call EXCEPT ![c] = Control!Send(op, store.workspace, store.session)],
           UNCHANGED <<overlap, audio, late, proof, used, segment, lostPage, page, server,
                       recordingFaults>>,
           dialogs' \in SUBSET {"start", "resume"},
           store' \in Control!Store, store'.session = store.session,
           mic' \in Control!Mic, mic'.open = mic.open, mic'.pending = mic.pending,
           mic'.connection.live = mic.connection.live,
           mic'.connection.collects = mic.connection.collects,
           ~mic.open => mic'.connection = mic.connection,
           store.status # "idle", store'.status # "idle",
           store'.status # "paused" =>
               store.status # "paused" \/ (mic.open /\ mic.connection.live)
    PROVE  TabInv'
<1> DEFINE k == Control!Send(op, store.workspace, store.session)
<1>t. Control!TypeOK
  BY DEF TabInv
<1>k. /\ k \in Control!Call /\ k.op = op /\ k.stage = "request"
      /\ k.session = store.session /\ k.answer = "none"
  BY <1>t, StoreFields, SendIs
<1> HIDE DEF k
<1>d. /\ call' \in [Slots -> Control!Call] /\ call'[c] = k
      /\ \A d \in Slots \ {c} : call'[d] = call[d]
  BY <1>t, <1>k, OneCall DEF k
<1>1. Control!TypeOK'
  BY <1>t, <1>d DEF Control!TypeOK
<1>2. TabCalls'
  <2>1. GoesOn
    BY DEF GoesOn, Over, Begun
  <2>2. TabCall(c)'
    BY <1>k, <1>d DEF TabInv, TabStore, TabCall, StagesOf, Uploading, Ending, Begun
  <2> QED
    BY <1>t, <1>d, <2>1, <2>2, TabCallsKept DEF TabInv
<1>3. TabStore'
  BY DEF TabInv, TabStore, Begun
<1>4. TabMic'
  <2>1. \A d \in Slots : call'[d].stage = "mic" => d # c /\ call'[d] = call[d] /\ call[d].stage = "mic"
    BY <1>d, <1>k
  <2>2. mic.pending = "current" => \E d \in Slots : call'[d].stage = "mic"
    BY <1>d DEF TabInv, TabMic
  <2> QED
    BY <2>1, <2>2 DEF TabInv, TabMic
<1>5. RecAudio' /\ IsFiniteSet(segment')
  BY DEF TabInv, RecAudio
<1> QED
  BY <1>1, <1>2, <1>3, <1>4, <1>5 DEF TabInv

\* A call waits for the microphone.
LEMMA AwaitsKeepsTab ==
    ASSUME TabInv, NEW c \in Slots, call[c].op = "none", call[c].stage = "none",
           NEW op \in {"start", "resume"}, NEW w \in RecordingWorkspaces,
           op = "resume" => store.status = "paused" /\ ~(mic.open /\ mic.connection.live),
           mic' = [mic EXCEPT !.pending = Control!PendingConnect],
           call' = [call EXCEPT ![c] = Control!AwaitMic(op, w)],
           UNCHANGED <<overlap, store, audio, late, proof, used, segment, lostPage, page, server,
                       recordingFaults>>,
           dialogs' \in SUBSET {"start", "resume"}
    PROVE  TabInv'
<1> DEFINE k == Control!AwaitMic(op, w)
<1>t. Control!TypeOK
  BY DEF TabInv
<1>k. /\ k \in Control!Call /\ k.op = op /\ k.stage = "mic"
      /\ k.session = 0 /\ k.answer = "none"
  BY AwaitIs
<1> HIDE DEF k
<1>d. /\ call' \in [Slots -> Control!Call] /\ call'[c] = k
      /\ \A d \in Slots \ {c} : call'[d] = call[d]
  BY <1>t, <1>k, OneCall DEF k
<1>m. /\ mic' \in Control!Mic /\ mic'.open = mic.open /\ mic'.connection = mic.connection
      /\ mic'.pending # "no" /\ (mic.pending # "no" => mic'.pending = mic.pending)
  <2>1. /\ Control!PendingConnect \in {"current", "stale"}
        /\ mic.pending # "no" => Control!PendingConnect = mic.pending
    BY <1>t DEF Control!TypeOK, Control!Mic, Control!PendingConnect
  <2> QED
    BY <1>t, <2>1, RecTypes DEF Control!Mic
<1>1. Control!TypeOK'
  BY <1>t, <1>d, <1>m DEF Control!TypeOK
<1>2. TabCalls'
  <2>1. GoesOn
    BY DEF GoesOn, Over, Begun
  <2>2. TabCall(c)'
    BY <1>k, <1>d DEF TabCall, StagesOf, Uploading, Ending
  <2> QED
    BY <1>t, <1>d, <2>1, <2>2, TabCallsKept DEF TabInv
<1>3. TabStore'
  BY DEF TabInv, TabStore, Begun
<1>4. TabMic'
  <2>1. store.status = "idle" /\ mic.open =>
          \E d \in Slots : call'[d].op = "start" /\ call'[d].stage \in {"request", "response"}
    BY <1>d DEF TabInv, TabMic
  <2>2. \E d \in Slots : call'[d].stage = "mic"
    BY <1>d, <1>k
  <2>3. ASSUME NEW d \in Slots, call'[d].op = "resume", call'[d].stage = "mic"
        PROVE  /\ ~(mic.open /\ mic.connection.live)
               /\ mic'.pending = "current" => store.status = "paused"
    <3>1. CASE d = c
      BY <3>1, <2>3, <1>d, <1>k
    <3>2. CASE d # c
      BY <3>2, <2>3, <1>d, <1>m DEF TabInv, TabMic
    <3> QED
      BY <3>1, <3>2
  <2> QED
    BY <2>1, <2>2, <2>3, <1>m DEF TabInv, TabMic
<1>5. RecAudio' /\ IsFiniteSet(segment')
  BY <1>m DEF TabInv, RecAudio
<1> QED
  BY <1>1, <1>2, <1>3, <1>4, <1>5 DEF TabInv

\* What the user asks for.
LEMMA ControlKeepsTab ==
    ASSUME TabInv, NEW c \in Slots, Control!Control(c)
    PROVE  TabInv'
<1> USE DEF Control!chunks, Control!proofs, Control!record, Control!screen
<1>t. /\ Control!TypeOK /\ store \in Control!Store /\ mic \in Control!Mic
      /\ dialogs \in SUBSET {"start", "resume"}
      /\ page \in [workspace: RecordingWorkspaces, screen: {"home", "recording"}]
  BY DEF TabInv, Control!TypeOK
<1>f. call[c].op = "none" /\ call[c].stage = "none"
  BY TabFree DEF Control!Control, Control!ClickMic, Control!RetryStart, Control!ClickPause,
                 Control!ClickResume, Control!ClickEnd, Control!MayBegin
<1>w. page.workspace \in RecordingWorkspaces /\ store.workspace \in RecordingWorkspaces
  BY <1>t, StoreFields
<1>n. store.status # "idle" <=> store.session # 0
  BY DEF TabInv, TabStore
<1>1. CASE Control!ClickMic(c) \/ Control!RetryStart(c)
  <2>1. /\ Control!StartRecording(c, page.workspace)
        /\ UNCHANGED <<overlap, store, audio, late, proof, used, segment, lostPage, server,
                       recordingFaults>>
        /\ dialogs' \in SUBSET {"start", "resume"}
    BY <1>1, <1>t DEF Control!ClickMic, Control!RetryStart
  <2>2. CASE page' = Control!At(page.workspace, "recording") /\ UNCHANGED <<mic, call>>
    <3>1. Control!TypeOK'
      BY <2>1, <2>2, <1>t, <1>w DEF Control!TypeOK, Control!At
    <3> QED
      BY <2>1, <2>2, <3>1, TabSame DEF TabView
  <2>3. CASE /\ mic' = [mic EXCEPT !.pending = Control!PendingConnect]
             /\ call' = [call EXCEPT ![c] = Control!AwaitMic("start", page.workspace)]
             /\ UNCHANGED page
    BY <2>1, <2>3, <1>f, <1>w, AwaitsKeepsTab
  <2> QED
    BY <2>1, <2>2, <2>3 DEF Control!StartRecording
<1>2. CASE Control!ClickPause(c)
  <2>1. /\ store.status = "recording" /\ ~store.ending
        /\ UNCHANGED <<overlap, audio, late, proof, used, segment, lostPage, page, dialogs, server,
                       recordingFaults>>
    BY <1>2 DEF Control!ClickPause
  <2>2. /\ store' \in Control!Store /\ store'.session = store.session /\ store'.status # "idle"
        /\ mic' \in Control!Mic /\ mic'.open = mic.open /\ mic'.pending = mic.pending
        /\ mic'.connection.live = mic.connection.live
        /\ mic'.connection.collects = mic.connection.collects
        /\ ~mic.open => mic' = mic
    BY <1>2, <1>t, <2>1, StorePauses, MicPauses DEF Control!ClickPause
  <2>3. CASE call' = [call EXCEPT ![c] = Control!Send("pause", store.workspace, store.session)]
    BY <2>1, <2>2, <2>3, <1>f, <1>n, <1>t, SendsKeepsTab
  <2>4. CASE call' = call
    <3>1. Control!TypeOK'
      BY <2>1, <2>2, <2>4, <1>t DEF Control!TypeOK
    <3>2. TabCalls' /\ TabStore' /\ RecAudio' /\ IsFiniteSet(segment')
      BY <2>1, <2>2, <2>4
         DEF TabInv, TabCalls, TabCall, TabStore, RecAudio, Over, Begun, Uploading, Ending
    <3>3. TabMic'
      <4>1. ASSUME NEW d \in Slots, call[d].op = "resume", call[d].stage = "mic"
            PROVE  ~(mic.open /\ mic.connection.live) /\ mic.pending # "current"
        BY <4>1, <2>1 DEF TabInv, TabMic
      <4> QED
        BY <4>1, <2>1, <2>2, <2>4 DEF TabInv, TabMic
    <3> QED
      BY <3>1, <3>2, <3>3 DEF TabInv
  <2> QED
    BY <1>2, <2>3, <2>4 DEF Control!ClickPause, Control!SyncPause
<1>3. CASE Control!ClickResume(c)
  <2>1. /\ Control!ResumeRecording(c)
        /\ UNCHANGED <<overlap, audio, late, proof, used, segment, lostPage, page, server,
                       recordingFaults>>
    BY <1>3 DEF Control!ClickResume
  <2>2. CASE UNCHANGED <<store, mic, call>> /\ dialogs' = dialogs \cup {"resume"}
    <3>1. Control!TypeOK'
      BY <2>1, <2>2, <1>t DEF Control!TypeOK
    <3> QED
      BY <2>1, <2>2, <3>1, TabSame DEF TabView
  <2>3. ASSUME dialogs' = dialogs \ {"resume"}, call' = call,
               \/ store.status = "recording" /\ UNCHANGED <<store, mic>>
               \/ /\ store.status = "paused" /\ mic.open /\ mic.connection.live
                  /\ mic' = Control!RecorderResumed(mic)
                  /\ store' = [store EXCEPT !.status = "recording", !.counting = TRUE, !.lost = FALSE]
        PROVE  TabInv'
    <3>1. /\ store' \in Control!Store /\ store'.session = store.session
          /\ store.status # "idle" /\ store'.status # "idle"
          /\ mic' \in Control!Mic /\ mic'.open = mic.open /\ mic'.pending = mic.pending
          /\ mic'.connection.live = mic.connection.live
          /\ mic'.connection.collects = mic.connection.collects
          /\ ~mic.open => mic' = mic
          /\ ~(mic.open /\ mic.connection.live) => store' = store
      BY <2>3, <1>t, StoreResumes, MicResumes
    <3>2. Control!TypeOK'
      BY <2>1, <2>3, <3>1, <1>t DEF Control!TypeOK
    <3>3. TabCalls' /\ TabStore' /\ RecAudio' /\ IsFiniteSet(segment')
      BY <2>1, <2>3, <3>1
         DEF TabInv, TabCalls, TabCall, TabStore, RecAudio, Over, Begun, Uploading, Ending
    <3>4. TabMic'
      BY <2>3, <3>1 DEF TabInv, TabMic
    <3> QED
      BY <3>2, <3>3, <3>4 DEF TabInv
  <2>4. ASSUME dialogs' = dialogs \ {"resume"},
               call' = [call EXCEPT ![c] = Control!Send("resume", store.workspace, store.session)],
               \/ store.status = "recording" /\ UNCHANGED <<store, mic>>
               \/ /\ store.status = "paused" /\ mic.open /\ mic.connection.live
                  /\ mic' = Control!RecorderResumed(mic)
                  /\ store' = [store EXCEPT !.status = "recording", !.counting = TRUE, !.lost = FALSE]
        PROVE  TabInv'
    <3>1. /\ store' \in Control!Store /\ store'.session = store.session
          /\ store.status # "idle" /\ store'.status # "idle"
          /\ mic' \in Control!Mic /\ mic'.open = mic.open /\ mic'.pending = mic.pending
          /\ mic'.connection.live = mic.connection.live
          /\ mic'.connection.collects = mic.connection.collects
          /\ ~mic.open => mic' = mic
          /\ ~(mic.open /\ mic.connection.live) => store' = store
      BY <2>4, <1>t, StoreResumes, MicResumes
    <3>2. dialogs' \in SUBSET {"start", "resume"}
      BY <2>4, <1>t
    <3> QED
      BY <2>1, <2>4, <3>1, <3>2, <1>f, <1>n, SendsKeepsTab
  <2>5. ASSUME dialogs' = dialogs \ {"resume"}, UNCHANGED store, store.status = "paused",
               ~(mic.open /\ mic.connection.live),
               mic' = [mic EXCEPT !.pending = Control!PendingConnect],
               call' = [call EXCEPT ![c] = Control!AwaitMic("resume", store.workspace)]
        PROVE  TabInv'
    <3>1. dialogs' \in SUBSET {"start", "resume"}
      BY <2>5, <1>t
    <3> QED
      BY <2>1, <2>5, <3>1, <1>f, <1>w, AwaitsKeepsTab
  <2> QED
    BY <2>1, <2>2, <2>3, <2>4, <2>5 DEF Control!ResumeRecording
<1>4. CASE Control!ClickEnd(c)
  <2>1. /\ store.session # 0 /\ store' = [store EXCEPT !.ending = TRUE]
        /\ call' = [call EXCEPT ![c] = Control!Send("end", store.workspace, store.session)]
        /\ UNCHANGED <<overlap, mic, audio, late, proof, used, segment, lostPage, page, dialogs,
                       server, recordingFaults>>
    BY <1>4 DEF Control!ClickEnd
  <2>2. /\ store' \in Control!Store /\ store'.session = store.session
        /\ store'.status = store.status
    BY <2>1, <1>t DEF Control!Store
  <2> QED
    BY <2>1, <2>2, <1>f, <1>n, <1>t, SendsKeepsTab
<1> QED
  BY <1>1, <1>2, <1>3, <1>4 DEF Control!Control

\* The loss of the microphone is shown.
LEMMA LostEffectKeepsTab ==
    ASSUME TabInv, NEW c \in Slots, Control!MicrophoneLostEffect(c)
    PROVE  TabInv'
<1> USE DEF Control!chunks, Control!proofs, Control!record
<1>t. /\ Control!TypeOK /\ store \in Control!Store /\ mic \in Control!Mic
      /\ dialogs \in SUBSET {"start", "resume"}
  BY DEF TabInv, Control!TypeOK
<1>f. call[c].op = "none" /\ call[c].stage = "none"
  BY TabFree DEF Control!MicrophoneLostEffect
<1>n. store.status # "idle" <=> store.session # 0
  BY DEF TabInv, TabStore
<1>1. /\ UNCHANGED <<overlap, mic, audio, late, proof, used, segment, lostPage, page, server,
                     recordingFaults>>
      /\ dialogs' \in SUBSET {"start", "resume"}
      /\ store' \in Control!Store /\ store'.session = store.session
      /\ store'.status = store.status
  BY <1>t DEF Control!MicrophoneLostEffect, Control!Store
<1>2. CASE /\ store.session # 0
           /\ call' = [call EXCEPT ![c] = Control!Send("pause", store.workspace, store.session)]
  BY <1>1, <1>2, <1>f, <1>n, <1>t, SendsKeepsTab
<1>3. CASE call' = call
  <2>1. Control!TypeOK'
    BY <1>1, <1>3, <1>t DEF Control!TypeOK
  <2>2. TabCalls' /\ TabStore' /\ TabMic' /\ RecAudio' /\ IsFiniteSet(segment')
    BY <1>1, <1>3
       DEF TabInv, TabCalls, TabCall, TabStore, TabMic, RecAudio, Over, Begun, Uploading, Ending
  <2> QED
    BY <2>1, <2>2 DEF TabInv
<1> QED
  BY <1>2, <1>3 DEF Control!MicrophoneLostEffect, Control!SyncPause

\* A call is answered, goes on to another stage of its end, or stays: nothing else changes but
\* what the server has of the sessions, and that only goes on.
LEMMA GoesOnKeepsTab ==
    ASSUME TabInv, NEW c \in Slots, call' \in [Slots -> Control!Call],
           \A d \in Slots \ {c} : call'[d] = call[d],
           TabCall(c)', call'[c].op = call[c].op,
           call[c].stage # "mic", call'[c].stage # "mic",
           call[c].stage \in {"request", "response"} /\ call[c].op = "start"
               => call'[c].stage \in {"request", "response"},
           server' \in [Control!Requests -> Control!Session], GoesOn,
           store' \in Control!Store, store'.status = store.status, store'.session = store.session,
           mic' \in Control!Mic, mic'.open = mic.open, mic'.pending = mic.pending,
           mic'.connection.live = mic.connection.live,
           mic'.connection.collects = mic.connection.collects,
           ~mic.open => mic'.connection = mic.connection,
           UNCHANGED <<overlap, audio, late, proof, used, segment, lostPage, page, dialogs>>,
           recordingFaults' \in 0..MaxRecordingFaults
    PROVE  TabInv'
<1>t. Control!TypeOK
  BY DEF TabInv
<1>1. Control!TypeOK'
  BY <1>t DEF Control!TypeOK
<1>2. TabCalls'
  BY <1>t, TabCallsKept DEF TabInv
<1>3. TabStore'
  BY <1>t, StoreHolds DEF TabInv, TabStore, GoesOn, Begun
<1>4. TabMic'
  <2>1. store.status = "idle" /\ mic.open =>
          \E d \in Slots : call'[d].op = "start" /\ call'[d].stage \in {"request", "response"}
    BY DEF TabInv, TabMic
  <2>2. \A d \in Slots : call'[d].stage = "mic" \/ call[d].stage = "mic" => call'[d] = call[d]
    OBVIOUS
  <2> QED
    BY <2>1, <2>2 DEF TabInv, TabMic
<1>5. RecAudio' /\ IsFiniteSet(segment')
  BY DEF TabInv, RecAudio
<1> QED
  BY <1>1, <1>2, <1>3, <1>4, <1>5 DEF TabInv

\* A request asks for a session that the server knows.
LEMMA TabAsks ==
    ASSUME TabInv, NEW c \in Slots, call[c].stage = "request"
    PROVE  Asks(c, call[c].session)
<1>1. TabCall(c) /\ call[c] \in Control!Call
  BY RecTypes DEF TabInv, TabCalls
<1>2. call[c].op \in {"start", "pause", "resume", "end"}
  BY <1>1 DEF TabCall, StagesOf, Control!Call
<1>3. call[c].session \in Control!Requests
  BY <1>1, <1>2, RecBounds DEF TabCall, Control!Call, Control!Requests
<1> QED
  BY <1>1, <1>2, <1>3 DEF TabCall, Asks

\* A request is answered, or it or its answer is lost.
LEMMA AnsweredKeepsTab ==
    ASSUME TabInv, NEW c \in Slots, Control!Serve(c) \/ Control!LoseMessage(c)
    PROVE  TabInv'
<1>t. Control!TypeOK /\ TabCall(c) /\ call[c].stage = "request"
  BY DEF TabInv, TabCalls, Control!Serve, Control!LoseMessage
<1>q. PICK q \in Control!Requests : q = call[c].session /\ Asks(c, q)
  BY <1>t, TabAsks DEF Asks
<1>u. /\ UNCHANGED <<overlap, store, mic, audio, late, proof, used, segment, lostPage, page,
                     dialogs>>
  BY DEF Control!Serve, Control!LoseMessage, Control!TabUnchanged, Control!tab, Control!chunks,
         Control!proofs, Control!record, Control!screen
<1>a. PICK a : /\ Control!Answered(c, a)
               /\ \/ a \in Control!Answers(call[c]) /\ server' = Control!Served(call[c], a)
                  \/ /\ a = "network"
                     /\ \E b \in Control!Answers(call[c]) : server' = Control!Served(call[c], b)
                  \/ a \in {"network", "refused"} /\ server' = server
  BY DEF Control!Serve, Control!LoseMessage
<1>f. recordingFaults' \in 0..MaxRecordingFaults
  BY <1>t, RecBounds DEF Control!TypeOK, Control!Serve, Control!LoseMessage
<1>v. /\ server' \in [Control!Requests -> Control!Session] /\ GoesOn
      /\ a \in {"ok", "over", "closed", "refused", "network"}
      /\ call[c].op = "start" /\ a \in {"ok", "over"} => Begun(q)'
      /\ a = "closed" => Over(q)'
      /\ call[c].op = "end" /\ a = "ok" => Over(q)'
  <2>1. CASE a \in Control!Answers(call[c]) /\ server' = Control!Served(call[c], a)
    BY <2>1, <1>q, <1>t, ServedIs
  <2>2. CASE server' = server /\ a \in {"network", "refused"}
    BY <2>2, <1>t, RecTypes DEF GoesOn, Over, Begun
  <2>3. CASE a = "network" /\ \E b \in Control!Answers(call[c]) : server' = Control!Served(call[c], b)
    BY <2>3, <1>q, <1>t, ServedIs
  <2> QED
    BY <1>a, <2>1, <2>2, <2>3
<1>d. /\ call' \in [Slots -> Control!Call]
      /\ call'[c].op = call[c].op /\ call'[c].session = q
      /\ call'[c].stage = "response" /\ call'[c].answer = a
      /\ \A d \in Slots \ {c} : call'[d] = call[d]
  BY <1>a, <1>q, <1>t, <1>v, CallGoesOn DEF Control!Answered
<1>c. TabCall(c)'
  <2>1. Begun(q) => Begun(q)'
    BY <1>v DEF GoesOn
  <2> QED
    BY <2>1, <1>q, <1>t, <1>v, <1>d DEF Asks, TabCall, StagesOf, Uploading, Ending
<1>s. store' \in Control!Store /\ mic' \in Control!Mic
  BY <1>u, <1>t DEF Control!TypeOK
<1> QED
  BY <1>t, <1>u, <1>v, <1>d, <1>c, <1>s, <1>f, GoesOnKeepsTab

\* The workspace goes, and its session with it.
LEMMA DiscardKeepsTab ==
    ASSUME TabInv, NEW q \in Control!Requests, Control!DiscardSession(q)
    PROVE  TabInv'
<1>t. Control!TypeOK
  BY DEF TabInv
<1>u. UNCHANGED <<overlap, store, mic, audio, late, proof, used, segment, lostPage, page,
                  dialogs, call>>
  BY DEF Control!DiscardSession, Control!TabUnchanged, Control!tab, Control!chunks,
         Control!proofs, Control!record, Control!screen
<1>v. /\ server' \in [Control!Requests -> Control!Session]
      /\ Begun(q) /\ ~Over(q) /\ server'[q].state = "discarded"
      /\ \A p \in Control!Requests \ {q} : server'[p] = server[p]
  BY <1>t, RecTypes DEF Control!DiscardSession, Control!Session, Control!Running, Begun, Over
<1>g. GoesOn
  BY <1>v DEF GoesOn, Over, Begun
<1>f. recordingFaults' \in 0..MaxRecordingFaults
  BY <1>t, RecBounds DEF Control!TypeOK, Control!DiscardSession
<1>1. Control!TypeOK'
  BY <1>t, <1>u, <1>v, <1>f DEF Control!TypeOK
<1>2. TabCalls'
  BY <1>g, <1>u, <1>t, RecTypes, TabCallKept DEF TabInv, TabCalls
<1>3. TabStore'
  BY <1>t, <1>g, <1>u, StoreHolds DEF TabInv, TabStore, GoesOn, Begun
<1>4. TabMic' /\ RecAudio' /\ IsFiniteSet(segment')
  BY <1>u DEF TabInv, TabMic, RecAudio
<1> QED
  BY <1>1, <1>2, <1>3, <1>4 DEF TabInv

\* The microphone is off: of whoever waits for it, a resume is not answered.
LEMMA DisconnectedTab ==
    ASSUME TabInv, Control!Disconnect, NEW c \in Slots, call[c].stage # "mic",
           call'[c].stage # "mic", \A d \in Slots \ {c} : call'[d] = call[d]
    PROVE  TabMic'
<1>1. ~mic'.open /\ mic'.connection = Control!NoConnection /\ mic'.pending # "current"
  BY DisconnectedIs DEF TabInv
<1>2. mic.pending # "no" => mic'.pending # "no"
  BY DEF Control!Disconnect, Control!Disconnected
<1>3. \A d \in Slots : call'[d].stage = "mic" => call[d].stage = "mic"
  OBVIOUS
<1> QED
  BY <1>1, <1>2, <1>3 DEF TabInv, TabMic

\* The recording is closed.
LEMMA ClosingKeepsTab ==
    ASSUME TabInv, NEW c \in Slots, call[c].stage # "mic", Control!Disconnect, audio' = {},
           store' = Control!IdleStore, Control!Return(c),
           UNCHANGED <<overlap, used, segment, lostPage, dialogs>>,
           page' \in [workspace: RecordingWorkspaces, screen: {"home", "recording"}],
           server' \in [Control!Requests -> Control!Session], GoesOn,
           recordingFaults' \in 0..MaxRecordingFaults, proof' \in {0, proof}
    PROVE  TabInv'
<1>t. Control!TypeOK
  BY DEF TabInv
<1>m. mic' \in Control!Mic /\ mic'.connection.collects = {} /\ late' \in SUBSET Control!Segment
  BY <1>t, DisconnectedIs
<1>s. store' \in Control!Store /\ store'.status = "idle" /\ store'.session = 0
  BY IdleStoreIs
<1>d. /\ call' \in [Slots -> Control!Call]
      /\ call'[c].op = "none" /\ call'[c].stage = "none"
      /\ \A d \in Slots \ {c} : call'[d] = call[d]
  BY <1>t, ReturnIs
<1>1. Control!TypeOK'
  <2>1. proof' \in 0..MaxRequests
    BY <1>t, RecBounds DEF Control!TypeOK
  <2> QED
    BY <2>1, <1>t, <1>m, <1>s, <1>d DEF Control!TypeOK
<1>2. TabCalls'
  <2>1. TabCall(c)'
    BY <1>d DEF TabCall, StagesOf, Uploading, Ending
  <2> QED
    BY <1>t, <1>d, <2>1, TabCallsKept DEF TabInv
<1>3. TabStore' /\ RecAudio' /\ IsFiniteSet(segment')
  BY <1>s, <1>m DEF TabInv, TabStore, RecAudio
<1>4. TabMic'
  BY <1>d, DisconnectedTab
<1> QED
  BY <1>1, <1>2, <1>3, <1>4 DEF TabInv

\* A call that has nothing to do with the microphone returns.
LEMMA ReturnKeepsTab ==
    ASSUME TabInv, NEW c \in Slots, call[c].op # "start", call[c].stage # "mic",
           Control!Return(c), store' \in Control!Store,
           store'.status = store.status, store'.session = store.session,
           UNCHANGED <<overlap, mic, audio, late, proof, used, segment, lostPage, dialogs,
                       server, recordingFaults>>,
           page' \in [workspace: RecordingWorkspaces, screen: {"home", "recording"}]
    PROVE  TabInv'
<1>t. Control!TypeOK
  BY DEF TabInv
<1>d. /\ call' \in [Slots -> Control!Call]
      /\ call'[c].op = "none" /\ call'[c].stage = "none"
      /\ \A d \in Slots \ {c} : call'[d] = call[d]
  BY <1>t, ReturnIs
<1>1. Control!TypeOK'
  BY <1>t, <1>d DEF Control!TypeOK
<1>2. TabCalls'
  <2>1. TabCall(c)'
    BY <1>d DEF TabCall, StagesOf, Uploading, Ending
  <2>2. GoesOn
    BY DEF GoesOn, Over, Begun
  <2> QED
    BY <1>t, <1>d, <2>1, <2>2, TabCallsKept DEF TabInv
<1>3. TabStore' /\ RecAudio' /\ IsFiniteSet(segment')
  BY DEF TabInv, TabStore, RecAudio, Begun
<1>4. TabMic'
  <2>1. \A d \in Slots : call'[d].stage = "mic" \/ call[d].stage = "mic" => call'[d] = call[d]
    BY <1>d
  <2>2. store.status = "idle" /\ mic.open =>
          \E d \in Slots : call'[d].op = "start" /\ call'[d].stage \in {"request", "response"}
    BY <1>d DEF TabInv, TabMic
  <2> QED
    BY <2>1, <2>2 DEF TabInv, TabMic
<1> QED
  BY <1>1, <1>2, <1>3, <1>4 DEF TabInv

\* The answer to a pause or a resume.
LEMMA ControlAnsweredKeepsTab ==
    ASSUME TabInv, NEW c \in Slots, Control!ControlAnswered(c)
    PROVE  TabInv'
<1> USE DEF Control!chunks, Control!proofs, Control!record, Control!screen
<1>t. Control!TypeOK
  BY DEF TabInv
<1>k. call[c].workspace \in RecordingWorkspaces /\ call[c].op \in {"pause", "resume"}
      /\ call[c].stage = "response" /\ Control!Return(c)
      /\ UNCHANGED <<overlap, used, segment, lostPage, dialogs, server, recordingFaults>>
  BY <1>t, RecTypes DEF Control!Call, Control!ControlAnswered
<1>1. CASE Control!IsClosed(call[c].answer)
  <2>1. /\ Control!Disconnect /\ audio' = {} /\ store' = Control!IdleStore /\ proof' = 0
        /\ page' = Control!At(call[c].workspace, "home")
    BY <1>1 DEF Control!ControlAnswered, Control!CloseRecording
  <2>2. /\ page' \in [workspace: RecordingWorkspaces, screen: {"home", "recording"}]
        /\ server' \in [Control!Requests -> Control!Session]
        /\ recordingFaults' \in 0..MaxRecordingFaults
    BY <2>1, <1>k, <1>t DEF Control!At, Control!TypeOK
  <2>3. GoesOn
    BY <1>k DEF GoesOn, Over, Begun
  <2> QED
    BY <2>1, <2>2, <2>3, <1>k, ClosingKeepsTab
<1>2. CASE ~Control!IsClosed(call[c].answer)
  <2>1. UNCHANGED <<store, mic, audio, late, proof, page>>
    BY <1>2 DEF Control!ControlAnswered
  <2>2. store' \in Control!Store
        /\ page' \in [workspace: RecordingWorkspaces, screen: {"home", "recording"}]
    BY <2>1, <1>t DEF Control!TypeOK
  <2> QED
    BY <2>1, <2>2, <1>k, ReturnKeepsTab
<1> QED
  BY <1>1, <1>2

\* What was recorded goes to upload.
LEMMA UploadKeepsTab ==
    ASSUME TabInv, NEW c \in Slots, call[c].op = "end", call[c].stage \in {"response", "stopping"},
           Over(call[c].session),
           NEW blob \in SUBSET Control!Segment, \A g \in blob : g.session = store.session,
           audio' = blob, Control!Disconnect, Control!Upload(c, blob),
           store' \in Control!Store, store'.session = store.session,
           store'.status = store.status,
           UNCHANGED <<overlap, proof, used, segment, lostPage, page, dialogs, server,
                       recordingFaults>>
    PROVE  TabInv'
<1>t. Control!TypeOK /\ TabCall(c)
  BY DEF TabInv, TabCalls
<1>d. /\ call' \in [Slots -> Control!Call]
      /\ call'[c].op = "end" /\ call'[c].session = call[c].session
      /\ call'[c].stage = "issue" /\ call'[c].audio = blob /\ call'[c].answer = "none"
      /\ \A d \in Slots \ {c} : call'[d] = call[d]
  <2> DEFINE k == [call[c] EXCEPT !.stage = "issue", !.answer = "none", !.audio = blob]
  <2>1. call \in [Slots -> Control!Call] /\ call[c] \in Control!Call
    BY <1>t, RecTypes
  <2>2. call' = [call EXCEPT ![c] = k]
    BY <2>1 DEF Control!Upload
  <2>3. /\ k \in Control!Call /\ k.op = call[c].op /\ k.session = call[c].session
        /\ k.audio = blob /\ k.stage = "issue" /\ k.answer = "none"
    BY <2>1 DEF Control!Call
  <2> HIDE DEF k
  <2> QED
    BY <1>t, <2>2, <2>3, OneCall
<1>m. mic' \in Control!Mic /\ mic'.connection.collects = {} /\ late' \in SUBSET Control!Segment
  BY <1>t, DisconnectedIs
<1>1. Control!TypeOK'
  BY <1>t, <1>d, <1>m DEF Control!TypeOK
<1>2. TabCalls'
  <2>1. GoesOn
    BY DEF GoesOn, Over, Begun
  <2>2. TabCall(c)'
    BY <1>t, <1>d DEF TabCall, StagesOf, Uploading, Ending, Over, Begun
  <2> QED
    BY <1>t, <1>d, <2>1, <2>2, TabCallsKept DEF TabInv
<1>3. TabStore' /\ RecAudio' /\ IsFiniteSet(segment')
  BY <1>m DEF TabInv, TabStore, RecAudio, Begun
<1>4. TabMic'
  BY <1>d, DisconnectedTab
<1> QED
  BY <1>1, <1>2, <1>3, <1>4 DEF TabInv

\* The answer to an end.
LEMMA EndAnsweredKeepsTab ==
    ASSUME TabInv, NEW c \in Slots, Control!EndAnswered(c)
    PROVE  TabInv'
<1> USE DEF Control!chunks, Control!proofs, Control!record, Control!screen
<1>t. Control!TypeOK /\ TabCall(c) /\ store \in Control!Store
  BY DEF TabInv, TabCalls, Control!TypeOK
<1>k. /\ call[c].workspace \in RecordingWorkspaces /\ call[c].op = "end"
      /\ call[c].stage = "response"
      /\ UNCHANGED <<overlap, used, segment, lostPage, dialogs, server, recordingFaults>>
  BY <1>t, RecTypes DEF Control!Call, Control!EndAnswered
<1>g. GoesOn
  BY <1>k DEF GoesOn, Over, Begun
<1>y. /\ page \in [workspace: RecordingWorkspaces, screen: {"home", "recording"}]
      /\ server' \in [Control!Requests -> Control!Session]
      /\ recordingFaults' \in 0..MaxRecordingFaults
  BY <1>k, <1>t DEF Control!TypeOK
<1>1. CASE Control!IsClosed(call[c].answer) /\ Control!CloseRecording(call[c].workspace)
           /\ Control!Return(c)
  <2>1. /\ Control!Disconnect /\ audio' = {} /\ store' = Control!IdleStore /\ proof' = 0
        /\ Control!Return(c) /\ page' = Control!At(call[c].workspace, "home")
    BY <1>1 DEF Control!CloseRecording
  <2>2. page' \in [workspace: RecordingWorkspaces, screen: {"home", "recording"}]
    BY <2>1, <1>k DEF Control!At
  <2> QED
    BY <2>1, <2>2, <1>k, <1>g, <1>y, ClosingKeepsTab
<1>2. CASE /\ call[c].answer # "ok" /\ store' = Control!CancelEnding(store) /\ Control!Return(c)
           /\ UNCHANGED <<mic, audio, late, proof, page>>
  <2>1. /\ store' \in Control!Store /\ store'.session = store.session
        /\ store'.status = store.status
    BY <1>2, <1>t DEF Control!Store, Control!CancelEnding
  <2> QED
    BY <2>1, <1>2, <1>k, <1>y, ReturnKeepsTab
<1>3. CASE /\ call[c].answer = "ok" /\ mic.open /\ mic.connection.recorder # "inactive"
           /\ mic' = [mic EXCEPT !.connection.recorder = "inactive", !.connection.flushing = TRUE]
           /\ store' = [Control!FreezeElapsed(store) EXCEPT !.ending = TRUE]
           /\ call' = [call EXCEPT ![c].stage = "stopping"]
           /\ UNCHANGED <<audio, late, proof, page>>
  <2>d. /\ call' \in [Slots -> Control!Call]
        /\ call'[c].op = "end" /\ call'[c].session = call[c].session
        /\ call'[c].stage = "stopping"
        /\ \A d \in Slots \ {c} : call'[d] = call[d]
    BY <1>3, <1>t, <1>k, CallStops
  <2>m. /\ store' \in Control!Store /\ store'.session = store.session
        /\ store'.status = store.status
        /\ mic' \in Control!Mic /\ mic'.open = mic.open /\ mic'.pending = mic.pending
        /\ mic'.connection.live = mic.connection.live
        /\ mic'.connection.collects = mic.connection.collects
    BY <1>3, <1>t DEF Control!TypeOK, Control!Store, Control!FreezeElapsed, Control!Mic, Control!Connection
  <2>1. TabCall(c)'
    BY <1>3, <1>k, <1>t, <2>d DEF TabCall, StagesOf, Uploading, Ending, Over, Begun
  <2>2. call'[c].op = call[c].op /\ call[c].stage # "mic" /\ call'[c].stage # "mic"
    BY <1>k, <2>d
  <2> QED
    BY <1>3, <1>g, <1>k, <1>y, <2>d, <2>m, <2>1, <2>2, GoesOnKeepsTab
<1>4. CASE /\ call[c].answer = "ok"
           /\ Control!Disconnect
           /\ store' = [Control!FreezeElapsed(store) EXCEPT !.ending = TRUE, !.analyser = FALSE]
           /\ Control!Upload(c, audio)
           /\ UNCHANGED <<audio, proof, page>>
  <2>1. Over(call[c].session)
    BY <1>4, <1>k, <1>t DEF TabCall
  <2>2. audio \in SUBSET Control!Segment /\ \A g \in audio : g.session = store.session
    BY <1>t, RecTypes DEF TabInv, RecAudio
  <2>3. /\ store' \in Control!Store /\ store'.session = store.session
        /\ store'.status = store.status
    BY <1>4, <1>t DEF Control!Store, Control!FreezeElapsed
  <2> QED
    BY <2>1, <2>2, <2>3, <1>4, <1>k, UploadKeepsTab
<1> QED
  BY <1>1, <1>2, <1>3, <1>4 DEF Control!EndAnswered

\* The recorder has stopped.
LEMMA RecorderStoppedKeepsTab ==
    ASSUME TabInv, NEW c \in Slots, Control!RecorderStopped(c)
    PROVE  TabInv'
<1>t. /\ Control!TypeOK /\ TabCall(c) /\ call[c].stage = "stopping" /\ call[c] \in Control!Call
      /\ store \in Control!Store
  BY RecTypes DEF TabInv, TabCalls, Control!RecorderStopped
<1>u. UNCHANGED <<overlap, proof, used, segment, lostPage, page, dialogs, server, recordingFaults>>
  BY DEF Control!RecorderStopped, Control!proofs, Control!record, Control!screen
<1>1. call[c].op = "end" /\ Over(call[c].session)
  BY <1>t DEF TabCall, StagesOf, Control!Call, Ending
<1>2. mic.connection.collects \subseteq Control!Segment
  BY <1>t DEF Control!TypeOK, Control!Mic, Control!Connection
<1>3. /\ Control!LastChunk \in SUBSET Control!Segment
      /\ \A g \in Control!LastChunk : g.session = store.session
  BY <1>2, <1>t, RecTypes DEF TabInv, RecAudio, Control!LastChunk
<1>4. /\ store' \in Control!Store /\ store'.session = store.session
      /\ store'.status = store.status
  BY <1>t DEF Control!Store, Control!RecorderStopped
<1> QED
  BY <1>1, <1>3, <1>4, <1>t, <1>u, UploadKeepsTab DEF Control!RecorderStopped

\* A step of the upload.
LEMMA UploadStepKeepsTab ==
    ASSUME TabInv, NEW c \in Slots, Control!UploadStep(c) \/ Control!UploadStepLost(c)
    PROVE  TabInv'
<1> USE DEF Control!chunks, Control!proofs, Control!record, Control!screen
<1>t. Control!TypeOK /\ TabCall(c) /\ call[c] \in Control!Call
  BY RecTypes DEF TabInv, TabCalls
<1>u. /\ Uploading(c) /\ server' \in {server, Control!Uploaded(call[c])}
      /\ UNCHANGED <<overlap, used, segment, lostPage, dialogs>>
      /\ recordingFaults' = recordingFaults
         \/ (recordingFaults < MaxRecordingFaults /\ recordingFaults' = recordingFaults + 1)
  BY DEF Control!UploadStep, Control!UploadStepLost, Uploading
<1>f. recordingFaults' \in 0..MaxRecordingFaults
  BY <1>u, <1>t, RecBounds DEF Control!TypeOK
<1>e. call[c].op = "end"
  BY <1>t, <1>u DEF TabCall, StagesOf, Uploading, Control!Call
<1>s. call[c].session \in Control!Requests
  BY <1>e, <1>t, <1>u, RecBounds DEF TabCall, Uploading, Control!Call, Control!Requests
<1>v. /\ server' \in [Control!Requests -> Control!Session]
      /\ \A q \in Control!Requests : server'[q].state = server[q].state
  BY <1>s, <1>t, <1>u, UploadedIs
<1>g. GoesOn
  BY <1>v DEF GoesOn, Over, Begun
<1>a. PICK answer : Control!UploadContinues(c, answer)
  BY DEF Control!UploadStep, Control!UploadStepLost
<1>1. ASSUME NEW k \in Control!Call, call' = [call EXCEPT ![c] = k],
             k.op = call[c].op, k.session = call[c].session, k.audio = call[c].audio,
             k.stage \in {"issue", "put", "complete"},
             UNCHANGED <<store, mic, audio, late, proof, page>>
      PROVE  TabInv'
  <2>d. /\ call' \in [Slots -> Control!Call] /\ call'[c] = k
        /\ \A d \in Slots \ {c} : call'[d] = call[d]
    BY <1>1, <1>t, OneCall
  <2>1. Over(call[c].session)' /\ Begun(call[c].session)'
    BY <1>e, <1>g, <1>s, <1>t, <1>u, <2>d, <1>1 DEF TabCall, Uploading, Ending, GoesOn, Over, Begun
  <2>2. TabCall(c)'
    BY <1>1, <1>e, <1>t, <1>u, <2>d, <2>1 DEF TabCall, StagesOf, Uploading, Ending, Over, Begun
  <2>3. store' \in Control!Store /\ mic' \in Control!Mic
    BY <1>1, <1>t DEF Control!TypeOK
  <2>4. call'[c].op = call[c].op /\ call[c].stage # "mic" /\ call'[c].stage # "mic"
    BY <1>1, <1>u, <2>d DEF Uploading
  <2> QED
    BY <1>1, <1>e, <1>f, <1>g, <1>u, <1>v, <2>d, <2>2, <2>3, <2>4, GoesOnKeepsTab
<1>2. CASE /\ call[c].stage # "complete"
           /\ call' = [call EXCEPT ![c].stage = Control!NextStage(call[c].stage)]
           /\ UNCHANGED <<store, mic, audio, late, proof, page>>
  <2> DEFINE k == [call[c] EXCEPT !.stage = Control!NextStage(call[c].stage)]
  <2>1. Control!NextStage(call[c].stage) \in {"put", "complete"}
    BY <1>2, <1>u DEF Uploading, Control!NextStage
  <2>2. /\ k \in Control!Call /\ k.op = call[c].op /\ k.session = call[c].session
        /\ k.audio = call[c].audio /\ k.stage \in {"issue", "put", "complete"}
    BY <2>1, <1>t DEF Control!Call
  <2>3. call' = [call EXCEPT ![c] = k]
    BY <1>2, <1>t, RecTypes
  <2> HIDE DEF k
  <2> QED
    BY <1>1, <1>2, <2>2, <2>3
<1>3. CASE /\ call[c].retries < Control!AUDIO_UPLOAD_MAX_RETRIES
           /\ call' = [call EXCEPT ![c].stage = "issue", ![c].retries = @ + 1]
           /\ UNCHANGED <<store, mic, audio, late, proof, page>>
  <2> DEFINE k == [call[c] EXCEPT !.stage = "issue", !.retries = @ + 1]
  <2>1. call[c].retries + 1 \in 0..3
    BY <1>3, <1>t DEF Control!Call, Control!AUDIO_UPLOAD_MAX_RETRIES
  <2>2. /\ k \in Control!Call /\ k.op = call[c].op /\ k.session = call[c].session
        /\ k.audio = call[c].audio /\ k.stage \in {"issue", "put", "complete"}
    BY <2>1, <1>t DEF Control!Call
  <2>3. call' = [call EXCEPT ![c] = k]
    BY <1>3, <1>t, RecTypes
  <2> HIDE DEF k
  <2> QED
    BY <1>1, <1>3, <2>2, <2>3
<1>4. CASE Control!CloseRecording(call[c].workspace) /\ Control!Return(c)
  <2>1. /\ Control!Disconnect /\ audio' = {} /\ store' = Control!IdleStore /\ proof' = 0
        /\ Control!Return(c) /\ page' = Control!At(call[c].workspace, "home")
    BY <1>4 DEF Control!CloseRecording
  <2>2. page' \in [workspace: RecordingWorkspaces, screen: {"home", "recording"}]
    BY <2>1, <1>t DEF Control!At, Control!Call
  <2>3. call[c].stage # "mic"
    BY <1>u DEF Uploading
  <2> QED
    BY <2>1, <2>2, <2>3, <1>f, <1>g, <1>u, <1>v, ClosingKeepsTab
<1> QED
  BY <1>a, <1>2, <1>3, <1>4 DEF Control!UploadContinues, Control!Retries

\* The answer to a start.
LEMMA StartAnsweredKeepsTab ==
    ASSUME TabInv, NEW c \in Slots, Control!StartAnswered(c)
    PROVE  TabInv'
<1> USE DEF Control!chunks, Control!proofs, Control!record, Control!screen
<1>t. Control!TypeOK /\ TabCall(c) /\ call[c] \in Control!Call /\ IsFiniteSet(segment)
  BY RecTypes DEF TabInv, TabCalls
<1>u. /\ call[c].op = "start" /\ call[c].stage = "response" /\ Control!Return(c)
      /\ UNCHANGED <<overlap, proof, used, lostPage, dialogs, server, recordingFaults>>
  BY DEF Control!StartAnswered
<1>y. /\ page \in [workspace: RecordingWorkspaces, screen: {"home", "recording"}]
      /\ server' \in [Control!Requests -> Control!Session]
      /\ recordingFaults' \in 0..MaxRecordingFaults
      /\ call[c].workspace \in RecordingWorkspaces
  BY <1>u, <1>t DEF Control!TypeOK, Control!Call
<1>g. GoesOn
  BY <1>u DEF GoesOn, Over, Begun
<1>d. /\ call' \in [Slots -> Control!Call]
      /\ call'[c].op = "none" /\ call'[c].stage = "none"
      /\ \A d \in Slots \ {c} : call'[d] = call[d]
  BY <1>t, <1>u, ReturnIs
<1>c. TabCalls'
  <2>1. TabCall(c)'
    BY <1>d DEF TabCall, StagesOf, Uploading, Ending
  <2> QED
    BY <1>t, <1>d, <1>g, <2>1, TabCallsKept DEF TabInv
<1>o. \A d \in Slots : call'[d].stage = "mic" \/ call[d].stage = "mic" => call'[d] = call[d]
  BY <1>d, <1>u
<1>1. CASE Control!Disconnect /\ audio' = {} /\ store' = Control!IdleStore /\ UNCHANGED <<segment, page>>
  BY <1>1, <1>g, <1>u, <1>y, ClosingKeepsTab
<1>2. CASE /\ call[c].answer \in {"ok", "over"} /\ store.status = "idle"
           /\ Control!Begin(call[c].workspace, call[c].session)
           /\ page' = Control!At(call[c].workspace, "recording") /\ UNCHANGED late
  <2>q. PICK q \in Control!Requests : q = call[c].session /\ q # 0 /\ Begun(q)
    BY <1>2, <1>t, <1>u, RecBounds DEF TabCall, Control!Call, Control!Requests
  <2>w. PICK w \in RecordingWorkspaces : w = call[c].workspace
    BY <1>y
  <2>m. /\ store' \in Control!Store /\ store'.session = q /\ store'.status = "recording"
    <3>1. store' = [store EXCEPT !.status = "recording", !.session = q, !.workspace = w,
                                 !.counting = TRUE]
      BY <1>2, <2>q, <2>w DEF Control!Begin
    <3>2. store \in Control!Store /\ q \in 0..MaxRequests
      BY <1>t, <2>q, RecBounds DEF Control!TypeOK, Control!Requests
    <3> QED
      BY <3>1, <3>2, <2>w DEF Control!Store
  <2>g. /\ Control!NextSegment(q) \in Control!Segment /\ Control!NextSegment(q).session = q
    BY <1>t, NextSegmentIs
  <2>i. /\ mic' \in Control!Mic /\ mic'.open = mic.open /\ mic'.pending = mic.pending
        /\ mic'.connection.live = mic.connection.live
        /\ ~mic.open => mic'.connection = mic.connection
        /\ mic'.connection.collects \subseteq {Control!NextSegment(q)}
        /\ segment' \subseteq Control!Segment /\ IsFiniteSet(segment') /\ audio' = {}
    <3>1. CASE mic.open
      <4>1. /\ mic' = [mic EXCEPT !.connection = Control!Started(@, q)]
            /\ segment' = segment \cup {Control!NextSegment(q)} /\ audio' = {}
        BY <1>2, <2>q, <3>1 DEF Control!Begin
      <4>2. /\ mic' \in Control!Mic /\ mic'.open = mic.open /\ mic'.pending = mic.pending
            /\ mic'.connection.live = mic.connection.live
            /\ mic'.connection.collects = {Control!NextSegment(q)}
        BY <4>1, <2>g, <1>t DEF Control!TypeOK, Control!Mic, Control!Connection, Control!Started
      <4> QED
        BY <4>1, <4>2, <3>1, <2>g, <1>t, RecTypes, FS_AddElement
    <3>2. CASE ~mic.open
      <4>1. UNCHANGED <<mic, segment>> /\ audio' = {}
        BY <1>2, <3>2 DEF Control!Begin
      <4>2. mic.connection.collects = {}
        BY <3>2 DEF TabInv, TabMic, Control!NoConnection, Control!Connected
      <4> QED
        BY <4>1, <4>2, <1>t, RecTypes
    <3> QED
      BY <3>1, <3>2
  <2>1. Control!TypeOK'
    BY <1>2, <2>i, <2>m, <1>t, <1>u, <1>y, <1>d DEF Control!TypeOK, Control!At
  <2>2. TabStore'
    BY <2>m, <2>q, <1>u DEF TabStore, Begun
  <2>3. TabMic'
    <3>1. ASSUME NEW d \in Slots, call[d].op = "resume", call[d].stage = "mic"
          PROVE  ~(mic.open /\ mic.connection.live) /\ mic.pending # "current"
      BY <3>1, <1>2 DEF TabInv, TabMic
    <3> QED
      BY <3>1, <2>i, <2>m, <1>o DEF TabInv, TabMic
  <2>4. RecAudio'
    BY <2>i, <2>g, <2>m DEF RecAudio
  <2> QED
    BY <2>1, <1>c, <2>2, <2>3, <2>4, <2>i DEF TabInv
<1>3. CASE /\ store.status # "idle" /\ page' = Control!At(call[c].workspace, "recording")
           /\ UNCHANGED <<store, mic, audio, late, segment>>
  <2>1. Control!TypeOK'
    BY <1>3, <1>t, <1>u, <1>y, <1>d DEF Control!TypeOK, Control!At
  <2>2. TabStore' /\ RecAudio' /\ IsFiniteSet(segment')
    BY <1>3, <1>u DEF TabInv, TabStore, RecAudio, Begun
  <2>3. TabMic'
    BY <1>3, <1>o DEF TabInv, TabMic
  <2> QED
    BY <2>1, <1>c, <2>2, <2>3 DEF TabInv
<1> QED
  BY <1>1, <1>2, <1>3 DEF Control!StartAnswered

\* The microphone is not obtained.
LEMMA NotObtainedKeepsTab ==
    ASSUME TabInv, mic' = [mic EXCEPT !.pending = "no"],
           dialogs' = dialogs \cup {op \in {"start", "resume"} : Control!Waiting(op) # {}},
           call' = [c \in Slots |-> IF call[c].stage = "mic" THEN Control!NoCall ELSE call[c]],
           UNCHANGED <<overlap, store, audio, late, proof, used, segment, lostPage, page, server,
                       recordingFaults>>
    PROVE  TabInv'
<1>t. Control!TypeOK
  BY DEF TabInv
<1>d. /\ call' \in [Slots -> Control!Call]
      /\ \A c \in Slots : call[c].stage # "mic" => call'[c] = call[c]
      /\ \A c \in Slots : call[c].stage = "mic" => call'[c].op = "none" /\ call'[c].stage = "none"
  BY <1>t, NoCallIs, RecTypes
<1>m. /\ mic' \in Control!Mic /\ mic'.open = mic.open /\ mic'.connection = mic.connection
      /\ mic'.pending = "no"
  BY <1>t DEF Control!TypeOK, Control!Mic
<1>1. Control!TypeOK'
  BY <1>t, <1>d, <1>m DEF Control!TypeOK
<1>2. TabCalls'
  <2>1. GoesOn
    BY DEF GoesOn, Over, Begun
  <2>2. ASSUME NEW c \in Slots PROVE TabCall(c)'
    <3>1. CASE call[c].stage = "mic"
      BY <3>1, <1>d DEF TabCall, StagesOf, Uploading, Ending
    <3>2. CASE call[c].stage # "mic"
      BY <3>2, <2>1, <1>d, <1>t, RecTypes, TabCallKept DEF TabInv, TabCalls
    <3> QED
      BY <3>1, <3>2
  <2> QED
    BY <2>2 DEF TabCalls
<1>3. TabStore' /\ RecAudio' /\ IsFiniteSet(segment')
  BY <1>m DEF TabInv, TabStore, RecAudio, Begun
<1>4. TabMic'
  <2>1. \A c \in Slots : call'[c].stage # "mic"
    BY <1>d
  <2>2. store.status = "idle" /\ mic.open =>
          \E c \in Slots : call'[c].op = "start" /\ call'[c].stage \in {"request", "response"}
    BY <1>d DEF TabInv, TabMic
  <2> QED
    BY <2>1, <2>2, <1>m DEF TabInv, TabMic
<1> QED
  BY <1>1, <1>2, <1>3, <1>4 DEF TabInv

\* What a start sends when it has the microphone.
LEMMA StartSends ==
    ASSUME NEW S, NEW R, NEW p,
           call' = [c \in Slots |->
                      CASE c \in S -> Control!Send("start", call[c].workspace, p)
                        [] c \in R -> IF proof = 0 THEN Control!NoCall
                                      ELSE Control!Send("resume", store.workspace, store.session)
                        [] OTHER -> call[c]],
           NEW c \in Slots, c \in S, c \notin R
    PROVE  call'[c] = Control!Send("start", call[c].workspace, p)
OBVIOUS

\* The microphone is obtained, by whoever waits for it: starts, resumes, or both.
LEMMA ObtainedKeepsTab ==
    ASSUME TabInv, NEW granted, Control!Obtained(granted), Control!MicAnswered(granted)
    PROVE  TabInv'
<1> DEFINE S == Control!Waiting("start")
           R == Control!Waiting("resume")
<1>a. /\ mic.pending = "current"
      /\ S # {} => Control!StartProof <= MaxRequests
      /\ late' = late \cup Control!ClosedEarly
      /\ mic' = [mic EXCEPT !.pending = "no", !.open = TRUE,
                    !.connection = IF R # {} THEN Control!Started(Control!Connected, store.session)
                                   ELSE Control!Connected]
      /\ segment' = IF R # {} THEN segment \cup {Control!NextSegment(store.session)} ELSE segment
      /\ store' = IF R # {}
                  THEN [store EXCEPT !.analyser = TRUE, !.status = "recording",
                                     !.counting = TRUE, !.lost = FALSE]
                  ELSE [store EXCEPT !.analyser = S # {} \/ @]
      /\ proof' = IF S # {} THEN Control!StartProof ELSE proof
      /\ used' = IF proof' > used THEN proof' ELSE used
      /\ call' = [c \in Slots |->
                    CASE c \in S -> Control!Send("start", call[c].workspace, proof')
                      [] c \in R -> IF proof = 0 THEN Control!NoCall
                                    ELSE Control!Send("resume", store.workspace, store.session)
                      [] OTHER -> call[c]]
      /\ UNCHANGED <<overlap, audio, lostPage, page, dialogs, server, recordingFaults>>
  BY DEF Control!MicAnswered, Control!Obtained, Control!record, Control!screen
<1>b. S = Control!Waiting("start") /\ R = Control!Waiting("resume")
  OBVIOUS
<1> HIDE DEF S, R
<1> USE <1>a, <1>b
<1>t. /\ Control!TypeOK /\ IsFiniteSet(segment) /\ store \in Control!Store
      /\ call \in [Slots -> Control!Call]
  BY DEF TabInv, Control!TypeOK
<1>w. /\ \A c \in Slots : call[c].stage = "mic" => c \in S \/ c \in R
      /\ \A c \in Slots : c \in S <=> call[c].stage = "mic" /\ call[c].op = "start"
      /\ \A c \in Slots : c \in R <=> call[c].stage = "mic" /\ call[c].op = "resume"
      /\ R \subseteq Slots /\ S \subseteq Slots
  <2>1. /\ \A c \in Slots : c \in S <=> call[c].stage = "mic" /\ call[c].op = "start"
        /\ \A c \in Slots : c \in R <=> call[c].stage = "mic" /\ call[c].op = "resume"
        /\ R \subseteq Slots /\ S \subseteq Slots
    BY DEF Control!Waiting
  <2>2. ASSUME NEW c \in Slots, call[c].stage = "mic" PROVE call[c].op \in {"start", "resume"}
    <3>1. TabCall(c) /\ call[c] \in Control!Call
      BY <1>t DEF TabInv, TabCalls
    <3> QED
      BY <2>2, <3>1 DEF TabCall, StagesOf, Control!Call
  <2> QED
    BY <2>1, <2>2
<1>e. \E c \in Slots : call[c].stage = "mic"
  BY DEF TabInv, TabMic
<1>r. R # {} => /\ store.status = "paused" /\ store.session \in Control!Requests
                /\ store.session # 0 /\ Begun(store.session)
  <2> SUFFICES ASSUME NEW c \in R
               PROVE  /\ store.status = "paused" /\ store.session \in Control!Requests
                      /\ store.session # 0 /\ Begun(store.session)
    OBVIOUS
  <2>1. store.status = "paused"
    BY <1>w DEF TabInv, TabMic
  <2> QED
    BY <2>1, <1>t, StoreHolds DEF TabInv, TabStore
<1>p. /\ proof' \in 0..MaxRequests /\ used' \in 0..MaxRequests
      /\ S # {} => proof' # 0
  <2>1. Control!StartProof \in Nat /\ Control!StartProof # 0
    BY <1>t, RecTypes DEF Control!StartProof
  <2>2. proof' \in 0..MaxRequests /\ (S # {} => proof' # 0)
    BY <2>1, <1>t, RecTypes, RecBounds
  <2> QED
    BY <2>2, <1>t DEF Control!TypeOK
<1>s. /\ store' \in Control!Store /\ store'.session = store.session
      /\ store'.status = "idle" <=> store.status = "idle"
  <2>1. CASE R # {}
    BY <2>1, <1>r, <1>t DEF Control!Store
  <2>2. CASE R = {}
    BY <2>2, <1>t DEF Control!Store
  <2> QED
    BY <2>1, <2>2
<1>d. ASSUME NEW c \in Slots
      PROVE  /\ call'[c] \in Control!Call /\ call'[c].stage # "mic"
             /\ c \in S => call'[c].op = "start" /\ call'[c].stage = "request"
             /\ c \notin S \cup R => call'[c] = call[c]
             /\ TabCall(c)'
  <2>1. CASE c \in S
    <3> DEFINE k == Control!Send("start", call[c].workspace, proof')
    <3>1. call[c].workspace \in RecordingWorkspaces /\ proof' # 0
      BY <1>t, <1>p, <2>1 DEF Control!Call
    <3>2. /\ k \in Control!Call /\ k.op = "start" /\ k.stage = "request"
          /\ k.session = proof' /\ k.answer = "none"
      BY <3>1, <1>p, SendIs
    <3> HIDE DEF k
    <3>3. call'[c] = k
      BY <2>1, <1>w, StartSends DEF k
    <3> QED
      BY <2>1, <3>1, <3>2, <3>3 DEF TabCall, StagesOf, Uploading, Ending
  <2>2. CASE c \in R /\ proof = 0
    <3>1. c \notin S
      BY <2>2, <1>w
    <3>2. call'[c] = Control!NoCall
      BY <2>2, <3>1
    <3> QED
      BY <2>2, <3>1, <3>2, NoCallIs DEF TabCall, StagesOf, Uploading, Ending
  <2>3. CASE c \in R /\ proof # 0
    <3> DEFINE k == Control!Send("resume", store.workspace, store.session)
    <3>1. c \notin S /\ R # {}
      BY <2>3, <1>w
    <3>2. /\ k \in Control!Call /\ k.op = "resume" /\ k.stage = "request"
          /\ k.session = store.session /\ k.answer = "none"
      BY <1>t, StoreFields, SendIs
    <3>3. call'[c] = k
      BY <2>3, <3>1
    <3>4. store.session # 0 /\ Begun(store.session)'
      BY <3>1, <1>r DEF Begun
    <3> HIDE DEF k
    <3> QED
      BY <2>3, <3>1, <3>2, <3>3, <3>4 DEF TabCall, StagesOf, Uploading, Ending, Begun
  <2>4. CASE c \notin S \cup R
    <3>1. call'[c] = call[c] /\ call[c] \in Control!Call /\ call[c].stage # "mic"
      BY <2>4, <1>t, <1>w
    <3>2. GoesOn
      BY DEF GoesOn, Over, Begun
    <3>3. TabCall(c)'
      BY <3>1, <3>2, TabCallKept DEF TabInv, TabCalls
    <3> QED
      BY <2>4, <3>1, <3>3
  <2> QED
    BY <2>1, <2>2, <2>3, <2>4
<1>f. call' \in [Slots -> Control!Call]
  <2>1. \A c \in Slots : call'[c] \in Control!Call
    BY <1>d
  <2>2. call' = [c \in Slots |-> call'[c]]
    OBVIOUS
  <2> QED
    BY <2>1, <2>2
<1>i. /\ mic' \in Control!Mic /\ mic'.open /\ mic'.pending = "no"
      /\ \A g \in mic'.connection.collects : g.session = store.session
      /\ segment' \subseteq Control!Segment /\ IsFiniteSet(segment')
  <2> DEFINE n == IF R # {} THEN Control!Started(Control!Connected, store.session)
                  ELSE Control!Connected
  <2>1. /\ n \in Control!Connection /\ \A g \in n.collects : g.session = store.session
        /\ segment' \subseteq Control!Segment /\ IsFiniteSet(segment')
    <3>1. CASE R # {}
      <4>1. /\ Control!NextSegment(store.session) \in Control!Segment
            /\ Control!NextSegment(store.session).session = store.session
        BY <3>1, <1>r, <1>t, NextSegmentIs
      <4>2. n \in Control!Connection /\ n.collects = {Control!NextSegment(store.session)}
        BY <3>1, <4>1, ConnectedIs DEF Control!Started, Control!Connection
      <4>3. segment' = segment \cup {Control!NextSegment(store.session)}
        BY <3>1
      <4> HIDE DEF n
      <4> QED
        BY <4>1, <4>2, <4>3, <1>t, RecTypes, FS_AddElement
    <3>2. CASE R = {}
      <4>1. n = Control!Connected /\ segment' = segment
        BY <3>2
      <4> HIDE DEF n
      <4> QED
        BY <4>1, <1>t, RecTypes, ConnectedIs
    <3> QED
      BY <3>1, <3>2
  <2>2. mic' = [mic EXCEPT !.pending = "no", !.open = TRUE, !.connection = n]
    OBVIOUS
  <2> HIDE DEF n
  <2> QED
    BY <2>1, <2>2, <1>t DEF Control!TypeOK, Control!Mic
<1>l. late' \in SUBSET Control!Segment
  <2>1. mic.connection.collects \subseteq Control!Segment
    BY <1>t DEF Control!TypeOK, Control!Mic, Control!Connection
  <2> QED
    BY <2>1, <1>t, RecTypes DEF Control!ClosedEarly
<1>1. Control!TypeOK'
  BY <1>t, <1>p, <1>f, <1>s, <1>i, <1>l DEF Control!TypeOK
<1>2. TabCalls'
  BY <1>d DEF TabCalls
<1>3. TabStore'
  BY <1>s DEF TabInv, TabStore, Begun
<1>4. TabMic'
  <2>1. ASSUME store.status = "idle"
        PROVE  \E c \in Slots : call'[c].op = "start" /\ call'[c].stage = "request"
    <3>1. PICK c \in S : TRUE
      BY <2>1, <1>e, <1>r, <1>w
    <3> QED
      BY <3>1, <1>w, <1>d
  <2>2. \A c \in Slots : call'[c].stage # "mic"
    BY <1>d
  <2> QED
    BY <2>1, <2>2, <1>i, <1>s DEF TabMic
<1>5. RecAudio'
  BY <1>i, <1>s DEF TabInv, RecAudio
<1> QED
  BY <1>1, <1>2, <1>3, <1>4, <1>5, <1>i DEF TabInv

\* The browser answers.
LEMMA MicAnsweredKeepsTab ==
    ASSUME TabInv, NEW granted \in BOOLEAN, Control!MicAnswered(granted)
    PROVE  TabInv'
<1> USE DEF Control!chunks, Control!proofs, Control!record, Control!screen
<1>u. UNCHANGED <<overlap, audio, lostPage, page, server, recordingFaults>>
  BY DEF Control!MicAnswered
<1>1. CASE ~Control!Obtained(granted)
  BY <1>1, <1>u, NotObtainedKeepsTab DEF Control!MicAnswered
<1>2. CASE Control!Obtained(granted)
  BY <1>2, ObtainedKeepsTab
<1> QED
  BY <1>1, <1>2

\* A track ends, and onLost pauses the recording.
LEMMA LoseMicrophoneKeepsTab ==
    ASSUME TabInv, Control!LoseMicrophone
    PROVE  TabInv'
<1> USE DEF Control!chunks, Control!proofs, Control!record, Control!screen
<1>t. Control!TypeOK /\ mic.open /\ mic.connection.live
  BY DEF TabInv, Control!LoseMicrophone
<1>u. UNCHANGED <<overlap, late, proof, used, segment, lostPage, call, page, dialogs, server,
                  recordingFaults>>
  BY DEF Control!LoseMicrophone
<1>m. /\ mic' \in Control!Mic /\ mic'.open = mic.open /\ mic'.pending = mic.pending
      /\ mic'.connection.collects = mic.connection.collects
  BY <1>t DEF Control!TypeOK, Control!Mic, Control!Connection, Control!LoseMicrophone
<1>a. audio' \in SUBSET Control!Segment /\ audio' \subseteq audio \cup mic.connection.collects
  BY <1>t, RecTypes DEF Control!LoseMicrophone, Control!TypeOK, Control!Mic, Control!Connection
<1>s. /\ store' \in Control!Store /\ store'.session = store.session
      /\ store'.status = "idle" <=> store.status = "idle"
  <2>1. CASE store.status = "recording" /\ store.counting
    BY <2>1, <1>t DEF Control!TypeOK, Control!Store, Control!LoseMicrophone, Control!FreezeElapsed
  <2>2. CASE ~(store.status = "recording" /\ store.counting)
    BY <2>2, <1>t DEF Control!TypeOK, Control!Store, Control!LoseMicrophone
  <2> QED
    BY <2>1, <2>2
<1>1. Control!TypeOK'
  BY <1>t, <1>m, <1>a, <1>s, <1>u DEF Control!TypeOK
<1>2. TabCalls'
  BY <1>u DEF TabInv, TabCalls, TabCall, Over, Begun, Uploading, Ending
<1>3. TabStore'
  BY <1>s, <1>u DEF TabInv, TabStore, Begun
<1>4. TabMic'
  BY <1>t, <1>s, <1>m, <1>u DEF TabInv, TabMic
<1>5. RecAudio' /\ IsFiniteSet(segment')
  BY <1>s, <1>m, <1>a, <1>u DEF TabInv, RecAudio
<1> QED
  BY <1>1, <1>2, <1>3, <1>4, <1>5 DEF TabInv

\* The page goes with its calls and its audio.
LEMMA ReloadKeepsTab ==
    ASSUME TabInv, Control!Reload
    PROVE  TabInv'
<1> USE DEF Control!chunks, Control!proofs, Control!record, Control!screen
<1>t. Control!TypeOK
  BY DEF TabInv
<1>u. /\ UNCHANGED <<overlap, proof, used, segment, page, server>>
      /\ store' = Control!IdleStore /\ audio' = {} /\ late' = {} /\ lostPage' = segment
      /\ dialogs' = {} /\ call' = [c \in Slots |-> Control!NoCall]
  BY DEF Control!Reload
<1>m. /\ mic' \in Control!Mic /\ ~mic'.open /\ mic'.pending = "no"
      /\ mic'.connection = Control!NoConnection /\ mic'.connection.collects = {}
  <2>1. Control!NoConnection \in Control!Connection /\ Control!NoConnection.collects = {}
    BY DEF Control!NoConnection, Control!Connected, Control!Connection
  <2>2. mic' = [mic EXCEPT !.open = FALSE, !.connection = Control!NoConnection, !.pending = "no"]
    BY DEF Control!Reload
  <2> QED
    BY <2>1, <2>2, <1>t DEF Control!TypeOK, Control!Mic
<1>d. /\ call' \in [Slots -> Control!Call]
      /\ \A c \in Slots : call'[c].op = "none" /\ call'[c].stage = "none"
  BY <1>u, NoCallIs
<1>s. store' \in Control!Store /\ store'.status = "idle" /\ store'.session = 0
  BY <1>u, IdleStoreIs
<1>f. recordingFaults' \in 0..MaxRecordingFaults
  BY <1>t, RecBounds DEF Control!TypeOK, Control!Reload
<1>1. Control!TypeOK'
  BY <1>t, <1>u, <1>m, <1>d, <1>s, <1>f DEF Control!TypeOK
<1>2. TabCalls' /\ TabStore' /\ TabMic' /\ RecAudio' /\ IsFiniteSet(segment')
  BY <1>u, <1>m, <1>d, <1>s
     DEF TabInv, TabCalls, TabCall, StagesOf, Uploading, Ending, TabStore, TabMic, RecAudio
<1> QED
  BY <1>1, <1>2 DEF TabInv

\* The steps between screens, and what a recorder that was closed hands over.
LEMMA ScreensKeepTab ==
    ASSUME TabInv,
           \/ \E w \in RecordingWorkspaces, to \in {"home", "recording"} : Control!Navigate(w, to)
           \/ Control!EntryGuard
           \/ \E d \in dialogs : Control!CloseDialog(d)
           \/ \E g \in late : Control!LateChunk(g)
    PROVE  TabInv'
<1> USE DEF Control!chunks, Control!proofs, Control!record, Control!screen
<1>t. Control!TypeOK
  BY DEF TabInv
<1>1. ASSUME NEW w \in RecordingWorkspaces, NEW to \in {"home", "recording"},
             Control!Navigate(w, to)
      PROVE  UNCHANGED TabView /\ Control!TypeOK'
  BY <1>1, <1>t DEF Control!Navigate, Control!TypeOK, Control!At, TabView
<1>2. ASSUME Control!EntryGuard PROVE UNCHANGED TabView /\ Control!TypeOK'
  BY <1>2, <1>t DEF Control!EntryGuard, Control!TypeOK, Control!At, TabView
<1>3. ASSUME NEW d \in dialogs, Control!CloseDialog(d) PROVE UNCHANGED TabView /\ Control!TypeOK'
  BY <1>3, <1>t DEF Control!CloseDialog, Control!TypeOK, TabView
<1>4. ASSUME NEW g \in late, Control!LateChunk(g) PROVE UNCHANGED TabView /\ Control!TypeOK'
  BY <1>4, <1>t DEF Control!LateChunk, Control!TypeOK, TabView
<1> QED
  BY <1>1, <1>2, <1>3, <1>4, TabSame

-----------------------------------------------------------------------------
(* All of it *)

\* A tab begins without a recording.
LEMMA RecInit == Control!Init => RecInv
<1> SUFFICES ASSUME Control!Init PROVE RecInv
  OBVIOUS
<1>i. /\ overlap \in Overlaps /\ store = Control!IdleStore
      /\ mic = [open |-> FALSE, connection |-> Control!NoConnection, pending |-> "no"]
      /\ audio = {} /\ late = {} /\ segment = {} /\ lostPage = {} /\ proof = 0 /\ used = 0
      /\ call = [c \in Slots |-> Control!NoCall] /\ dialogs = {}
      /\ server = [q \in Control!Requests |-> Control!NoSession]
      /\ recordingFaults = 0
      /\ page \in [workspace: RecordingWorkspaces, screen: {"home", "recording"}]
  BY DEF Control!Init, Control!At
<1>s. /\ store \in Control!Store /\ store.status = "idle" /\ store.session = 0
      /\ ~store.ending /\ ~store.lost
  BY <1>i, IdleStoreIs
<1>n. /\ Control!NoConnection \in Control!Connection
      /\ ~Control!NoConnection.live /\ Control!NoConnection.recorder = "inactive"
      /\ Control!NoConnection.collects = {} /\ ~Control!NoConnection.flushing
  BY DEF Control!NoConnection, Control!Connected, Control!Connection
<1>m. /\ mic \in Control!Mic /\ ~mic.open /\ mic.pending = "no"
      /\ mic.connection = Control!NoConnection
  BY <1>i, <1>n DEF Control!Mic
<1>d. /\ call \in [Slots -> Control!Call]
      /\ \A c \in Slots : call[c].op = "none" /\ call[c].stage = "none"
  BY <1>i, NoCallIs
<1>v. /\ server \in [Control!Requests -> Control!Session]
      /\ \A q \in Control!Requests : server[q].state = "none"
  BY <1>i, SomeWorkspace DEF Control!NoSession, Control!Session
<1>1. Control!TypeOK
  BY <1>i, <1>s, <1>m, <1>d, <1>v, RecBounds DEF Control!TypeOK
<1>2. RecCalls
  BY <1>d DEF RecCalls, CallIs, StagesOf, Uploading, Ending
<1>3. RecStore /\ RecMic /\ RecAudio
  BY <1>i, <1>s, <1>m, <1>n, <1>d DEF RecStore, RecMic, RecAudio
<1>4. RecSegments
  BY <1>i, <1>d, <1>v, FS_EmptySet DEF RecSegments
<1>5. PatientCalls /\ PatientMic /\ PatientAudio
  BY <1>s, <1>d DEF PatientCalls, PatientMic, PatientAudio, Uploading
<1>6. PatientServer
  BY <1>i, <1>s, <1>d DEF PatientServer, Undisturbed
<1> QED
  BY <1>1, <1>2, <1>3, <1>4, <1>5, <1>6 DEF RecInv

\* Each step keeps the invariant.
LEMMA RecNext ==
    ASSUME RecInv, Control!StartsAlone, [Control!Next]_(Control!vars)
    PROVE  RecInv'
<1>1. CASE UNCHANGED Control!vars
  <2>1. UNCHANGED RecView /\ UNCHANGED <<late, page, dialogs>>
    BY <1>1 DEF Control!vars, RecView, Control!chunks, Control!proofs, Control!record, Control!screen
  <2>2. Control!TypeOK'
    BY <2>1 DEF RecInv, Control!TypeOK, RecView
  <2> QED
    BY <2>1, <2>2, RecSame
<1>2. ASSUME NEW c \in Slots,
             \/ Control!Control(c) \/ Control!Continue(c) \/ Control!MicrophoneLostEffect(c)
             \/ Control!LoseMessage(c) \/ Control!UploadStepLost(c)
      PROVE  RecInv'
  BY <1>2, StartKeeps, ClickPauseKeeps, ClickResumeKeeps, ClickEndKeeps, ServeKeeps,
     StartAnsweredKeeps, ControlAnsweredKeeps, EndAnsweredKeeps, RecorderStoppedKeeps,
     UploadStepKeeps, LostEffectKeeps
     DEF Control!Control, Control!Continue
<1>3. ASSUME NEW granted \in BOOLEAN, Control!MicAnswered(granted) PROVE RecInv'
  BY <1>3, MicAnsweredKeeps
<1> QED
  BY <1>1, <1>2, <1>3, LoseMicrophoneKeeps, ScreensKeep, DiscardKeeps, ReloadKeeps
     DEF Control!Next

\* What holds of every user is part of what holds at the start of one who starts alone.
LEMMA TabInit == Control!Init => TabInv
<1> SUFFICES ASSUME Control!Init PROVE TabInv
  OBVIOUS
<1>1. RecInv
  BY RecInit
<1>2. /\ store = Control!IdleStore /\ audio = {} /\ segment = {}
      /\ mic = [open |-> FALSE, connection |-> Control!NoConnection, pending |-> "no"]
      /\ call = [c \in Slots |-> Control!NoCall]
  BY DEF Control!Init
<1>3. Control!NoConnection.collects = {}
  BY DEF Control!NoConnection, Control!Connected
<1>4. TabCalls
  BY <1>2, NoCallIs DEF TabCalls, TabCall, StagesOf, Uploading, Ending
<1>5. TabStore /\ TabMic /\ RecAudio /\ IsFiniteSet(segment)
  BY <1>2, <1>3, NoCallIs, IdleStoreIs, FS_EmptySet DEF TabStore, TabMic, RecAudio
<1> QED
  BY <1>1, <1>4, <1>5 DEF TabInv, RecInv

\* Each step keeps it.
LEMMA TabNext ==
    ASSUME TabInv, [Control!Next]_(Control!vars)
    PROVE  TabInv'
<1>1. CASE UNCHANGED Control!vars
  <2>1. UNCHANGED TabView /\ UNCHANGED <<overlap, late, proof, used, lostPage, page, dialogs,
                                          recordingFaults>>
    BY <1>1 DEF Control!vars, TabView, Control!chunks, Control!proofs, Control!record, Control!screen
  <2>2. Control!TypeOK'
    BY <2>1 DEF TabInv, Control!TypeOK, TabView
  <2> QED
    BY <2>1, <2>2, TabSame
<1>2. ASSUME NEW c \in Slots,
             \/ Control!Control(c) \/ Control!Continue(c) \/ Control!MicrophoneLostEffect(c)
             \/ Control!LoseMessage(c) \/ Control!UploadStepLost(c)
      PROVE  TabInv'
  BY <1>2, ControlKeepsTab, AnsweredKeepsTab, StartAnsweredKeepsTab, ControlAnsweredKeepsTab,
     EndAnsweredKeepsTab, RecorderStoppedKeepsTab, UploadStepKeepsTab, LostEffectKeepsTab
     DEF Control!Continue
<1>3. ASSUME NEW granted \in BOOLEAN, Control!MicAnswered(granted) PROVE TabInv'
  BY <1>3, MicAnsweredKeepsTab
<1> QED
  BY <1>1, <1>2, <1>3, LoseMicrophoneKeepsTab, ScreensKeepTab, DiscardKeepsTab, ReloadKeepsTab
     DEF Control!Next

\* What may overlap is the behaviour's.
LEMMA OverlapStays ==
    ASSUME [Control!Next]_(Control!vars)
    PROVE  overlap' = overlap
<1> USE DEF Control!tab
<1>1. ASSUME NEW c \in Slots, Control!Control(c) PROVE overlap' = overlap
  BY <1>1 DEF Control!Control, Control!ClickMic, Control!RetryStart, Control!ClickPause,
              Control!ClickResume, Control!ClickEnd
<1>2. ASSUME NEW c \in Slots, Control!Continue(c) PROVE overlap' = overlap
  BY <1>2 DEF Control!Continue, Control!Serve, Control!TabUnchanged, Control!StartAnswered,
              Control!ControlAnswered, Control!EndAnswered, Control!RecorderStopped,
              Control!UploadStep
<1>3. ASSUME NEW c \in Slots,
             \/ Control!MicrophoneLostEffect(c) \/ Control!LoseMessage(c)
             \/ Control!UploadStepLost(c)
      PROVE overlap' = overlap
  BY <1>3 DEF Control!MicrophoneLostEffect, Control!LoseMessage, Control!TabUnchanged,
              Control!UploadStepLost
<1>4. ASSUME NEW granted \in BOOLEAN, Control!MicAnswered(granted) PROVE overlap' = overlap
  BY <1>4 DEF Control!MicAnswered
<1>5. ASSUME \/ Control!LoseMicrophone
             \/ \E g \in late : Control!LateChunk(g)
             \/ \E d \in dialogs : Control!CloseDialog(d)
             \/ \E w \in RecordingWorkspaces, to \in {"home", "recording"} : Control!Navigate(w, to)
             \/ Control!EntryGuard \/ Control!Reload
             \/ \E q \in Control!Requests : Control!DiscardSession(q)
      PROVE overlap' = overlap
  BY <1>5 DEF Control!LoseMicrophone, Control!LateChunk, Control!CloseDialog, Control!Navigate,
              Control!EntryGuard, Control!DiscardSession, Control!TabUnchanged, Control!Reload
<1>6. CASE UNCHANGED Control!vars
  BY <1>6 DEF Control!vars
<1> QED
  BY <1>1, <1>2, <1>3, <1>4, <1>5, <1>6 DEF Control!Next

\* The two together.
AllInv == TabInv /\ (Control!StartsAlone => RecInv)

LEMMA AllNext ==
    ASSUME AllInv, [Control!Next]_(Control!vars)
    PROVE  AllInv'
BY TabNext, RecNext, OverlapStays DEF AllInv, Control!StartsAlone

\* What the invariants are for.
LEMMA RecPromises ==
    AllInv => /\ Control!TypeOK /\ Control!RecorderCollects /\ Control!MicrophoneReleased
              /\ Control!PatientIsUploaded /\ Control!NothingElseIsUploaded
              /\ Control!ServerInStep /\ Control!OneEnd
<1> SUFFICES ASSUME AllInv
             PROVE  /\ Control!TypeOK /\ Control!RecorderCollects /\ Control!MicrophoneReleased
                    /\ Control!PatientIsUploaded /\ Control!NothingElseIsUploaded
                    /\ Control!ServerInStep /\ Control!OneEnd
  OBVIOUS
<1>1. Control!TypeOK
  BY DEF AllInv, TabInv
<1>p. Control!Patient => Control!StartsAlone
  BY DEF Control!Patient, Control!StartsAlone
<1>2. RecInv /\ Control!Quiet => \A c \in Slots : ~Ending(c)
  BY FreeIs DEF Control!Quiet, Ending
<1>3. Control!RecorderCollects
  BY <1>2, <1>p DEF AllInv, RecInv, PatientMic, RecAudio, Control!RecorderCollects
<1>4. Control!MicrophoneReleased
  <2>1. mic.pending \in {"no", "current", "stale"}
    BY <1>1 DEF Control!TypeOK, Control!Mic
  <2>2. ASSUME NEW c \in Slots, call[c].stage = "mic" PROVE call[c].op \in {"start", "resume"}
    <3>1. TabCall(c) /\ call[c] \in Control!Call
      BY <1>1, RecTypes DEF AllInv, TabInv, TabCalls
    <3> QED
      BY <2>2, <3>1 DEF TabCall, StagesOf, Control!Call
  <2> QED
    BY <2>1, <2>2 DEF AllInv, TabInv, TabMic, Control!MicrophoneReleased
<1>5. Control!PatientIsUploaded
  BY <1>p DEF AllInv, RecInv, PatientAudio, OfSession, Uploading, Control!PatientIsUploaded,
              Control!EverythingIsUploaded
<1>6. Control!NothingElseIsUploaded
  <2>1. \A c \in Slots : Uploading(c) => \A g, h \in call[c].audio : g.session = h.session
    BY DEF AllInv, TabInv, TabCalls, TabCall
  <2>2. Control!StartsAlone =>
          \A c \in Slots : Uploading(c) => \A g \in call[c].audio : g.session = call[c].session
    BY DEF AllInv, RecInv, RecCalls, CallIs
  <2> QED
    BY <2>1, <2>2 DEF Uploading, Control!NothingElseIsUploaded
<1>7. Control!ServerInStep
  BY <1>p DEF AllInv, RecInv, PatientServer, SessionState, Control!ServerInStep
<1>8. Control!OneEnd
  BY DEF AllInv, RecInv, RecCalls, Control!OneEnd
<1> QED
  BY <1>1, <1>3, <1>4, <1>5, <1>6, <1>7, <1>8

\* A call that ends a recording which is not its own: a start that fails after another has begun
\* one, or a call of an earlier recording.
OfAnother(c) ==
    /\ call[c].op # "none" /\ call'[c].op = "none" /\ call[c].stage # "mic"
    /\ call[c].op = "start" \/ call[c].session # store.session

\* What a call does to the recording in the store.
LEMMA CallsDrop ==
    ASSUME TabInv, NEW c \in Slots, store.status # "idle", store'.status = "idle",
           \/ Control!Control(c) \/ Control!Continue(c) \/ Control!MicrophoneLostEffect(c)
           \/ Control!LoseMessage(c) \/ Control!UploadStepLost(c)
    PROVE  ~Control!Running(store.session) \/ OfAnother(c)
<1> USE DEF Control!tab
<1>t. /\ Control!TypeOK /\ TabCall(c) /\ store \in Control!Store /\ call[c] \in Control!Call
  BY RecTypes DEF TabInv, TabCalls
<1>1. ~Control!ClickMic(c) /\ ~Control!RetryStart(c)
  BY DEF Control!ClickMic, Control!RetryStart
<1>2. ~Control!ClickPause(c)
  BY <1>t, StorePauses DEF Control!ClickPause
<1>3. ~Control!ClickResume(c)
  BY <1>t DEF Control!ClickResume, Control!ResumeRecording, Control!Store
<1>4. ~Control!ClickEnd(c) /\ ~Control!MicrophoneLostEffect(c)
  BY <1>t DEF Control!ClickEnd, Control!MicrophoneLostEffect, Control!Store
<1>5. ~Control!Serve(c) /\ ~Control!LoseMessage(c)
  BY DEF Control!Serve, Control!LoseMessage, Control!TabUnchanged
<1>6. ASSUME Control!StartAnswered(c) PROVE OfAnother(c)
  <2>1. call[c].op = "start" /\ call[c].stage = "response" /\ Control!Return(c)
    BY <1>6 DEF Control!StartAnswered
  <2> QED
    BY <2>1, <1>t, ReturnIs DEF OfAnother
<1>7. ~Control!RecorderStopped(c)
  BY <1>t DEF Control!RecorderStopped, Control!Store
<1>r. ASSUME Control!Return(c), Over(call[c].session), call[c].op # "none", call[c].stage # "mic"
      PROVE  ~Control!Running(store.session) \/ OfAnother(c)
  BY <1>r, <1>t, ReturnIs DEF OfAnother, Over, Control!Running
<1>8. ASSUME Control!ControlAnswered(c) PROVE ~Control!Running(store.session) \/ OfAnother(c)
  BY <1>8, <1>r, <1>t DEF Control!ControlAnswered, Control!IsClosed, TabCall
<1>9. ASSUME Control!EndAnswered(c) PROVE ~Control!Running(store.session) \/ OfAnother(c)
  <2>1. call[c].op = "end" /\ call[c].stage = "response"
    BY <1>9 DEF Control!EndAnswered
  <2>2. (call[c].answer = "closed" /\ Control!Return(c)) \/ store'.status = store.status
    BY <1>9, <1>t DEF Control!EndAnswered, Control!IsClosed, Control!CancelEnding,
                      Control!FreezeElapsed, Control!Store
  <2> QED
    BY <2>1, <2>2, <1>r, <1>t DEF TabCall
<1>10. ASSUME Control!UploadStep(c) \/ Control!UploadStepLost(c)
       PROVE  ~Control!Running(store.session) \/ OfAnother(c)
  <2>1. Uploading(c)
    BY <1>10 DEF Control!UploadStep, Control!UploadStepLost, Uploading
  <2>2. call[c].op = "end" /\ Over(call[c].session) /\ call[c].stage # "mic"
    BY <2>1, <1>t DEF TabCall, StagesOf, Uploading, Ending, Control!Call
  <2>3. Control!Return(c)
    BY <1>10 DEF Control!UploadStep, Control!UploadStepLost, Control!UploadContinues
  <2> QED
    BY <2>2, <2>3, <1>r
<1> QED
  BY <1>1, <1>2, <1>3, <1>4, <1>5, <1>6, <1>7, <1>8, <1>9, <1>10
     DEF Control!Control, Control!Continue

\* A recording leaves the store when its session is over, or with the page, or with a call that
\* is not of it; and there is none such if recordings are started alone.
LEMMA RecDrops ==
    ASSUME AllInv, Control!Next, store.status # "idle", store'.status = "idle"
    PROVE  \/ ~Control!Running(store.session)
           \/ lostPage' = segment /\ recordingFaults' # recordingFaults
           \/ \E c \in Slots : OfAnother(c) /\ ~Control!StartsAlone
<1>t. Control!TypeOK /\ store \in Control!Store /\ TabInv
  BY RecTypes DEF AllInv, TabInv
<1>1. ASSUME NEW granted \in BOOLEAN, Control!MicAnswered(granted) PROVE FALSE
  BY <1>1, <1>t DEF Control!MicAnswered, Control!Store
<1>2. ASSUME Control!LoseMicrophone PROVE FALSE
  <2>1. \/ store' = [Control!FreezeElapsed(store) EXCEPT !.status = "paused", !.analyser = FALSE,
                                                            !.lost = TRUE]
        \/ store' = [store EXCEPT !.analyser = FALSE, !.lost = TRUE]
    BY <1>2 DEF Control!LoseMicrophone
  <2> QED
    BY <2>1, <1>t DEF Control!Store, Control!FreezeElapsed
<1>3. ASSUME NEW g \in late, Control!LateChunk(g) PROVE FALSE
  BY <1>3 DEF Control!LateChunk
<1>4. ASSUME NEW d \in dialogs, Control!CloseDialog(d) PROVE FALSE
  BY <1>4 DEF Control!CloseDialog
<1>5. ASSUME NEW w \in RecordingWorkspaces, NEW to \in {"home", "recording"},
             Control!Navigate(w, to)
      PROVE  FALSE
  BY <1>5 DEF Control!Navigate
<1>6. ~Control!EntryGuard
  BY DEF Control!EntryGuard
<1>7. ASSUME NEW q \in Control!Requests, Control!DiscardSession(q) PROVE FALSE
  BY <1>7 DEF Control!DiscardSession, Control!TabUnchanged, Control!tab
<1>8. ASSUME Control!Reload PROVE lostPage' = segment /\ recordingFaults' # recordingFaults
  BY <1>8, <1>t, RecTypes DEF Control!Reload
<1>9. ASSUME NEW c \in Slots, OfAnother(c), Control!StartsAlone PROVE ~Control!Running(store.session)
  <2>1. RecInv /\ CallIs(c) /\ call[c] \in Control!Call
    BY <1>9, <1>t, RecTypes DEF AllInv, RecInv, RecCalls
  <2>2. store.session # 0 /\ call[c].op # "start"
    BY <2>1 DEF RecInv, RecStore, CallIs
  <2>3. call[c].op \in {"pause", "resume", "end"} /\ call[c].session # store.session
    BY <2>1, <2>2, <1>9 DEF OfAnother, Control!Call
  <2> QED
    BY <2>1, <2>2, <2>3, <1>9 DEF CallIs, OfAnother
<1> QED
  BY <1>1, <1>2, <1>3, <1>4, <1>5, <1>6, <1>7, <1>8, <1>9, <1>t, CallsDrop DEF Control!Next

\* Recording (useRecordingControl, useDockRecording, the recorder and the store behind them): of
\* every user, the microphone is off without a recording, an audio that is uploaded is of one
\* session, and a recording is dropped only when its session is over or by a call that is of
\* another; of one who starts no recording beside another call, no call is of another, the audio
\* goes into its own session and a recording is ended by one call; of one who waits for every
\* answer it goes there whole, and screen, recorder and server agree.
THEOREM RecordingIsSafeCorrect == Spec => RecordingIsSafe
<1> DEFINE Drops ==
             store.status # "idle" /\ store'.status = "idle" =>
               \/ ~Control!Running(store.session)
               \/ lostPage' = segment /\ recordingFaults' # recordingFaults
               \/ \E c \in Slots :
                     /\ call[c].op # "none" /\ call'[c].op = "none" /\ ~Control!StartsAlone
                     /\ call[c].op = "start" \/ call[c].session # store.session
<1>1. Init => AllInv
  BY RecInit, TabInit DEF Init, ControlRests, AllInv
<1>2. AllInv /\ [Next]_vars => AllInv'
  BY RecStep, AllNext
<1>3. AllInv => /\ part = "recorder" => Control!TypeOK
                /\ RecorderCollects /\ MicrophoneReleased /\ PatientIsUploaded
                /\ NothingElseIsUploaded /\ ServerInStep /\ OneEnd
  BY RecPromises DEF RecorderCollects, MicrophoneReleased, PatientIsUploaded,
                     NothingElseIsUploaded, ServerInStep, OneEnd
<1>4. AllInv /\ [Next]_vars => [Drops]_(Control!vars)
  BY RecStep, RecDrops DEF OfAnother
<1>5. Spec => /\ [](/\ part = "recorder" => Control!TypeOK
                    /\ RecorderCollects /\ MicrophoneReleased /\ PatientIsUploaded
                    /\ NothingElseIsUploaded /\ ServerInStep /\ OneEnd)
              /\ [][Drops]_(Control!vars)
  BY <1>1, <1>2, <1>3, <1>4, PTL DEF Spec
<1>6. DroppedOnlyWhenOver <=> [][Drops]_(Control!vars)
  BY DEF DroppedOnlyWhenOver, Control!DroppedOnlyWhenOver
<1> QED
  BY <1>5, <1>6, PTL DEF RecordingIsSafe
=============================================================================
