------------------------------ MODULE ApiServer ------------------------------
(***************************************************************************)
(* The server's side of the HTTP API: the endpoints the controllers map, the *)
(* body fields they refuse a request without, the fields of their answers,   *)
(* and what a request that succeeds changes for those who ask.               *)
(***************************************************************************)
EXTENDS Api

Endpoint(method, path, requires, answers) ==
    [method |-> method, path |-> path, requires |-> requires, answers |-> answers]
Any == "*"
InWorkspace(rest) == <<"workspaces", Any>> \o rest

AuthController ==
    {Endpoint("get", <<"auth", "me">>, {}, Fields({"memberId", "nickname", "profileImageUrl"})),
     Endpoint("get", <<"auth", "csrf">>, {}, Fields({"token"})),
     Endpoint("post", <<"auth", "nickname">>, {"nickname"}, {})}

WorkspaceControllers ==
    {Endpoint("get", <<"workspaces">>, {},
              Fields({"lastViewedWorkspaceId"}) \cup Within("workspaces", Fields({"id", "name"}))),
     Endpoint("get", InWorkspace(<<>>), {}, Fields({"name", "myRole", "activeMemberCount"})),
     Endpoint("post", <<"workspaces">>, {"name"}, Fields({"id"})),
     Endpoint("put", <<"members", "me", "last-viewed-workspace">>, {"workspaceId"}, {})}

InvitationControllers ==
    {Endpoint("post", InWorkspace(<<"invitations">>), {},
              Fields({"code", "linkToken", "expiresAt"})),
     Endpoint("get", <<"invitations", Any>>, {}, Fields({"workspaceId", "workspaceName"})),
     Endpoint("post", <<"invitations", "accept">>, {"credential"},
              Fields({"workspaceId", "workspaceName"}))}

OfRecording(rest) == InWorkspace(<<"recordings", Any>> \o rest)
RecordingControlRequest == {"tabId", "controlToken"}
RecordingControllers ==
    {Endpoint("post", InWorkspace(<<"recordings">>),
              {"requestId"} \cup RecordingControlRequest,
              Fields({"recordingId", "status", "startedAt"})),
     Endpoint("post", OfRecording(<<"pause">>), RecordingControlRequest,
              Fields({"recordingId", "status", "pausedAt", "elapsedMillis"})),
     Endpoint("post", OfRecording(<<"resume">>), RecordingControlRequest,
              Fields({"recordingId", "status", "resumedAt", "elapsedMillis"})),
     Endpoint("post", OfRecording(<<"end">>), RecordingControlRequest,
              Fields({"recordingId", "status", "endedAt"})),
     Endpoint("post", OfRecording(<<"audio-upload-url">>), {"contentType", "contentLength"},
              Fields({"uploadId", "uploadUrl", "expiresAt"})),
     Endpoint("post", OfRecording(<<"audio-upload-complete">>), {"uploadId"},
              Fields({"recordingId", "uploadId", "uploadStatus", "completedAt"}))}

ConfirmationSummary == Fields({"confirmedCount", "pendingCount", "excludedCount"})
OfDocument(rest) == InWorkspace(<<"documents", Any>> \o rest)
DocumentCard ==
    Fields({"id", "recordingSessionId", "topic", "title", "summary", "status", "createdAt",
            "recordingDurationSeconds", "myConfirmationState"})
      \cup Within("confirmationSummary", ConfirmationSummary)
DocumentControllers ==
    {Endpoint("get", InWorkspace(<<"documents">>), {},
              Within("topics", Fields({"topic", "documentCount"}))
                \cup Within("items", DocumentCard) \cup Fields({"nextCursor"})),
     Endpoint("get", OfDocument(<<>>), {},
              DocumentCard \cup Fields({"content", "archivedAt", "sourceTranscriptId"})),
     Endpoint("get", OfDocument(<<"confirmations">>), {},
              Fields({"documentId", "confirmedByMe", "nextCursor"}) \cup ConfirmationSummary
                \cup Within("items", Fields({"memberId", "nickname", "profileImageUrl",
                                             "confirmedAt", "state"}))),
     Endpoint("put", OfDocument(<<"confirmations", "me">>), {},
              Fields({"documentId", "confirmedAt", "documentStatus", "archivedAt"})
                \cup Within("confirmationSummary", ConfirmationSummary)),
     Endpoint("post", InWorkspace(<<"document-generation-jobs", Any, "retry">>), {},
              Fields({"jobId", "status", "attemptCount"}))}

Endpoints ==
    AuthController \cup WorkspaceControllers \cup InvitationControllers
      \cup RecordingControllers \cup DocumentControllers

\* The path patterns of Spring: a variable stands for one segment.
Matches(pattern, path) ==
    /\ Len(pattern) = Len(path)
    /\ \A i \in DOMAIN path : pattern[i] \in {Any, path[i]}

Handlers(request) ==
    {e \in Endpoints : e.method = request.method /\ Matches(e.path, request.path)}

\* The request is handled, with all that its body must have, and the answer has
\* all that the client reads from it.
Fits(request) ==
    \E e \in Handlers(request) :
        e.requires \subseteq request.body /\ request.reads \subseteq e.answers

\* Parts of the API that the client has and this repository's server does not:
\* conversations, the Notion integration, and the detail of a recording; and the
\* storage, which is no part of it.
ClientOnly(request) ==
    \/ \E i \in DOMAIN request.path :
          request.path[i] \in {"conversations", "imports", "notion-connection",
                               "notion-oauth-authorizations", "notion-pages", "storage"}
    \/ request.method = "get" /\ Matches(OfRecording(<<>>), request.path)

-----------------------------------------------------------------------------

\* What members see change when a request of theirs succeeds, by the path that
\* shows it.
Changes(request) ==
    LET path == request.path
        is(method, pattern) == request.method = method /\ Matches(pattern, path) IN
    CASE is("post", <<"workspaces">>) \/ is("post", <<"invitations", "accept">>)
           \/ is("put", <<"members", "me", "last-viewed-workspace">>) -> {<<"workspaces">>}
      [] is("put", OfDocument(<<"confirmations", "me">>)) ->
           {SubSeq(path, 1, 4), SubSeq(path, 1, 5)}
      [] is("post", InWorkspace(<<"document-generation-jobs", Any, "retry">>)) ->
           {RecordingPath(path[2], path[4])}
      [] is("post", InWorkspace(<<"conversations">>)) -> {path}
      [] is("post", InWorkspace(<<"imports">>)) ->
           {OfWorkspace(path[2]) \o <<"notion-pages", "tree">>}
      [] OTHER -> {}
=============================================================================
