--------------------------------- MODULE Api ---------------------------------
(***************************************************************************)
(* The client's side of the HTTP API: what each function of shared/api       *)
(* sends and reads, the query keys, and the query and mutation hooks.        *)
(*                                                                          *)
(* A request is its method, its path as a sequence of segments, the names    *)
(* of its query parameters and body fields, and the fields its DTO reads     *)
(* from the answer, each a path of names ("items", "id").  Values do not     *)
(* matter to it beyond the ids in paths and keys.                            *)
(***************************************************************************)
EXTENDS Integers, Sequences, FiniteSets

Request(method, path, params, body, reads) ==
    [method |-> method, path |-> path, params |-> params, body |-> body, reads |-> reads]
Get(path, reads) == Request("get", path, {}, {}, reads)
Post(path, body, reads) == Request("post", path, {}, body, reads)
Put(path, body, reads) == Request("put", path, {}, body, reads)

Fields(names) == {<<n>> : n \in names}
Within(name, dto) == {<<name>> \o f : f \in dto}

-----------------------------------------------------------------------------
(* DTOs: what a request body holds of the values given, what is read from an *)
(* answer                                                                    *)

Kept(input, names) == input \cap names

GetCsrfTokenResponseDto == Fields({"token"})
GetMeResponseDto == Fields({"memberId", "nickname", "profileImageUrl"})
PostNicknameRequestDto(input) == Kept(input, {"nickname"})

WorkspaceListItemDto == Fields({"id", "name"})
GetWorkspacesResponseDto ==
    Fields({"lastViewedWorkspaceId"}) \cup Within("workspaces", WorkspaceListItemDto)
PostWorkspaceRequestDto(input) == Kept(input, {"name"})
PostWorkspaceResponseDto == Fields({"id"})
GetWorkspaceResponseDto == Fields({"name"})
PutLastViewedWorkspaceRequestDto(input) == Kept(input, {"workspaceId"})

WorkspaceInvitationDto == Fields({"code", "linkToken", "expiresAt"})
PostWorkspaceInvitationResponseDto == WorkspaceInvitationDto
GetInvitationPreviewResponseDto == Fields({"workspaceId", "workspaceName"})
PostInvitationAcceptRequestDto(input) == Kept(input, {"credential"})
PostInvitationAcceptResponseDto == Fields({"workspaceId", "workspaceName"})

PostRecordingRequestDto(input) == Kept(input, {"requestId", "tabId", "controlToken"})
PostRecordingResponseDto == Fields({"recordingId", "status", "startedAt"})
GetRecordingResponseDto ==
    Fields({"recordingId", "status", "sessionStatus", "audioUploadStatus", "startedAt",
            "endedAt", "durationMillis", "transcriptionStatus", "documentGenerationStatus",
            "documentGenerationJobId", "failureStage", "failureReason"})
PostRecordingPauseRequestDto(input) == Kept(input, {"tabId", "controlToken"})
PostRecordingPauseResponseDto == Fields({"recordingId", "status", "pausedAt", "elapsedMillis"})
PostRecordingResumeRequestDto(input) == Kept(input, {"tabId", "controlToken"})
PostRecordingResumeResponseDto == Fields({"recordingId", "status", "resumedAt", "elapsedMillis"})
PostRecordingEndResponseDto == Fields({"recordingId", "status", "endedAt"})
PostRecordingAudioUploadUrlRequestDto(input) == Kept(input, {"contentType", "contentLength"})
PostRecordingAudioUploadUrlResponseDto == Fields({"uploadId", "uploadUrl", "expiresAt"})
PostRecordingAudioUploadCompleteRequestDto(input) == Kept(input, {"uploadId"})
PostRecordingAudioUploadCompleteResponseDto ==
    Fields({"recordingId", "uploadId", "uploadStatus", "completedAt"})

ConfirmationSummaryDto == Fields({"confirmedCount", "pendingCount", "excludedCount"})
DocumentTopicDto == Fields({"topic", "documentCount"})
DocumentListItemDto ==
    Fields({"id", "recordingSessionId", "topic", "title", "summary", "status", "createdAt",
            "recordingDurationSeconds", "myConfirmationState"})
      \cup Within("confirmationSummary", ConfirmationSummaryDto)
GetDocumentsResponseDto ==
    Within("topics", DocumentTopicDto) \cup Within("items", DocumentListItemDto)
      \cup Fields({"nextCursor"})

GetDocumentResponseDto ==
    Fields({"id", "recordingSessionId", "topic", "title", "summary", "content", "status",
            "createdAt", "archivedAt", "recordingDurationSeconds", "sourceTranscriptId",
            "myConfirmationState"})
      \cup Within("confirmationSummary", ConfirmationSummaryDto)
DocumentConfirmationItemDto ==
    Fields({"memberId", "nickname", "profileImageUrl", "confirmedAt", "state"})
GetDocumentConfirmationsResponseDto ==
    Fields({"documentId", "nextCursor"}) \cup ConfirmationSummaryDto
      \cup Within("items", DocumentConfirmationItemDto)
PutDocumentConfirmationResponseDto ==
    Fields({"documentId", "confirmedAt", "documentStatus", "archivedAt"})
      \cup Within("confirmationSummary", ConfirmationSummaryDto)
PostDocumentGenerationJobRetryResponseDto == Fields({"jobId", "status", "attemptCount"})

ChatSessionDto == Fields({"id", "title", "createdAt", "lastMessageAt"})
PostChatSessionRequestDto(input) == Kept(input, {"title"})
ChatMessageDto == Fields({"id", "role", "content", "createdAt"})
PostNotionOAuthAuthorizationResponseDto == Fields({"authorizationUrl"})
GetNotionConnectionResponseDto == Fields({"status"})
PostNotionImportResponseDto == Fields({"id"})
GetNotionImportStatusResponseDto ==
    Fields({"id", "status", "totalPageCount", "processedPageCount", "failureReason",
            "createdAt", "startedAt", "completedAt"})
NotionPageTreeItemDto == Fields({"id", "parentPageId", "title", "position", "notionUrl"})

-----------------------------------------------------------------------------
(* The functions that send, by path *)

OfWorkspace(w) == <<"workspaces", w>>
RecordingPath(w, r) == OfWorkspace(w) \o <<"recordings", r>>
DocumentPath(w, d) == OfWorkspace(w) \o <<"documents", d>>

getCsrfTokenApi == Get(<<"auth", "csrf">>, GetCsrfTokenResponseDto)
getMeApi == Get(<<"auth", "me">>, GetMeResponseDto)
completeNicknameApi(body) == Post(<<"auth", "nickname">>, body, {})

getWorkspacesApi == Get(<<"workspaces">>, GetWorkspacesResponseDto)
createWorkspaceApi(body) == Post(<<"workspaces">>, body, PostWorkspaceResponseDto)
getWorkspaceApi(w) == Get(OfWorkspace(w), GetWorkspaceResponseDto)
updateLastViewedWorkspaceApi(body) ==
    Put(<<"members", "me", "last-viewed-workspace">>, body, {})

issueWorkspaceInvitationApi(w) ==
    Post(OfWorkspace(w) \o <<"invitations">>, {}, PostWorkspaceInvitationResponseDto)
getInvitationPreviewApi(credential) ==
    Get(<<"invitations", credential>>, GetInvitationPreviewResponseDto)
acceptInvitationApi(body) ==
    Post(<<"invitations", "accept">>, body, PostInvitationAcceptResponseDto)

startRecordingApi(w, body) ==
    Post(OfWorkspace(w) \o <<"recordings">>, body, PostRecordingResponseDto)
getRecordingApi(w, r) == Get(RecordingPath(w, r), GetRecordingResponseDto)
pauseRecordingApi(w, r, body) ==
    Post(RecordingPath(w, r) \o <<"pause">>, body, PostRecordingPauseResponseDto)
resumeRecordingApi(w, r, body) ==
    Post(RecordingPath(w, r) \o <<"resume">>, body, PostRecordingResumeResponseDto)
endRecordingApi(w, r) == Post(RecordingPath(w, r) \o <<"end">>, {}, PostRecordingEndResponseDto)
issueRecordingAudioUploadUrlApi(w, r, body) ==
    Post(RecordingPath(w, r) \o <<"audio-upload-url">>, body,
         PostRecordingAudioUploadUrlResponseDto)
completeRecordingAudioUploadApi(w, r, body) ==
    Post(RecordingPath(w, r) \o <<"audio-upload-complete">>, body,
         PostRecordingAudioUploadCompleteResponseDto)

\* A PUT to the URL that was issued: the storage's, with the type of the audio.
uploadRecordingAudioApi(url) == Put(<<"storage", url>>, {"audio"}, {})

getDocumentsApi(w, params) ==
    Request("get", OfWorkspace(w) \o <<"documents">>, params, {}, GetDocumentsResponseDto)
getDocumentApi(w, d) == Get(DocumentPath(w, d), GetDocumentResponseDto)
getDocumentConfirmationsApi(w, d) ==
    Request("get", DocumentPath(w, d) \o <<"confirmations">>, {"size"}, {},
            GetDocumentConfirmationsResponseDto)
\* Fault: confirms with a POST.
ConfirmByPost(w, d) ==
    Post(DocumentPath(w, d) \o <<"confirmations", "me">>, {}, PutDocumentConfirmationResponseDto)
confirmDocumentApi(w, d) ==
    Put(DocumentPath(w, d) \o <<"confirmations", "me">>, {}, PutDocumentConfirmationResponseDto)
retryDocumentGenerationJobApi(w, j) ==
    Post(OfWorkspace(w) \o <<"document-generation-jobs", j, "retry">>, {},
         PostDocumentGenerationJobRetryResponseDto)

getChatSessionsApi(w) == Get(OfWorkspace(w) \o <<"conversations">>, ChatSessionDto)
createChatSessionApi(w, body) ==
    Post(OfWorkspace(w) \o <<"conversations">>, body, ChatSessionDto)
getChatMessagesApi(s) == Get(<<"conversations", s>>, ChatMessageDto)

startNotionOAuthApi(w) ==
    Post(OfWorkspace(w) \o <<"notion-oauth-authorizations">>, {},
         PostNotionOAuthAuthorizationResponseDto)
getNotionConnectionApi(w) ==
    Get(OfWorkspace(w) \o <<"notion-connection">>, GetNotionConnectionResponseDto)
startNotionImportApi(w) == Post(OfWorkspace(w) \o <<"imports">>, {}, PostNotionImportResponseDto)
getNotionImportStatusApi(run) == Get(<<"imports", run>>, GetNotionImportStatusResponseDto)
getNotionPageTreeApi(w) ==
    Get(OfWorkspace(w) \o <<"notion-pages", "tree">>, NotionPageTreeItemDto)

-----------------------------------------------------------------------------
(* Query keys *)

Undefined == "undefined"

authKeysMe == <<"auth", "me">>
workspaceKeysList == <<"workspaces", "list">>
workspaceKeysDetail(w) == <<"workspaces", "detail", w>>
workspaceInvitationKeysActive(w) == <<"workspaceInvitations", "active", w>>
workspaceInvitationKeysPreview(credential) == <<"workspaceInvitations", "preview", credential>>
recordingKeysAll == <<"recordings">>
recordingKeysDetail(w, r) == recordingKeysAll \o <<"detail", w, r>>
\* Fault: the documents of one recording under the key of all.
ListKeyOfWorkspace(w, r) == <<"documents", "list", w, Undefined>>
documentKeysList(w, r) == <<"documents", "list", w, r>>
documentKeysDetail(w, d) == <<"documents", "detail", w, d>>
documentKeysConfirmations(w, d) == documentKeysDetail(w, d) \o <<"confirmations">>
chatKeysSessions(w) == <<"chat", "sessions", w>>
chatKeysMessages(s) == <<"chat", "messages", s>>
notionConnectionKeysDetail(w) == <<"notionConnection", "detail", w>>
notionImportKeysDetail(run) == <<"notionImports", "detail", run>>
notionPageKeysTree(w) == <<"notionPages", "tree", w>>

-----------------------------------------------------------------------------
(* Query hooks: a key, the request that fills it, whether it may be sent, and *)
(* when it is sent again: on focus, or while an answer says it is not final   *)

Query(key, request) ==
    [key |-> key, request |-> request, enabled |-> TRUE, focus |-> TRUE,
     polls |-> "never"]
If(query, enabled) == [query EXCEPT !.enabled = enabled]
NotOnFocus(query) == [query EXCEPT !.focus = FALSE]
\* On an interval, until a refusal ("transient") or any error ("success").
Polling(query, until) == [query EXCEPT !.polls = until]
Null == "null"

useMeQuery == Query(authKeysMe, getMeApi)
useWorkspacesQuery(isEnabled) == If(Query(workspaceKeysList, getWorkspacesApi), isEnabled)
useWorkspaceQuery(w) == If(Query(workspaceKeysDetail(w), getWorkspaceApi(w)), w # Null)
useWorkspaceInvitationQuery(w) ==
    If(NotOnFocus(Query(workspaceInvitationKeysActive(w), issueWorkspaceInvitationApi(w))),
       w # Null)
useInvitationPreviewQuery(credential, enabled) ==
    If(NotOnFocus(Query(workspaceInvitationKeysPreview(credential),
                        getInvitationPreviewApi(credential))), enabled)
useRecordingQuery(w, r) ==
    Polling(Query(recordingKeysDetail(w, r), getRecordingApi(w, r)), "transient")
useDocumentsQuery(w) ==
    Query(documentKeysList(w, Undefined), getDocumentsApi(w, {"size", "cursor"}))
useDocumentsByRecordingQuery(w, r, isEnabled) ==
    If(Query(documentKeysList(w, r),
             getDocumentsApi(w, {"size", "cursor", "recordingSessionId"})), isEnabled)
useDocumentQuery(w, d) == Query(documentKeysDetail(w, d), getDocumentApi(w, d))
useDocumentConfirmationsQuery(w, d) ==
    Query(documentKeysConfirmations(w, d), getDocumentConfirmationsApi(w, d))
useChatSessionsQuery(w) == If(Query(chatKeysSessions(w), getChatSessionsApi(w)), w # Null)
useChatMessagesQuery(s) == If(Query(chatKeysMessages(s), getChatMessagesApi(s)), s # Null)
useNotionConnectionQuery(w) ==
    If(Query(notionConnectionKeysDetail(w), getNotionConnectionApi(w)), w # Null)
useNotionImportStatusQuery(run) ==
    If(Polling(Query(notionImportKeysDetail(run), getNotionImportStatusApi(run)), "success"),
       run # Null)
useNotionPageTreeQuery(w) ==
    If(Query(notionPageKeysTree(w), getNotionPageTreeApi(w)), w # Null)

-----------------------------------------------------------------------------
(* Mutation hooks: the request they send for their variables, and the keys    *)
(* whose entries they invalidate when it succeeded or met a conflict          *)

Mutation(request) == [request |-> request, onSuccess |-> {}, onConflict |-> {}]
Invalidating(mutation, keys) == [mutation EXCEPT !.onSuccess = keys]
AlsoOnConflict(mutation) == [mutation EXCEPT !.onConflict = mutation.onSuccess]

usePostNicknameMutation(input) ==
    Mutation(completeNicknameApi(PostNicknameRequestDto(input)))
useCreateWorkspaceMutation(input) ==
    Invalidating(Mutation(createWorkspaceApi(PostWorkspaceRequestDto(input))),
                 {workspaceKeysList})
useUpdateLastViewedWorkspaceMutation(input) ==
    Mutation(updateLastViewedWorkspaceApi(PutLastViewedWorkspaceRequestDto(input)))
useAcceptInvitationMutation(input) ==
    Invalidating(Mutation(acceptInvitationApi(PostInvitationAcceptRequestDto(input))),
                 {workspaceKeysList})
useStartRecordingMutation(w, input) ==
    Mutation(startRecordingApi(w, PostRecordingRequestDto(input)))
usePauseRecordingMutation(w, r, input) ==
    Mutation(pauseRecordingApi(w, r, PostRecordingPauseRequestDto(input)))
useResumeRecordingMutation(w, r, input) ==
    Mutation(resumeRecordingApi(w, r, PostRecordingResumeRequestDto(input)))
useEndRecordingMutation(w, r) == Mutation(endRecordingApi(w, r))
useIssueRecordingAudioUploadUrlMutation(w, r, input) ==
    Mutation(issueRecordingAudioUploadUrlApi(w, r, PostRecordingAudioUploadUrlRequestDto(input)))
useUploadRecordingAudioMutation(url) == Mutation(uploadRecordingAudioApi(url))
useCompleteRecordingAudioUploadMutation(w, r, input) ==
    Mutation(completeRecordingAudioUploadApi(w, r,
                 PostRecordingAudioUploadCompleteRequestDto(input)))
\* Fault: only a success invalidates.
ConfirmSuccessOnly(w, d) ==
    Invalidating(Mutation(confirmDocumentApi(w, d)), {documentKeysDetail(w, d)})
useConfirmDocumentMutation(w, d) ==
    AlsoOnConflict(Invalidating(Mutation(confirmDocumentApi(w, d)), {documentKeysDetail(w, d)}))
useRetryDocumentGenerationJobMutation(w, j) ==
    Invalidating(Mutation(retryDocumentGenerationJobApi(w, j)), {recordingKeysAll})
useCreateChatSessionMutation(w, input) ==
    Invalidating(Mutation(createChatSessionApi(w, PostChatSessionRequestDto(input))),
                 {chatKeysSessions(w)})
useStartNotionOAuthMutation(w) == Mutation(startNotionOAuthApi(w))
useStartNotionImportMutation(w) == Mutation(startNotionImportApi(w))
=============================================================================
