---------------------------- MODULE MCFrontend ----------------------------
(* Instances of Frontend for TLC. *)
EXTENDS Frontend, Api

-----------------------------------------------------------------------------
(* Screens, by the hooks of one domain that are used beside each other *)

Use(mutation, beside) == [mutation |-> mutation, beside |-> beside]
Anywhere(mutation) == Use(mutation, {})
W == "w1"
R == "r1"

\* The page of a document, with the popover of its confirmations.
DocumentQueries == {useDocumentQuery(W, "d1"), useDocumentConfirmationsQuery(W, "d1")}
DocumentUses == {Use(useConfirmDocumentMutation(W, "d1"), {documentKeysDetail(W, "d1")})}

\* The lists of documents: two recordings', and all.
ListQueries ==
    {useDocumentsByRecordingQuery(W, "r1", TRUE), useDocumentsByRecordingQuery(W, "r2", TRUE),
     useDocumentsQuery(W)}

\* Entering, creating and joining workspaces.  (Entering invalidates nothing.)
WorkspaceQueries == {useMeQuery, useWorkspaceQuery(W)}
EntryQueries == {useMeQuery, useWorkspacesQuery(TRUE)}
JoinQueries ==
    {useInvitationPreviewQuery("code", TRUE), useWorkspaceInvitationQuery(W),
     useWorkspacesQuery(TRUE)}
JoinUses ==
    {Anywhere(useCreateWorkspaceMutation({"name"})),
     Anywhere(useAcceptInvitationMutation({"credential"})),
     Anywhere(usePostNicknameMutation({"nickname"}))}
EntryUses == {Anywhere(useUpdateLastViewedWorkspaceMutation({"workspaceId"}))}

\* A recording and what follows it: all that the control hook sends, and the retry.
RecordingQueries == {useRecordingQuery(W, R)}
Proof == {"tabId", "controlToken"}
RecordingUses ==
    {Use(useRetryDocumentGenerationJobMutation(W, R), {recordingKeysDetail(W, R)}),
     Anywhere(useStartRecordingMutation(W, {"requestId"} \cup Proof)),
     Anywhere(usePauseRecordingMutation(W, R, Proof)),
     Anywhere(useResumeRecordingMutation(W, R, Proof)),
     Anywhere(useEndRecordingMutation(W, R)),
     Anywhere(useIssueRecordingAudioUploadUrlMutation(W, R, {"contentType", "contentLength"})),
     Anywhere(useUploadRecordingAudioMutation("url")),
     Anywhere(useCompleteRecordingAudioUploadMutation(W, R, {"uploadId"}))}

\* Conversations.
ChatQueries == {useChatSessionsQuery(W), useChatMessagesQuery("s1")}
ChatUses == {Anywhere(useCreateChatSessionMutation(W, {"title"}))}

\* The card of the import and the tree of the pages.  (An import invalidates nothing.)
NotionQueries ==
    {useNotionConnectionQuery(W), useNotionImportStatusQuery("i1"), useNotionPageTreeQuery(W)}
NotionUses == {Anywhere(useStartNotionOAuthMutation(W)), Anywhere(useStartNotionImportMutation(W))}

On(queries, uses, changes, faultsOf) ==
    [queries |-> queries, uses |-> uses, changes |-> changes, faults |-> faultsOf]
AllScreens ==
    {On(DocumentQueries, DocumentUses, 2, 1), On(ListQueries, {}, 1, 1),
     On(WorkspaceQueries, {}, 1, 1),
     On(EntryQueries, EntryUses, 1, 1), On(JoinQueries, JoinUses, 1, 0),
     On(RecordingQueries, RecordingUses, 2, 2), On(ChatQueries, ChatUses, 1, 1),
     On(NotionQueries, NotionUses, 1, 0)}
AllIds == {"w1", "r1", "r2", "d1", "s1", "i1", "code", "url"}
PollingScreens == {On(RecordingQueries, {}, 1, 4)}

-----------------------------------------------------------------------------
(* A user who waits for every answer, one who does not while recording, one who   *)
(* starts while an end is under way, and one who waits for nothing.               *)
Patience == {{}, {"pause", "resume", "end", "loss"}, {"start", "end"}}
Impatience == {{"start", "pause", "resume", "end", "loss", "navigate"}}

-----------------------------------------------------------------------------
(* Two codes, for two workspaces; a third can be created. *)
CodesOf == [c \in Credentials |-> IF c = "a" THEN 1 ELSE 2]
NoCodes == [c \in {} |-> 1]
Visit(spacesThen, opened, elsewhere, movesThen) ==
    [spaces |-> spacesThen, opened |-> opened, elsewhere |-> elsewhere, moves |-> movesThen]
ByAddress == Visit({1, 2}, {"home", "login", "layout"}, {"address", "logout", "leave"}, 2)
ByInvitation ==
    Visit({1}, {"invite", "code", "join", "onboarding", "create"},
          {"address", "expiry", "logout", "leave"}, 3)
AllVisits == {ByAddress, ByInvitation}
AddressVisits == {Visit({1, 2}, {"home", "login", "layout"}, {"address", "logout", "leave"}, 1)}

-----------------------------------------------------------------------------
(* A recording makes two documents or none, or fails. *)
AllResults == {"COMPLETED", "NO_CONTENT", "FAILED"}
SomeOrNone == {<<1, 2>>, <<>>}
TwoDocuments == <<1, 2>>

-----------------------------------------------------------------------------
(* The example chat of useSearchMessages, and a folder within a folder. *)
Question(i) == [id |-> i, role |-> "USER", evidences |-> 0]
Answer(i, n) == [id |-> i, role |-> "ASSISTANT", evidences |-> n]
ExampleMessages == <<Question(1), Answer(2, 2), Question(3), Answer(4, 3), Question(5), Answer(6, 0)>>
\* No id, answers with evidence, and one without.
Addresses == {-1, 2, 4, 6}
EvidenceAddresses == {-1, 2, 4}
Nested == [a |-> "root", b |-> "a", c |-> "b", d |-> "gone"]
NestedFolders == DOMAIN Nested
NoFolders == {}
NoParents == <<>>
=============================================================================
