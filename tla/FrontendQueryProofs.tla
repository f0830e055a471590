------------------------ MODULE FrontendQueryProofs -------------------------
(***************************************************************************)
(* Proofs about what the screens read and write, for any screens made of    *)
(* the hooks of QueryClient and any ids.  What the hooks are - which keys   *)
(* name which requests, which requests meet the server's contract, which    *)
(* keys a mutation reaches - is settled first, by cases; then the cache is  *)
(* described entry by entry, and the invariant of the cache and the one     *)
(* write follows action by action.                                          *)
(***************************************************************************)
EXTENDS Frontend, SequenceTheorems, TLAPS

-----------------------------------------------------------------------------
(* Keys and paths *)

\* Two sequences side by side, written out.
LEMMA JoinedIs ==
    ASSUME NEW S, NEW s \in Seq(S), NEW t \in Seq(S), NEW u \in Seq(S),
           NEW m \in Nat, NEW n \in Nat, Len(s) = m, Len(t) = n, Len(u) = m + n,
           \A i \in 1..(m + n) : u[i] = IF i <= m THEN s[i] ELSE t[i - m]
    PROVE  s \o t = u
<1>1. /\ s \o t \in Seq(S) /\ Len(s \o t) = Len(u)
      /\ \A i \in 1..(m + n) : (s \o t)[i] = IF i <= m THEN s[i] ELSE t[i - m]
  BY ConcatProperties
<1> QED
  BY <1>1, SeqEqual

\* Concatenations, written out.
LEMMA Joined ==
    /\ \A a, b : <<a, b>> \o <<>> = <<a, b>>
    /\ \A a, b, c : <<a, b>> \o <<c>> = <<a, b, c>>
    /\ \A a, b, c, d : <<a, b>> \o <<c, d>> = <<a, b, c, d>>
    /\ \A a, b, c, d, e : <<a, b>> \o <<c, d, e>> = <<a, b, c, d, e>>
    /\ \A a, b, c, d, e, f : <<a, b>> \o <<c, d, e, f>> = <<a, b, c, d, e, f>>
    /\ \A a, b, c, d, e : <<a, b, c, d>> \o <<e>> = <<a, b, c, d, e>>
    /\ \A a, b, c, d, e, f : <<a, b, c, d>> \o <<e, f>> = <<a, b, c, d, e, f>>
    /\ \A a, b, c, d : <<a>> \o <<b, c, d>> = <<a, b, c, d>>
<1>1. ASSUME NEW a, NEW b
      PROVE  <<a, b>> \o <<>> = <<a, b>>
  <2> DEFINE S == {a, b}
             s == <<a, b>>
             t == <<>>
             u == <<a, b>>
             m == 2
             n == 0
  <2>1. s \in Seq(S) /\ t \in Seq(S) /\ u \in Seq(S)
    OBVIOUS
  <2>2. m \in Nat /\ n \in Nat /\ Len(s) = m /\ Len(t) = n /\ Len(u) = m + n
    OBVIOUS
  <2>3. \A i \in 1..(m + n) : u[i] = IF i <= m THEN s[i] ELSE t[i - m]
    OBVIOUS
  <2> HIDE DEF S, s, t, u, m, n
  <2>4. s \o t = u
    BY <2>1, <2>2, <2>3, JoinedIs
  <2> QED
    BY <2>4 DEF s, t, u
<1>2. ASSUME NEW a, NEW b, NEW c
      PROVE  <<a, b>> \o <<c>> = <<a, b, c>>
  <2> DEFINE S == {a, b, c}
             s == <<a, b>>
             t == <<c>>
             u == <<a, b, c>>
             m == 2
             n == 1
  <2>1. s \in Seq(S) /\ t \in Seq(S) /\ u \in Seq(S)
    OBVIOUS
  <2>2. m \in Nat /\ n \in Nat /\ Len(s) = m /\ Len(t) = n /\ Len(u) = m + n
    OBVIOUS
  <2>3. \A i \in 1..(m + n) : u[i] = IF i <= m THEN s[i] ELSE t[i - m]
    OBVIOUS
  <2> HIDE DEF S, s, t, u, m, n
  <2>4. s \o t = u
    BY <2>1, <2>2, <2>3, JoinedIs
  <2> QED
    BY <2>4 DEF s, t, u
<1>3. ASSUME NEW a, NEW b, NEW c, NEW d
      PROVE  <<a, b>> \o <<c, d>> = <<a, b, c, d>>
  <2> DEFINE S == {a, b, c, d}
             s == <<a, b>>
             t == <<c, d>>
             u == <<a, b, c, d>>
             m == 2
             n == 2
  <2>1. s \in Seq(S) /\ t \in Seq(S) /\ u \in Seq(S)
    OBVIOUS
  <2>2. m \in Nat /\ n \in Nat /\ Len(s) = m /\ Len(t) = n /\ Len(u) = m + n
    OBVIOUS
  <2>3. \A i \in 1..(m + n) : u[i] = IF i <= m THEN s[i] ELSE t[i - m]
    OBVIOUS
  <2> HIDE DEF S, s, t, u, m, n
  <2>4. s \o t = u
    BY <2>1, <2>2, <2>3, JoinedIs
  <2> QED
    BY <2>4 DEF s, t, u
<1>4. ASSUME NEW a, NEW b, NEW c, NEW d, NEW e
      PROVE  <<a, b>> \o <<c, d, e>> = <<a, b, c, d, e>>
  <2> DEFINE S == {a, b, c, d, e}
             s == <<a, b>>
             t == <<c, d, e>>
             u == <<a, b, c, d, e>>
             m == 2
             n == 3
  <2>1. s \in Seq(S) /\ t \in Seq(S) /\ u \in Seq(S)
    OBVIOUS
  <2>2. m \in Nat /\ n \in Nat /\ Len(s) = m /\ Len(t) = n /\ Len(u) = m + n
    OBVIOUS
  <2>3. \A i \in 1..(m + n) : u[i] = IF i <= m THEN s[i] ELSE t[i - m]
    OBVIOUS
  <2> HIDE DEF S, s, t, u, m, n
  <2>4. s \o t = u
    BY <2>1, <2>2, <2>3, JoinedIs
  <2> QED
    BY <2>4 DEF s, t, u
<1>5. ASSUME NEW a, NEW b, NEW c, NEW d, NEW e, NEW f
      PROVE  <<a, b>> \o <<c, d, e, f>> = <<a, b, c, d, e, f>>
  <2> DEFINE S == {a, b, c, d, e, f}
             s == <<a, b>>
             t == <<c, d, e, f>>
             u == <<a, b, c, d, e, f>>
             m == 2
             n == 4
  <2>1. s \in Seq(S) /\ t \in Seq(S) /\ u \in Seq(S)
    OBVIOUS
  <2>2. m \in Nat /\ n \in Nat /\ Len(s) = m /\ Len(t) = n /\ Len(u) = m + n
    OBVIOUS
  <2>3. \A i \in 1..(m + n) : u[i] = IF i <= m THEN s[i] ELSE t[i - m]
    OBVIOUS
  <2> HIDE DEF S, s, t, u, m, n
  <2>4. s \o t = u
    BY <2>1, <2>2, <2>3, JoinedIs
  <2> QED
    BY <2>4 DEF s, t, u
<1>6. ASSUME NEW a, NEW b, NEW c, NEW d, NEW e
      PROVE  <<a, b, c, d>> \o <<e>> = <<a, b, c, d, e>>
  <2> DEFINE S == {a, b, c, d, e}
             s == <<a, b, c, d>>
             t == <<e>>
             u == <<a, b, c, d, e>>
             m == 4
             n == 1
  <2>1. s \in Seq(S) /\ t \in Seq(S) /\ u \in Seq(S)
    OBVIOUS
  <2>2. m \in Nat /\ n \in Nat /\ Len(s) = m /\ Len(t) = n /\ Len(u) = m + n
    OBVIOUS
  <2>3. \A i \in 1..(m + n) : u[i] = IF i <= m THEN s[i] ELSE t[i - m]
    OBVIOUS
  <2> HIDE DEF S, s, t, u, m, n
  <2>4. s \o t = u
    BY <2>1, <2>2, <2>3, JoinedIs
  <2> QED
    BY <2>4 DEF s, t, u
<1>7. ASSUME NEW a, NEW b, NEW c, NEW d, NEW e, NEW f
      PROVE  <<a, b, c, d>> \o <<e, f>> = <<a, b, c, d, e, f>>
  <2> DEFINE S == {a, b, c, d, e, f}
             s == <<a, b, c, d>>
             t == <<e, f>>
             u == <<a, b, c, d, e, f>>
             m == 4
             n == 2
  <2>1. s \in Seq(S) /\ t \in Seq(S) /\ u \in Seq(S)
    OBVIOUS
  <2>2. m \in Nat /\ n \in Nat /\ Len(s) = m /\ Len(t) = n /\ Len(u) = m + n
    OBVIOUS
  <2>3. \A i \in 1..(m + n) : u[i] = IF i <= m THEN s[i] ELSE t[i - m]
    OBVIOUS
  <2> HIDE DEF S, s, t, u, m, n
  <2>4. s \o t = u
    BY <2>1, <2>2, <2>3, JoinedIs
  <2> QED
    BY <2>4 DEF s, t, u
<1>8. ASSUME NEW a, NEW b, NEW c, NEW d
      PROVE  <<a>> \o <<b, c, d>> = <<a, b, c, d>>
  <2> DEFINE S == {a, b, c, d}
             s == <<a>>
             t == <<b, c, d>>
             u == <<a, b, c, d>>
             m == 1
             n == 3
  <2>1. s \in Seq(S) /\ t \in Seq(S) /\ u \in Seq(S)
    OBVIOUS
  <2>2. m \in Nat /\ n \in Nat /\ Len(s) = m /\ Len(t) = n /\ Len(u) = m + n
    OBVIOUS
  <2>3. \A i \in 1..(m + n) : u[i] = IF i <= m THEN s[i] ELSE t[i - m]
    OBVIOUS
  <2> HIDE DEF S, s, t, u, m, n
  <2>4. s \o t = u
    BY <2>1, <2>2, <2>3, JoinedIs
  <2> QED
    BY <2>4 DEF s, t, u
<1> QED
  BY <1>1, <1>2, <1>3, <1>4, <1>5, <1>6, <1>7, <1>8

\* The paths and keys that are put together, written out.
LEMMA PathsAndKeys ==
    /\ \A i, j :
          /\ Client!RecordingPath(i, j) = <<"workspaces", i, "recordings", j>>
          /\ Client!DocumentPath(i, j) = <<"workspaces", i, "documents", j>>
          /\ Client!recordingKeysDetail(i, j) = <<"recordings", "detail", i, j>>
          /\ Client!documentKeysDetail(i, j) = <<"documents", "detail", i, j>>
          /\ Client!documentKeysConfirmations(i, j) =
               <<"documents", "detail", i, j, "confirmations">>
    /\ \A i : Client!OfWorkspace(i) = <<"workspaces", i>>
BY Joined DEF Client!RecordingPath, Client!DocumentPath, Client!OfWorkspace,
   Client!recordingKeysDetail, Client!recordingKeysAll, Client!documentKeysDetail,
   Client!documentKeysConfirmations

\* The paths below one of a workspace, of a recording, or of a document.
LEMMA PathsBelow ==
    /\ \A i, a : Client!OfWorkspace(i) \o <<a>> = <<"workspaces", i, a>>
    /\ \A i, a, b : Client!OfWorkspace(i) \o <<a, b>> = <<"workspaces", i, a, b>>
    /\ \A i, a, b, c : Client!OfWorkspace(i) \o <<a, b, c>> = <<"workspaces", i, a, b, c>>
    /\ \A i, j, a : /\ Client!RecordingPath(i, j) \o <<a>> = <<"workspaces", i, "recordings", j, a>>
                    /\ Client!DocumentPath(i, j) \o <<a>> = <<"workspaces", i, "documents", j, a>>
    /\ \A i, j, a, b :
          Client!DocumentPath(i, j) \o <<a, b>> = <<"workspaces", i, "documents", j, a, b>>
<1>1. /\ \A i, a : Client!OfWorkspace(i) \o <<a>> = <<"workspaces", i, a>>
      /\ \A i, a, b : Client!OfWorkspace(i) \o <<a, b>> = <<"workspaces", i, a, b>>
      /\ \A i, a, b, c : Client!OfWorkspace(i) \o <<a, b, c>> = <<"workspaces", i, a, b, c>>
  BY Joined DEF Client!OfWorkspace
<1>2. ASSUME NEW i, NEW j, NEW a
      PROVE  /\ Client!RecordingPath(i, j) \o <<a>> = <<"workspaces", i, "recordings", j, a>>
             /\ Client!DocumentPath(i, j) \o <<a>> = <<"workspaces", i, "documents", j, a>>
  <2>1. /\ Client!RecordingPath(i, j) = <<"workspaces", i, "recordings", j>>
        /\ Client!DocumentPath(i, j) = <<"workspaces", i, "documents", j>>
    BY PathsAndKeys
  <2> QED
    BY <2>1, Joined
<1>3. ASSUME NEW i, NEW j, NEW a, NEW b
      PROVE  Client!DocumentPath(i, j) \o <<a, b>> = <<"workspaces", i, "documents", j, a, b>>
  <2>1. Client!DocumentPath(i, j) = <<"workspaces", i, "documents", j>>
    BY PathsAndKeys
  <2> QED
    BY <2>1, Joined
<1> QED
  BY <1>1, <1>2, <1>3

\* The hooks one by one.
LEMMA QueryHooksAre ==
    ASSUME NEW q \in Client!QueryHooks
    PROVE  \/ q = Client!useMeQuery
           \/ \E e \in BOOLEAN : q = Client!useWorkspacesQuery(e)
           \/ \E i \in ApiIds : \/ q = Client!useWorkspaceQuery(i)
                                \/ q = Client!useWorkspaceInvitationQuery(i)
                                \/ q = Client!useDocumentsQuery(i)
                                \/ q = Client!useChatSessionsQuery(i)
                                \/ q = Client!useChatMessagesQuery(i)
                                \/ q = Client!useNotionConnectionQuery(i)
                                \/ q = Client!useNotionImportStatusQuery(i)
                                \/ q = Client!useNotionPageTreeQuery(i)
                                \/ \E e \in BOOLEAN : q = Client!useInvitationPreviewQuery(i, e)
           \/ \E i \in ApiIds, j \in ApiIds :
                 \/ q = Client!useRecordingQuery(i, j)
                 \/ q = Client!useDocumentQuery(i, j)
                 \/ q = Client!useDocumentConfirmationsQuery(i, j)
                 \/ \E e \in BOOLEAN : q = Client!useDocumentsByRecordingQuery(i, j, e)
<1>1. \/ q = Client!useMeQuery
      \/ q \in {Client!useWorkspacesQuery(enabled) : enabled \in BOOLEAN}
      \/ \E i \in ApiIds : q \in Client!QueryHooksOf(i)
      \/ \E i \in ApiIds, j \in ApiIds : q \in Client!QueryHooksOfBoth(i, j)
  BY DEF Client!QueryHooks
<1>2. CASE \E i \in ApiIds : q \in Client!QueryHooksOf(i)
  BY <1>2, Zenon DEF Client!QueryHooksOf
<1>3. CASE \E i \in ApiIds, j \in ApiIds : q \in Client!QueryHooksOfBoth(i, j)
  BY <1>3, Zenon DEF Client!QueryHooksOfBoth
<1> QED
  BY <1>1, <1>2, <1>3, Zenon

\* The mutations, hook by hook.
LEMMA MutationHooksAre ==
    ASSUME NEW m \in Client!MutationHooks
    PROVE  \/ m = Client!usePostNicknameMutation({"nickname"})
           \/ m = Client!useCreateWorkspaceMutation({"name"})
           \/ m = Client!useUpdateLastViewedWorkspaceMutation({"workspaceId"})
           \/ m = Client!useAcceptInvitationMutation({"credential"})
           \/ \E i \in ApiIds : m \in Client!MutationHooksOf(i)
           \/ \E i \in ApiIds, j \in ApiIds : m \in Client!MutationHooksOfBoth(i, j)
BY DEF Client!MutationHooks

\* The request whose answers the entry of key k holds.
RequestOf(k) ==
    CASE k[1] = "auth" -> Client!getMeApi
      [] k[1] = "workspaces" ->
           IF k[2] = "list" THEN Client!getWorkspacesApi ELSE Client!getWorkspaceApi(k[3])
      [] k[1] = "workspaceInvitations" ->
           IF k[2] = "active" THEN Client!issueWorkspaceInvitationApi(k[3])
           ELSE Client!getInvitationPreviewApi(k[3])
      [] k[1] = "recordings" -> Client!getRecordingApi(k[3], k[4])
      [] k[1] = "documents" ->
           IF k[2] = "list"
           THEN Client!getDocumentsApi(k[3], IF k[4] = Client!Undefined THEN {"size", "cursor"}
                                             ELSE {"size", "cursor", "recordingSessionId"})
           ELSE IF Len(k) = 4 THEN Client!getDocumentApi(k[3], k[4])
                ELSE Client!getDocumentConfirmationsApi(k[3], k[4])
      [] k[1] = "chat" ->
           IF k[2] = "sessions" THEN Client!getChatSessionsApi(k[3])
           ELSE Client!getChatMessagesApi(k[3])
      [] k[1] = "notionConnection" -> Client!getNotionConnectionApi(k[3])
      [] k[1] = "notionImports" -> Client!getNotionImportStatusApi(k[3])
      [] k[1] = "notionPages" -> Client!getNotionPageTreeApi(k[3])

\* A query hook has its own key and the request that this stands for.
LEMMA KeysDecide == \A q \in Client!QueryHooks : q.request = RequestOf(q.key)
<1> SUFFICES ASSUME NEW q \in Client!QueryHooks PROVE q.request = RequestOf(q.key)
  OBVIOUS
<1> DEFINE Goal == q.request = RequestOf(q.key)
<1> USE DEF RequestOf, Client!Query, Client!If, Client!NotOnFocus, Client!Polling
<1>0. Client!Undefined \notin ApiIds
  BY FrontendAssumption DEF Client!QueryClientAssumption
<1>1. ASSUME q = Client!useMeQuery PROVE Goal
  BY <1>1 DEF Client!useMeQuery, Client!authKeysMe
<1>2. ASSUME NEW e \in BOOLEAN, q = Client!useWorkspacesQuery(e) PROVE Goal
  BY <1>2 DEF Client!useWorkspacesQuery, Client!workspaceKeysList
<1>3. ASSUME NEW i \in ApiIds, q = Client!useWorkspaceQuery(i) PROVE Goal
  BY <1>3 DEF Client!useWorkspaceQuery, Client!workspaceKeysDetail
<1>4. ASSUME NEW i \in ApiIds, q = Client!useWorkspaceInvitationQuery(i) PROVE Goal
  BY <1>4 DEF Client!useWorkspaceInvitationQuery, Client!workspaceInvitationKeysActive
<1>5. ASSUME NEW i \in ApiIds, q = Client!useDocumentsQuery(i) PROVE Goal
  BY <1>5 DEF Client!useDocumentsQuery, Client!documentKeysList
<1>6. ASSUME NEW i \in ApiIds, q = Client!useChatSessionsQuery(i) PROVE Goal
  BY <1>6 DEF Client!useChatSessionsQuery, Client!chatKeysSessions
<1>7. ASSUME NEW i \in ApiIds, q = Client!useChatMessagesQuery(i) PROVE Goal
  BY <1>7 DEF Client!useChatMessagesQuery, Client!chatKeysMessages
<1>8. ASSUME NEW i \in ApiIds, q = Client!useNotionConnectionQuery(i) PROVE Goal
  BY <1>8 DEF Client!useNotionConnectionQuery, Client!notionConnectionKeysDetail
<1>9. ASSUME NEW i \in ApiIds, q = Client!useNotionImportStatusQuery(i) PROVE Goal
  BY <1>9 DEF Client!useNotionImportStatusQuery, Client!notionImportKeysDetail
<1>10. ASSUME NEW i \in ApiIds, q = Client!useNotionPageTreeQuery(i) PROVE Goal
  BY <1>10 DEF Client!useNotionPageTreeQuery, Client!notionPageKeysTree
<1>11. ASSUME NEW i \in ApiIds, NEW e \in BOOLEAN, q = Client!useInvitationPreviewQuery(i, e)
       PROVE  Goal
  BY <1>11 DEF Client!useInvitationPreviewQuery, Client!workspaceInvitationKeysPreview
<1>12. ASSUME NEW i \in ApiIds, NEW j \in ApiIds, q = Client!useRecordingQuery(i, j) PROVE Goal
  BY <1>12, PathsAndKeys DEF Client!useRecordingQuery
<1>13. ASSUME NEW i \in ApiIds, NEW j \in ApiIds, q = Client!useDocumentQuery(i, j) PROVE Goal
  BY <1>13, PathsAndKeys DEF Client!useDocumentQuery
<1>14. ASSUME NEW i \in ApiIds, NEW j \in ApiIds, q = Client!useDocumentConfirmationsQuery(i, j)
       PROVE  Goal
  BY <1>14, PathsAndKeys DEF Client!useDocumentConfirmationsQuery
<1>15. ASSUME NEW i \in ApiIds, NEW j \in ApiIds, NEW e \in BOOLEAN,
              q = Client!useDocumentsByRecordingQuery(i, j, e)
       PROVE  Goal
  BY <1>0, <1>15 DEF Client!useDocumentsByRecordingQuery, Client!documentKeysList
<1> HIDE DEF Goal
<1> QED
  <2> SUFFICES Goal
    BY DEF Goal
  <2> QED
    BY <1>1, <1>2, <1>3, <1>4, <1>5, <1>6, <1>7, <1>8, <1>9, <1>10, <1>11, <1>12, <1>13, <1>14,
       <1>15,
       QueryHooksAre

-----------------------------------------------------------------------------
(* Fields and patterns *)

\* What is read of an answer that has more.
LEMMA FieldsGrow ==
    ASSUME NEW A, NEW B, A \subseteq B
    PROVE  Client!Fields(A) \subseteq Client!Fields(B)
BY DEF Client!Fields

\* Two answers read together.
LEMMA FieldsTogether ==
    \A A, B : Client!Fields(A) \cup Client!Fields(B) = Client!Fields(A \cup B)
BY DEF Client!Fields

\* The same below a field.
LEMMA WithinGrows ==
    ASSUME NEW n, NEW A, NEW B, A \subseteq B
    PROVE  Client!Within(n, A) \subseteq Client!Within(n, B)
BY DEF Client!Within

\* A request meets its contract when one endpoint takes it.
LEMMA FitsAt ==
    ASSUME NEW e \in Client!Endpoints, NEW r, e.method = r.method,
           Len(e.path) = Len(r.path),
           \A i \in DOMAIN r.path : e.path[i] = Client!Any \/ e.path[i] = r.path[i],
           e.requires \subseteq r.body, r.reads \subseteq e.answers
    PROVE  Client!Fits(r)
<1>1. Client!Matches(e.path, r.path)
  BY DEF Client!Matches
<1> QED
  BY <1>1 DEF Client!Fits, Client!Handlers

\* The patterns that are put together, written out.
LEMMA Patterns ==
    /\ Client!InWorkspace(<<>>) = <<"workspaces", Client!Any>>
    /\ \A a : /\ Client!InWorkspace(<<a>>) = <<"workspaces", Client!Any, a>>
              /\ Client!OfRecording(<<a>>) = <<"workspaces", Client!Any, "recordings", Client!Any, a>>
              /\ Client!OfDocument(<<a>>) = <<"workspaces", Client!Any, "documents", Client!Any, a>>
    /\ Client!OfRecording(<<>>) = <<"workspaces", Client!Any, "recordings", Client!Any>>
    /\ Client!OfDocument(<<>>) = <<"workspaces", Client!Any, "documents", Client!Any>>
    /\ \A a, b : Client!OfDocument(<<a, b>>) =
                   <<"workspaces", Client!Any, "documents", Client!Any, a, b>>
    /\ \A a, b, c : Client!InWorkspace(<<a, b, c>>) = <<"workspaces", Client!Any, a, b, c>>
<1>1. /\ Client!InWorkspace(<<>>) = <<"workspaces", Client!Any>>
      /\ \A a : Client!InWorkspace(<<a>>) = <<"workspaces", Client!Any, a>>
      /\ \A a, b : Client!InWorkspace(<<a, b>>) = <<"workspaces", Client!Any, a, b>>
      /\ \A a, b, c : Client!InWorkspace(<<a, b, c>>) = <<"workspaces", Client!Any, a, b, c>>
      /\ \A a, b, c, d : Client!InWorkspace(<<a, b, c, d>>) = <<"workspaces", Client!Any, a, b, c, d>>
  BY Joined, Zenon DEF Client!InWorkspace
<1>2. \A n : /\ <<n, Client!Any>> \o <<>> = <<n, Client!Any>>
             /\ \A a : <<n, Client!Any>> \o <<a>> = <<n, Client!Any, a>>
             /\ \A a, b : <<n, Client!Any>> \o <<a, b>> = <<n, Client!Any, a, b>>
  BY Joined, Zenon
<1>3. /\ Client!OfRecording(<<>>) = <<"workspaces", Client!Any, "recordings", Client!Any>>
      /\ \A a : Client!OfRecording(<<a>>) = <<"workspaces", Client!Any, "recordings", Client!Any, a>>
  <2>1. Client!OfRecording(<<>>) = <<"workspaces", Client!Any, "recordings", Client!Any>>
    <3>1. <<"recordings", Client!Any>> \o <<>> = <<"recordings", Client!Any>>
      BY <1>2
    <3>2. Client!InWorkspace(<<"recordings", Client!Any>>) = <<"workspaces", Client!Any, "recordings", Client!Any>>
      BY <1>1
    <3> QED
      BY <3>1, <3>2 DEF Client!OfRecording
  <2>2. \A a : Client!OfRecording(<<a>>) = <<"workspaces", Client!Any, "recordings", Client!Any, a>>
    <3> TAKE a
    <3>1. <<"recordings", Client!Any>> \o <<a>> = <<"recordings", Client!Any, a>>
      BY <1>2
    <3>2. Client!InWorkspace(<<"recordings", Client!Any, a>>) = <<"workspaces", Client!Any, "recordings", Client!Any, a>>
      BY <1>1
    <3> QED
      BY <3>1, <3>2 DEF Client!OfRecording
  <2> QED
    BY <2>1, <2>2
<1>4. /\ Client!OfDocument(<<>>) = <<"workspaces", Client!Any, "documents", Client!Any>>
      /\ \A a : Client!OfDocument(<<a>>) = <<"workspaces", Client!Any, "documents", Client!Any, a>>
      /\ \A a, b : Client!OfDocument(<<a, b>>) = <<"workspaces", Client!Any, "documents", Client!Any, a, b>>
  <2>1. Client!OfDocument(<<>>) = <<"workspaces", Client!Any, "documents", Client!Any>>
    <3>1. <<"documents", Client!Any>> \o <<>> = <<"documents", Client!Any>>
      BY <1>2
    <3>2. Client!InWorkspace(<<"documents", Client!Any>>) = <<"workspaces", Client!Any, "documents", Client!Any>>
      BY <1>1
    <3> QED
      BY <3>1, <3>2 DEF Client!OfDocument
  <2>2. \A a : Client!OfDocument(<<a>>) = <<"workspaces", Client!Any, "documents", Client!Any, a>>
    <3> TAKE a
    <3>1. <<"documents", Client!Any>> \o <<a>> = <<"documents", Client!Any, a>>
      BY <1>2
    <3>2. Client!InWorkspace(<<"documents", Client!Any, a>>) = <<"workspaces", Client!Any, "documents", Client!Any, a>>
      BY <1>1
    <3> QED
      BY <3>1, <3>2 DEF Client!OfDocument
  <2>3. \A a, b : Client!OfDocument(<<a, b>>) = <<"workspaces", Client!Any, "documents", Client!Any, a, b>>
    <3> TAKE a, b
    <3>1. <<"documents", Client!Any>> \o <<a, b>> = <<"documents", Client!Any, a, b>>
      BY <1>2
    <3>2. Client!InWorkspace(<<"documents", Client!Any, a, b>>) = <<"workspaces", Client!Any, "documents", Client!Any, a, b>>
      BY <1>1
    <3> QED
      BY <3>1, <3>2 DEF Client!OfDocument
  <2> QED
    BY <2>1, <2>2, <2>3
<1> QED
  BY <1>1, <1>3, <1>4, Zenon

-----------------------------------------------------------------------------
(* Requests and the contract *)

\* Every request of a hook with an endpoint of its own meets the contract.
LEMMA ServedRequests ==
    /\ Client!Fits(Client!getMeApi)
    /\ Client!Fits(Client!completeNicknameApi({"nickname"}))
    /\ Client!Fits(Client!getWorkspacesApi)
    /\ Client!Fits(Client!createWorkspaceApi({"name"}))
    /\ Client!Fits(Client!updateLastViewedWorkspaceApi({"workspaceId"}))
    /\ Client!Fits(Client!acceptInvitationApi({"credential"}))
    /\ \A i : Client!Fits(Client!getWorkspaceApi(i))
    /\ \A i : Client!Fits(Client!issueWorkspaceInvitationApi(i))
    /\ \A i : Client!Fits(Client!getInvitationPreviewApi(i))
    /\ \A i : Client!Fits(Client!startRecordingApi(i, {"requestId", "tabId", "controlToken"}))
    /\ \A i, j : Client!Fits(Client!pauseRecordingApi(i, j, {"tabId", "controlToken"}))
    /\ \A i, j : Client!Fits(Client!resumeRecordingApi(i, j, {"tabId", "controlToken"}))
    /\ \A i, j : Client!Fits(Client!issueRecordingAudioUploadUrlApi(i, j, {"contentType", "contentLength"}))
    /\ \A i, j : Client!Fits(Client!completeRecordingAudioUploadApi(i, j, {"uploadId"}))
    /\ \A i, p : Client!Fits(Client!getDocumentsApi(i, p))
    /\ \A i, j : Client!Fits(Client!getDocumentApi(i, j))
    /\ \A i, j : Client!Fits(Client!getDocumentConfirmationsApi(i, j))
    /\ \A i, j : Client!Fits(Client!confirmDocumentApi(i, j))
    /\ \A i, j : Client!Fits(Client!retryDocumentGenerationJobApi(i, j))
<1>1. Client!Fits(Client!getMeApi)
  <2> DEFINE r == Client!getMeApi
             e == Client!Endpoint("get", <<"auth", "me">>, {},
                   Client!Fields({"memberId", "nickname", "profileImageUrl"}))
  <2>1. e \in Client!Endpoints
    BY DEF Client!Endpoints, Client!AuthController
  <2>2. r.method = "get" /\ r.path = <<"auth", "me">>
    BY PathsAndKeys, PathsBelow DEF Client!getMeApi, Client!Get, Client!Post, Client!Put,
       Client!Request
  <2>3. r.reads \subseteq e.answers
    BY DEF Client!getMeApi, Client!Get, Client!Post, Client!Put, Client!Request, Client!Endpoint,
           Client!GetMeResponseDto
  <2>4. e.requires \subseteq r.body
    BY DEF Client!getMeApi, Client!Get, Client!Post, Client!Put, Client!Request, Client!Endpoint
  <2>5. e.method = "get" /\ e.path = <<"auth", "me">>
    BY Patterns DEF Client!Endpoint
  <2> HIDE DEF r, e
  <2>6. /\ Len(e.path) = Len(r.path)
        /\ \A n \in DOMAIN r.path : e.path[n] = Client!Any \/ e.path[n] = r.path[n]
    BY <2>2, <2>5
  <2>7. Client!Fits(r)
    BY <2>1, <2>2, <2>3, <2>4, <2>5, <2>6, FitsAt
  <2> QED
    BY <2>7 DEF r
<1>2. Client!Fits(Client!completeNicknameApi({"nickname"}))
  <2> DEFINE r == Client!completeNicknameApi({"nickname"})
             e == Client!Endpoint("post", <<"auth", "nickname">>, {"nickname"},
                   {})
  <2>1. e \in Client!Endpoints
    BY DEF Client!Endpoints, Client!AuthController
  <2>2. r.method = "post" /\ r.path = <<"auth", "nickname">>
    BY PathsAndKeys, PathsBelow DEF Client!completeNicknameApi, Client!Get, Client!Post, Client!Put,
       Client!Request
  <2>3. r.reads \subseteq e.answers
    BY DEF Client!completeNicknameApi, Client!Get, Client!Post, Client!Put, Client!Request,
           Client!Endpoint
  <2>4. e.requires \subseteq r.body
    BY DEF Client!completeNicknameApi, Client!Get, Client!Post, Client!Put, Client!Request,
           Client!Endpoint
  <2>5. e.method = "post" /\ e.path = <<"auth", "nickname">>
    BY Patterns DEF Client!Endpoint
  <2> HIDE DEF r, e
  <2>6. /\ Len(e.path) = Len(r.path)
        /\ \A n \in DOMAIN r.path : e.path[n] = Client!Any \/ e.path[n] = r.path[n]
    BY <2>2, <2>5
  <2>7. Client!Fits(r)
    BY <2>1, <2>2, <2>3, <2>4, <2>5, <2>6, FitsAt
  <2> QED
    BY <2>7 DEF r
<1>3. Client!Fits(Client!getWorkspacesApi)
  <2> DEFINE r == Client!getWorkspacesApi
             e == Client!Endpoint("get", <<"workspaces">>, {},
                   Client!Fields({"lastViewedWorkspaceId"}) \cup Client!Within("workspaces", Client!Fields({"id", "name"})))
  <2>1. e \in Client!Endpoints
    BY DEF Client!Endpoints, Client!WorkspaceControllers
  <2>2. r.method = "get" /\ r.path = <<"workspaces">>
    BY PathsAndKeys, PathsBelow DEF Client!getWorkspacesApi, Client!Get, Client!Post, Client!Put,
       Client!Request
  <2>3. r.reads \subseteq e.answers
    BY DEF Client!getWorkspacesApi, Client!Get, Client!Post, Client!Put, Client!Request,
           Client!Endpoint, Client!GetWorkspacesResponseDto, Client!WorkspaceListItemDto
  <2>4. e.requires \subseteq r.body
    BY DEF Client!getWorkspacesApi, Client!Get, Client!Post, Client!Put, Client!Request,
           Client!Endpoint
  <2>5. e.method = "get" /\ e.path = <<"workspaces">>
    BY Patterns DEF Client!Endpoint
  <2> HIDE DEF r, e
  <2>6. /\ Len(e.path) = Len(r.path)
        /\ \A n \in DOMAIN r.path : e.path[n] = Client!Any \/ e.path[n] = r.path[n]
    BY <2>2, <2>5
  <2>7. Client!Fits(r)
    BY <2>1, <2>2, <2>3, <2>4, <2>5, <2>6, FitsAt
  <2> QED
    BY <2>7 DEF r
<1>4. Client!Fits(Client!createWorkspaceApi({"name"}))
  <2> DEFINE r == Client!createWorkspaceApi({"name"})
             e == Client!Endpoint("post", <<"workspaces">>, {"name"},
                   Client!Fields({"id"}))
  <2>1. e \in Client!Endpoints
    BY DEF Client!Endpoints, Client!WorkspaceControllers
  <2>2. r.method = "post" /\ r.path = <<"workspaces">>
    BY PathsAndKeys, PathsBelow DEF Client!createWorkspaceApi, Client!Get, Client!Post, Client!Put,
       Client!Request
  <2>3. r.reads \subseteq e.answers
    BY DEF Client!createWorkspaceApi, Client!Get, Client!Post, Client!Put, Client!Request,
           Client!Endpoint, Client!PostWorkspaceResponseDto
  <2>4. e.requires \subseteq r.body
    BY DEF Client!createWorkspaceApi, Client!Get, Client!Post, Client!Put, Client!Request,
           Client!Endpoint
  <2>5. e.method = "post" /\ e.path = <<"workspaces">>
    BY Patterns DEF Client!Endpoint
  <2> HIDE DEF r, e
  <2>6. /\ Len(e.path) = Len(r.path)
        /\ \A n \in DOMAIN r.path : e.path[n] = Client!Any \/ e.path[n] = r.path[n]
    BY <2>2, <2>5
  <2>7. Client!Fits(r)
    BY <2>1, <2>2, <2>3, <2>4, <2>5, <2>6, FitsAt
  <2> QED
    BY <2>7 DEF r
<1>5. Client!Fits(Client!updateLastViewedWorkspaceApi({"workspaceId"}))
  <2> DEFINE r == Client!updateLastViewedWorkspaceApi({"workspaceId"})
             e == Client!Endpoint("put", <<"members", "me", "last-viewed-workspace">>, {"workspaceId"},
                   {})
  <2>1. e \in Client!Endpoints
    BY DEF Client!Endpoints, Client!WorkspaceControllers
  <2>2. r.method = "put" /\ r.path = <<"members", "me", "last-viewed-workspace">>
    BY PathsAndKeys, PathsBelow DEF Client!updateLastViewedWorkspaceApi, Client!Get, Client!Post,
       Client!Put, Client!Request
  <2>3. r.reads \subseteq e.answers
    BY DEF Client!updateLastViewedWorkspaceApi, Client!Get, Client!Post, Client!Put, Client!Request,
           Client!Endpoint
  <2>4. e.requires \subseteq r.body
    BY DEF Client!updateLastViewedWorkspaceApi, Client!Get, Client!Post, Client!Put, Client!Request,
           Client!Endpoint
  <2>5. e.method = "put" /\ e.path = <<"members", "me", "last-viewed-workspace">>
    BY Patterns DEF Client!Endpoint
  <2> HIDE DEF r, e
  <2>6. /\ Len(e.path) = Len(r.path)
        /\ \A n \in DOMAIN r.path : e.path[n] = Client!Any \/ e.path[n] = r.path[n]
    BY <2>2, <2>5
  <2>7. Client!Fits(r)
    BY <2>1, <2>2, <2>3, <2>4, <2>5, <2>6, FitsAt
  <2> QED
    BY <2>7 DEF r
<1>6. Client!Fits(Client!acceptInvitationApi({"credential"}))
  <2> DEFINE r == Client!acceptInvitationApi({"credential"})
             e == Client!Endpoint("post", <<"invitations", "accept">>, {"credential"},
                   Client!Fields({"workspaceId", "workspaceName"}))
  <2>1. e \in Client!Endpoints
    BY DEF Client!Endpoints, Client!InvitationControllers
  <2>2. r.method = "post" /\ r.path = <<"invitations", "accept">>
    BY PathsAndKeys, PathsBelow DEF Client!acceptInvitationApi, Client!Get, Client!Post, Client!Put,
       Client!Request
  <2>3. r.reads \subseteq e.answers
    BY DEF Client!acceptInvitationApi, Client!Get, Client!Post, Client!Put, Client!Request,
           Client!Endpoint, Client!PostInvitationAcceptResponseDto
  <2>4. e.requires \subseteq r.body
    BY DEF Client!acceptInvitationApi, Client!Get, Client!Post, Client!Put, Client!Request,
           Client!Endpoint
  <2>5. e.method = "post" /\ e.path = <<"invitations", "accept">>
    BY Patterns DEF Client!Endpoint
  <2> HIDE DEF r, e
  <2>6. /\ Len(e.path) = Len(r.path)
        /\ \A n \in DOMAIN r.path : e.path[n] = Client!Any \/ e.path[n] = r.path[n]
    BY <2>2, <2>5
  <2>7. Client!Fits(r)
    BY <2>1, <2>2, <2>3, <2>4, <2>5, <2>6, FitsAt
  <2> QED
    BY <2>7 DEF r
<1>7. \A i : Client!Fits(Client!getWorkspaceApi(i))
  <2> TAKE i
  <2> DEFINE r == Client!getWorkspaceApi(i)
             e == Client!Endpoint("get", Client!InWorkspace(<<>>), {},
                   Client!Fields({"name", "myRole", "activeMemberCount"}))
  <2>1. e \in Client!Endpoints
    BY DEF Client!Endpoints, Client!WorkspaceControllers
  <2>2. r.method = "get" /\ r.path = <<"workspaces", i>>
    BY PathsAndKeys, PathsBelow DEF Client!getWorkspaceApi, Client!Get, Client!Post, Client!Put,
       Client!Request
  <2>3. r.reads \subseteq e.answers
    BY FieldsGrow DEF Client!getWorkspaceApi, Client!Get, Client!Post, Client!Put, Client!Request,
       Client!Endpoint, Client!GetWorkspaceResponseDto
  <2>4. e.requires \subseteq r.body
    BY DEF Client!getWorkspaceApi, Client!Get, Client!Post, Client!Put, Client!Request,
           Client!Endpoint
  <2>5. e.method = "get" /\ e.path = <<"workspaces", Client!Any>>
    BY Patterns DEF Client!Endpoint
  <2> HIDE DEF r, e
  <2>6. /\ Len(e.path) = Len(r.path)
        /\ \A n \in DOMAIN r.path : e.path[n] = Client!Any \/ e.path[n] = r.path[n]
    BY <2>2, <2>5
  <2>7. Client!Fits(r)
    BY <2>1, <2>2, <2>3, <2>4, <2>5, <2>6, FitsAt
  <2> QED
    BY <2>7 DEF r
<1>8. \A i : Client!Fits(Client!issueWorkspaceInvitationApi(i))
  <2> TAKE i
  <2> DEFINE r == Client!issueWorkspaceInvitationApi(i)
             e == Client!Endpoint("post", Client!InWorkspace(<<"invitations">>), {},
                   Client!Fields({"code", "linkToken", "expiresAt"}))
  <2>1. e \in Client!Endpoints
    BY DEF Client!Endpoints, Client!InvitationControllers
  <2>2. r.method = "post" /\ r.path = <<"workspaces", i, "invitations">>
    BY PathsAndKeys, PathsBelow DEF Client!issueWorkspaceInvitationApi, Client!Get, Client!Post,
       Client!Put, Client!Request
  <2>3. r.reads \subseteq e.answers
    BY DEF Client!issueWorkspaceInvitationApi, Client!Get, Client!Post, Client!Put, Client!Request,
           Client!Endpoint, Client!PostWorkspaceInvitationResponseDto, Client!WorkspaceInvitationDto
  <2>4. e.requires \subseteq r.body
    BY DEF Client!issueWorkspaceInvitationApi, Client!Get, Client!Post, Client!Put, Client!Request,
           Client!Endpoint
  <2>5. e.method = "post" /\ e.path = <<"workspaces", Client!Any, "invitations">>
    BY Patterns DEF Client!Endpoint
  <2> HIDE DEF r, e
  <2>6. /\ Len(e.path) = Len(r.path)
        /\ \A n \in DOMAIN r.path : e.path[n] = Client!Any \/ e.path[n] = r.path[n]
    BY <2>2, <2>5
  <2>7. Client!Fits(r)
    BY <2>1, <2>2, <2>3, <2>4, <2>5, <2>6, FitsAt
  <2> QED
    BY <2>7 DEF r
<1>9. \A i : Client!Fits(Client!getInvitationPreviewApi(i))
  <2> TAKE i
  <2> DEFINE r == Client!getInvitationPreviewApi(i)
             e == Client!Endpoint("get", <<"invitations", Client!Any>>, {},
                   Client!Fields({"workspaceId", "workspaceName"}))
  <2>1. e \in Client!Endpoints
    BY DEF Client!Endpoints, Client!InvitationControllers
  <2>2. r.method = "get" /\ r.path = <<"invitations", i>>
    BY PathsAndKeys, PathsBelow DEF Client!getInvitationPreviewApi, Client!Get, Client!Post,
       Client!Put, Client!Request
  <2>3. r.reads \subseteq e.answers
    BY DEF Client!getInvitationPreviewApi, Client!Get, Client!Post, Client!Put, Client!Request,
           Client!Endpoint, Client!GetInvitationPreviewResponseDto
  <2>4. e.requires \subseteq r.body
    BY DEF Client!getInvitationPreviewApi, Client!Get, Client!Post, Client!Put, Client!Request,
           Client!Endpoint
  <2>5. e.method = "get" /\ e.path = <<"invitations", Client!Any>>
    BY Patterns DEF Client!Endpoint
  <2> HIDE DEF r, e
  <2>6. /\ Len(e.path) = Len(r.path)
        /\ \A n \in DOMAIN r.path : e.path[n] = Client!Any \/ e.path[n] = r.path[n]
    BY <2>2, <2>5
  <2>7. Client!Fits(r)
    BY <2>1, <2>2, <2>3, <2>4, <2>5, <2>6, FitsAt
  <2> QED
    BY <2>7 DEF r
<1>10. \A i : Client!Fits(Client!startRecordingApi(i, {"requestId", "tabId", "controlToken"}))
  <2> TAKE i
  <2> DEFINE r == Client!startRecordingApi(i, {"requestId", "tabId", "controlToken"})
             e == Client!Endpoint("post", Client!InWorkspace(<<"recordings">>), {"requestId"} \cup Client!RecordingControlRequest,
                   Client!Fields({"recordingId", "status", "startedAt"}))
  <2>1. e \in Client!Endpoints
    BY DEF Client!Endpoints, Client!RecordingControllers
  <2>2. r.method = "post" /\ r.path = <<"workspaces", i, "recordings">>
    BY PathsAndKeys, PathsBelow DEF Client!startRecordingApi, Client!Get, Client!Post, Client!Put,
       Client!Request
  <2>3. r.reads \subseteq e.answers
    BY DEF Client!startRecordingApi, Client!Get, Client!Post, Client!Put, Client!Request,
           Client!Endpoint, Client!PostRecordingResponseDto
  <2>4. e.requires \subseteq r.body
    BY DEF Client!startRecordingApi, Client!Get, Client!Post, Client!Put, Client!Request,
           Client!Endpoint, Client!RecordingControlRequest
  <2>5. e.method = "post" /\ e.path = <<"workspaces", Client!Any, "recordings">>
    BY Patterns DEF Client!Endpoint
  <2> HIDE DEF r, e
  <2>6. /\ Len(e.path) = Len(r.path)
        /\ \A n \in DOMAIN r.path : e.path[n] = Client!Any \/ e.path[n] = r.path[n]
    BY <2>2, <2>5
  <2>7. Client!Fits(r)
    BY <2>1, <2>2, <2>3, <2>4, <2>5, <2>6, FitsAt
  <2> QED
    BY <2>7 DEF r
<1>11. \A i, j : Client!Fits(Client!pauseRecordingApi(i, j, {"tabId", "controlToken"}))
  <2> TAKE i, j
  <2> DEFINE r == Client!pauseRecordingApi(i, j, {"tabId", "controlToken"})
             e == Client!Endpoint("post", Client!OfRecording(<<"pause">>), Client!RecordingControlRequest,
                   Client!Fields({"recordingId", "status", "pausedAt", "elapsedMillis"}))
  <2>1. e \in Client!Endpoints
    BY DEF Client!Endpoints, Client!RecordingControllers
  <2>2. r.method = "post" /\ r.path = <<"workspaces", i, "recordings", j, "pause">>
    BY PathsAndKeys, PathsBelow DEF Client!pauseRecordingApi, Client!Get, Client!Post, Client!Put,
       Client!Request
  <2>3. r.reads \subseteq e.answers
    BY DEF Client!pauseRecordingApi, Client!Get, Client!Post, Client!Put, Client!Request,
           Client!Endpoint, Client!PostRecordingPauseResponseDto
  <2>4. e.requires \subseteq r.body
    BY DEF Client!pauseRecordingApi, Client!Get, Client!Post, Client!Put, Client!Request,
           Client!Endpoint, Client!RecordingControlRequest
  <2>5. /\ e.method = "post"
        /\ e.path = <<"workspaces", Client!Any, "recordings", Client!Any, "pause">>
    BY Patterns DEF Client!Endpoint
  <2> HIDE DEF r, e
  <2>6. /\ Len(e.path) = Len(r.path)
        /\ \A n \in DOMAIN r.path : e.path[n] = Client!Any \/ e.path[n] = r.path[n]
    BY <2>2, <2>5
  <2>7. Client!Fits(r)
    BY <2>1, <2>2, <2>3, <2>4, <2>5, <2>6, FitsAt
  <2> QED
    BY <2>7 DEF r
<1>12. \A i, j : Client!Fits(Client!resumeRecordingApi(i, j, {"tabId", "controlToken"}))
  <2> TAKE i, j
  <2> DEFINE r == Client!resumeRecordingApi(i, j, {"tabId", "controlToken"})
             e == Client!Endpoint("post", Client!OfRecording(<<"resume">>), Client!RecordingControlRequest,
                   Client!Fields({"recordingId", "status", "resumedAt", "elapsedMillis"}))
  <2>1. e \in Client!Endpoints
    BY DEF Client!Endpoints, Client!RecordingControllers
  <2>2. r.method = "post" /\ r.path = <<"workspaces", i, "recordings", j, "resume">>
    BY PathsAndKeys, PathsBelow DEF Client!resumeRecordingApi, Client!Get, Client!Post, Client!Put,
       Client!Request
  <2>3. r.reads \subseteq e.answers
    BY DEF Client!resumeRecordingApi, Client!Get, Client!Post, Client!Put, Client!Request,
           Client!Endpoint, Client!PostRecordingResumeResponseDto
  <2>4. e.requires \subseteq r.body
    BY DEF Client!resumeRecordingApi, Client!Get, Client!Post, Client!Put, Client!Request,
           Client!Endpoint, Client!RecordingControlRequest
  <2>5. /\ e.method = "post"
        /\ e.path = <<"workspaces", Client!Any, "recordings", Client!Any, "resume">>
    BY Patterns DEF Client!Endpoint
  <2> HIDE DEF r, e
  <2>6. /\ Len(e.path) = Len(r.path)
        /\ \A n \in DOMAIN r.path : e.path[n] = Client!Any \/ e.path[n] = r.path[n]
    BY <2>2, <2>5
  <2>7. Client!Fits(r)
    BY <2>1, <2>2, <2>3, <2>4, <2>5, <2>6, FitsAt
  <2> QED
    BY <2>7 DEF r
<1>13. \A i, j : Client!Fits(Client!issueRecordingAudioUploadUrlApi(i, j, {"contentType", "contentLength"}))
  <2> TAKE i, j
  <2> DEFINE r == Client!issueRecordingAudioUploadUrlApi(i, j, {"contentType", "contentLength"})
             e == Client!Endpoint("post", Client!OfRecording(<<"audio-upload-url">>), {"contentType", "contentLength"},
                   Client!Fields({"uploadId", "uploadUrl", "expiresAt"}))
  <2>1. e \in Client!Endpoints
    BY DEF Client!Endpoints, Client!RecordingControllers
  <2>2. r.method = "post" /\ r.path = <<"workspaces", i, "recordings", j, "audio-upload-url">>
    BY PathsAndKeys, PathsBelow DEF Client!issueRecordingAudioUploadUrlApi, Client!Get, Client!Post,
       Client!Put, Client!Request
  <2>3. r.reads \subseteq e.answers
    BY DEF Client!issueRecordingAudioUploadUrlApi, Client!Get, Client!Post, Client!Put,
           Client!Request, Client!Endpoint, Client!PostRecordingAudioUploadUrlResponseDto
  <2>4. e.requires \subseteq r.body
    BY DEF Client!issueRecordingAudioUploadUrlApi, Client!Get, Client!Post, Client!Put,
           Client!Request, Client!Endpoint
  <2>5. /\ e.method = "post"
        /\ e.path = <<"workspaces", Client!Any, "recordings", Client!Any, "audio-upload-url">>
    BY Patterns DEF Client!Endpoint
  <2> HIDE DEF r, e
  <2>6. /\ Len(e.path) = Len(r.path)
        /\ \A n \in DOMAIN r.path : e.path[n] = Client!Any \/ e.path[n] = r.path[n]
    BY <2>2, <2>5
  <2>7. Client!Fits(r)
    BY <2>1, <2>2, <2>3, <2>4, <2>5, <2>6, FitsAt
  <2> QED
    BY <2>7 DEF r
<1>14. \A i, j : Client!Fits(Client!completeRecordingAudioUploadApi(i, j, {"uploadId"}))
  <2> TAKE i, j
  <2> DEFINE r == Client!completeRecordingAudioUploadApi(i, j, {"uploadId"})
             e == Client!Endpoint("post", Client!OfRecording(<<"audio-upload-complete">>), {"uploadId"},
                   Client!Fields({"recordingId", "uploadId", "uploadStatus", "completedAt"}))
  <2>1. e \in Client!Endpoints
    BY DEF Client!Endpoints, Client!RecordingControllers
  <2>2. r.method = "post" /\ r.path = <<"workspaces", i, "recordings", j, "audio-upload-complete">>
    BY PathsAndKeys, PathsBelow DEF Client!completeRecordingAudioUploadApi, Client!Get, Client!Post,
       Client!Put, Client!Request
  <2>3. r.reads \subseteq e.answers
    BY DEF Client!completeRecordingAudioUploadApi, Client!Get, Client!Post, Client!Put,
           Client!Request, Client!Endpoint, Client!PostRecordingAudioUploadCompleteResponseDto
  <2>4. e.requires \subseteq r.body
    BY DEF Client!completeRecordingAudioUploadApi, Client!Get, Client!Post, Client!Put,
           Client!Request, Client!Endpoint
  <2>5. /\ e.method = "post"
        /\ e.path = <<"workspaces", Client!Any, "recordings", Client!Any, "audio-upload-complete">>
    BY Patterns DEF Client!Endpoint
  <2> HIDE DEF r, e
  <2>6. /\ Len(e.path) = Len(r.path)
        /\ \A n \in DOMAIN r.path : e.path[n] = Client!Any \/ e.path[n] = r.path[n]
    BY <2>2, <2>5
  <2>7. Client!Fits(r)
    BY <2>1, <2>2, <2>3, <2>4, <2>5, <2>6, FitsAt
  <2> QED
    BY <2>7 DEF r
<1>15. \A i, p : Client!Fits(Client!getDocumentsApi(i, p))
  <2> TAKE i, p
  <2> DEFINE r == Client!getDocumentsApi(i, p)
             e == Client!Endpoint("get", Client!InWorkspace(<<"documents">>), {},
                   Client!Within("topics", Client!Fields({"topic", "documentCount"}))
                     \cup Client!Within("items", Client!DocumentCard) \cup Client!Fields({"nextCursor"}))
  <2>1. e \in Client!Endpoints
    BY DEF Client!Endpoints, Client!DocumentControllers
  <2>2. r.method = "get" /\ r.path = <<"workspaces", i, "documents">>
    BY PathsAndKeys, PathsBelow DEF Client!getDocumentsApi, Client!Get, Client!Post, Client!Put,
       Client!Request
  <2>3. r.reads \subseteq e.answers
    <3>1. Client!DocumentListItemDto = Client!DocumentCard
      BY DEF Client!DocumentListItemDto, Client!DocumentCard, Client!ConfirmationSummaryDto,
         Client!ConfirmationSummary
    <3> QED
      BY <3>1 DEF Client!getDocumentsApi, Client!Get, Client!Post, Client!Put, Client!Request,
         Client!Endpoint, Client!GetDocumentsResponseDto, Client!DocumentTopicDto
  <2>4. e.requires \subseteq r.body
    BY DEF Client!getDocumentsApi, Client!Get, Client!Post, Client!Put, Client!Request,
           Client!Endpoint
  <2>5. e.method = "get" /\ e.path = <<"workspaces", Client!Any, "documents">>
    BY Patterns DEF Client!Endpoint
  <2> HIDE DEF r, e
  <2>6. /\ Len(e.path) = Len(r.path)
        /\ \A n \in DOMAIN r.path : e.path[n] = Client!Any \/ e.path[n] = r.path[n]
    BY <2>2, <2>5
  <2>7. Client!Fits(r)
    BY <2>1, <2>2, <2>3, <2>4, <2>5, <2>6, FitsAt
  <2> QED
    BY <2>7 DEF r
<1>16. \A i, j : Client!Fits(Client!getDocumentApi(i, j))
  <2> TAKE i, j
  <2> DEFINE r == Client!getDocumentApi(i, j)
             e == Client!Endpoint("get", Client!OfDocument(<<>>), {},
                   Client!DocumentCard \cup Client!Fields({"content", "archivedAt", "sourceTranscriptId"}))
  <2>1. e \in Client!Endpoints
    BY DEF Client!Endpoints, Client!DocumentControllers
  <2>2. r.method = "get" /\ r.path = <<"workspaces", i, "documents", j>>
    BY PathsAndKeys, PathsBelow DEF Client!getDocumentApi, Client!Get, Client!Post, Client!Put,
       Client!Request
  <2>3. r.reads \subseteq e.answers
    <3> DEFINE card == {"id", "recordingSessionId", "topic", "title", "summary", "status", "createdAt",
                        "recordingDurationSeconds", "myConfirmationState"}
               more == {"content", "archivedAt", "sourceTranscriptId"}
               read == {"id", "recordingSessionId", "topic", "title", "summary", "content", "status",
                        "createdAt", "archivedAt", "recordingDurationSeconds", "sourceTranscriptId",
                        "myConfirmationState"}
               summary == Client!Within("confirmationSummary", Client!ConfirmationSummary)
    <3>1. read \subseteq card \cup more
      OBVIOUS
    <3>2. r.reads = Client!Fields(read) \cup summary
      BY DEF Client!getDocumentApi, Client!Get, Client!Post, Client!Put, Client!Request,
             Client!Endpoint, Client!GetDocumentResponseDto, Client!ConfirmationSummaryDto,
             Client!ConfirmationSummary
    <3>3. e.answers = Client!Fields(card) \cup summary \cup Client!Fields(more)
      BY DEF Client!Endpoint, Client!DocumentCard
    <3> HIDE DEF card, more, read, summary, r, e
    <3>4. Client!Fields(read) \subseteq Client!Fields(card) \cup Client!Fields(more)
      BY <3>1, FieldsGrow, FieldsTogether
    <3> QED
      BY <3>2, <3>3, <3>4
  <2>4. e.requires \subseteq r.body
    BY DEF Client!getDocumentApi, Client!Get, Client!Post, Client!Put, Client!Request,
           Client!Endpoint
  <2>5. e.method = "get" /\ e.path = <<"workspaces", Client!Any, "documents", Client!Any>>
    BY Patterns DEF Client!Endpoint
  <2> HIDE DEF r, e
  <2>6. /\ Len(e.path) = Len(r.path)
        /\ \A n \in DOMAIN r.path : e.path[n] = Client!Any \/ e.path[n] = r.path[n]
    BY <2>2, <2>5
  <2>7. Client!Fits(r)
    BY <2>1, <2>2, <2>3, <2>4, <2>5, <2>6, FitsAt
  <2> QED
    BY <2>7 DEF r
<1>17. \A i, j : Client!Fits(Client!getDocumentConfirmationsApi(i, j))
  <2> TAKE i, j
  <2> DEFINE r == Client!getDocumentConfirmationsApi(i, j)
             e == Client!Endpoint("get", Client!OfDocument(<<"confirmations">>), {},
                   Client!Fields({"documentId", "confirmedByMe", "nextCursor"}) \cup Client!ConfirmationSummary
                     \cup Client!Within("items", Client!Fields({"memberId", "nickname", "profileImageUrl", "confirmedAt", "state"})))
  <2>1. e \in Client!Endpoints
    BY DEF Client!Endpoints, Client!DocumentControllers
  <2>2. r.method = "get" /\ r.path = <<"workspaces", i, "documents", j, "confirmations">>
    BY PathsAndKeys, PathsBelow DEF Client!getDocumentConfirmationsApi, Client!Get, Client!Post,
       Client!Put, Client!Request
  <2>3. r.reads \subseteq e.answers
    <3>1. Client!Fields({"documentId", "nextCursor"}) \subseteq
            Client!Fields({"documentId", "confirmedByMe", "nextCursor"})
      BY FieldsGrow
    <3> QED
      BY <3>1 DEF Client!getDocumentConfirmationsApi, Client!Get, Client!Post, Client!Put,
         Client!Request, Client!Endpoint, Client!GetDocumentConfirmationsResponseDto,
         Client!DocumentConfirmationItemDto,
         Client!ConfirmationSummaryDto, Client!ConfirmationSummary
  <2>4. e.requires \subseteq r.body
    BY DEF Client!getDocumentConfirmationsApi, Client!Get, Client!Post, Client!Put, Client!Request,
           Client!Endpoint
  <2>5. /\ e.method = "get"
        /\ e.path = <<"workspaces", Client!Any, "documents", Client!Any, "confirmations">>
    BY Patterns DEF Client!Endpoint
  <2> HIDE DEF r, e
  <2>6. /\ Len(e.path) = Len(r.path)
        /\ \A n \in DOMAIN r.path : e.path[n] = Client!Any \/ e.path[n] = r.path[n]
    BY <2>2, <2>5
  <2>7. Client!Fits(r)
    BY <2>1, <2>2, <2>3, <2>4, <2>5, <2>6, FitsAt
  <2> QED
    BY <2>7 DEF r
<1>18. \A i, j : Client!Fits(Client!confirmDocumentApi(i, j))
  <2> TAKE i, j
  <2> DEFINE r == Client!confirmDocumentApi(i, j)
             e == Client!Endpoint("put", Client!OfDocument(<<"confirmations", "me">>), {},
                   Client!Fields({"documentId", "confirmedAt", "documentStatus", "archivedAt"})
                     \cup Client!Within("confirmationSummary", Client!ConfirmationSummary))
  <2>1. e \in Client!Endpoints
    BY DEF Client!Endpoints, Client!DocumentControllers
  <2>2. r.method = "put" /\ r.path = <<"workspaces", i, "documents", j, "confirmations", "me">>
    BY PathsAndKeys, PathsBelow DEF Client!confirmDocumentApi, Client!Get, Client!Post, Client!Put,
       Client!Request
  <2>3. r.reads \subseteq e.answers
    BY DEF Client!confirmDocumentApi, Client!Get, Client!Post, Client!Put, Client!Request,
           Client!Endpoint, Client!PutDocumentConfirmationResponseDto,
           Client!ConfirmationSummaryDto, Client!ConfirmationSummary
  <2>4. e.requires \subseteq r.body
    BY DEF Client!confirmDocumentApi, Client!Get, Client!Post, Client!Put, Client!Request,
           Client!Endpoint
  <2>5. /\ e.method = "put"
        /\ e.path = <<"workspaces", Client!Any, "documents", Client!Any, "confirmations", "me">>
    BY Patterns DEF Client!Endpoint
  <2> HIDE DEF r, e
  <2>6. /\ Len(e.path) = Len(r.path)
        /\ \A n \in DOMAIN r.path : e.path[n] = Client!Any \/ e.path[n] = r.path[n]
    BY <2>2, <2>5
  <2>7. Client!Fits(r)
    BY <2>1, <2>2, <2>3, <2>4, <2>5, <2>6, FitsAt
  <2> QED
    BY <2>7 DEF r
<1>19. \A i, j : Client!Fits(Client!retryDocumentGenerationJobApi(i, j))
  <2> TAKE i, j
  <2> DEFINE r == Client!retryDocumentGenerationJobApi(i, j)
             e == Client!Endpoint("post", Client!InWorkspace(<<"document-generation-jobs", Client!Any, "retry">>), {},
                   Client!Fields({"jobId", "status", "attemptCount"}))
  <2>1. e \in Client!Endpoints
    BY DEF Client!Endpoints, Client!DocumentControllers
  <2>2. r.method = "post" /\ r.path = <<"workspaces", i, "document-generation-jobs", j, "retry">>
    BY PathsAndKeys, PathsBelow DEF Client!retryDocumentGenerationJobApi, Client!Get, Client!Post,
       Client!Put, Client!Request
  <2>3. r.reads \subseteq e.answers
    BY DEF Client!retryDocumentGenerationJobApi, Client!Get, Client!Post, Client!Put,
           Client!Request, Client!Endpoint, Client!PostDocumentGenerationJobRetryResponseDto
  <2>4. e.requires \subseteq r.body
    BY DEF Client!retryDocumentGenerationJobApi, Client!Get, Client!Post, Client!Put,
           Client!Request, Client!Endpoint
  <2>5. /\ e.method = "post"
        /\ e.path = <<"workspaces", Client!Any, "document-generation-jobs", Client!Any, "retry">>
    BY Patterns DEF Client!Endpoint
  <2> HIDE DEF r, e
  <2>6. /\ Len(e.path) = Len(r.path)
        /\ \A n \in DOMAIN r.path : e.path[n] = Client!Any \/ e.path[n] = r.path[n]
    BY <2>2, <2>5
  <2>7. Client!Fits(r)
    BY <2>1, <2>2, <2>3, <2>4, <2>5, <2>6, FitsAt
  <2> QED
    BY <2>7 DEF r
<1> QED
  BY <1>1, <1>2, <1>3, <1>4, <1>5, <1>6, <1>7, <1>8, <1>9, <1>10, <1>11, <1>12, <1>13, <1>14, <1>15,
     <1>16, <1>17, <1>18, <1>19, Zenon

\* The requests that are not this server's.
LEMMA RequestsElsewhere ==
    /\ \A i, j : Client!ClientOnly(Client!getRecordingApi(i, j))
    /\ \A i : /\ Client!ClientOnly(Client!getChatSessionsApi(i))
              /\ Client!ClientOnly(Client!createChatSessionApi(i, {"title"}))
              /\ Client!ClientOnly(Client!getChatMessagesApi(i))
              /\ Client!ClientOnly(Client!startNotionOAuthApi(i))
              /\ Client!ClientOnly(Client!getNotionConnectionApi(i))
              /\ Client!ClientOnly(Client!startNotionImportApi(i))
              /\ Client!ClientOnly(Client!getNotionImportStatusApi(i))
              /\ Client!ClientOnly(Client!getNotionPageTreeApi(i))
              /\ Client!ClientOnly(Client!uploadRecordingAudioApi(i))
<1> DEFINE elsewhere == {"conversations", "imports", "notion-connection",
                         "notion-oauth-authorizations", "notion-pages", "storage"}
<1> USE DEF Client!Get, Client!Post, Client!Put, Client!Request
<1>1. ASSUME NEW r, NEW n \in DOMAIN r.path, r.path[n] \in elsewhere
      PROVE  Client!ClientOnly(r)
  BY <1>1 DEF Client!ClientOnly
<1>2. ASSUME NEW i, NEW j PROVE Client!ClientOnly(Client!getRecordingApi(i, j))
  <2> DEFINE r == Client!getRecordingApi(i, j)
             pattern == Client!OfRecording(<<>>)
  <2>1. r.method = "get" /\ r.path = <<"workspaces", i, "recordings", j>>
    BY PathsAndKeys DEF Client!getRecordingApi
  <2>2. pattern = <<"workspaces", Client!Any, "recordings", Client!Any>>
    BY Patterns
  <2> HIDE DEF r, pattern
  <2>3. Client!Matches(pattern, r.path)
    BY <2>1, <2>2 DEF Client!Matches
  <2> QED
    BY <2>1, <2>3 DEF Client!ClientOnly, r, pattern
<1>3. ASSUME NEW i PROVE Client!ClientOnly(Client!getChatSessionsApi(i))
  <2>1. Client!getChatSessionsApi(i).path = <<"workspaces", i, "conversations">>
    BY PathsBelow DEF Client!getChatSessionsApi
  <2> QED
    BY <1>1, <2>1
<1>4. ASSUME NEW i PROVE Client!ClientOnly(Client!createChatSessionApi(i, {"title"}))
  <2>1. Client!createChatSessionApi(i, {"title"}).path = <<"workspaces", i, "conversations">>
    BY PathsBelow DEF Client!createChatSessionApi
  <2> QED
    BY <1>1, <2>1
<1>5. ASSUME NEW i PROVE Client!ClientOnly(Client!getChatMessagesApi(i))
  <2>1. Client!getChatMessagesApi(i).path = <<"conversations", i>>
    BY PathsBelow DEF Client!getChatMessagesApi
  <2> QED
    BY <1>1, <2>1
<1>6. ASSUME NEW i PROVE Client!ClientOnly(Client!startNotionOAuthApi(i))
  <2>1. Client!startNotionOAuthApi(i).path = <<"workspaces", i, "notion-oauth-authorizations">>
    BY PathsBelow DEF Client!startNotionOAuthApi
  <2> QED
    BY <1>1, <2>1
<1>7. ASSUME NEW i PROVE Client!ClientOnly(Client!getNotionConnectionApi(i))
  <2>1. Client!getNotionConnectionApi(i).path = <<"workspaces", i, "notion-connection">>
    BY PathsBelow DEF Client!getNotionConnectionApi
  <2> QED
    BY <1>1, <2>1
<1>8. ASSUME NEW i PROVE Client!ClientOnly(Client!startNotionImportApi(i))
  <2>1. Client!startNotionImportApi(i).path = <<"workspaces", i, "imports">>
    BY PathsBelow DEF Client!startNotionImportApi
  <2> QED
    BY <1>1, <2>1
<1>9. ASSUME NEW i PROVE Client!ClientOnly(Client!getNotionImportStatusApi(i))
  <2>1. Client!getNotionImportStatusApi(i).path = <<"imports", i>>
    BY PathsBelow DEF Client!getNotionImportStatusApi
  <2> QED
    BY <1>1, <2>1
<1>10. ASSUME NEW i PROVE Client!ClientOnly(Client!getNotionPageTreeApi(i))
  <2>1. Client!getNotionPageTreeApi(i).path = <<"workspaces", i, "notion-pages", "tree">>
    BY PathsBelow DEF Client!getNotionPageTreeApi
  <2> QED
    BY <1>1, <2>1
<1>11. ASSUME NEW i PROVE Client!ClientOnly(Client!uploadRecordingAudioApi(i))
  <2>1. Client!uploadRecordingAudioApi(i).path = <<"storage", i>>
    BY PathsBelow DEF Client!uploadRecordingAudioApi
  <2> QED
    BY <1>1, <2>1
<1> QED
  BY <1>2, <1>3, <1>4, <1>5, <1>6, <1>7, <1>8, <1>9, <1>10, <1>11, Zenon

\* The end of a recording lacks nothing but the proof of control.
LEMMA EndsAwaitTheirProof ==
    \A i, j : Client!AwaitsItsProof(Client!endRecordingApi(i, j))
<1> TAKE i, j
<1> DEFINE s == Client!endRecordingApi(i, j)
           r == [s EXCEPT !.body = @ \cup Client!RecordingControlRequest]
           e == Client!Endpoint("post", Client!OfRecording(<<"end">>), Client!RecordingControlRequest,
                                Client!Fields({"recordingId", "status", "endedAt"}))
           pattern == Client!OfRecording(<<"end">>)
<1>1. e \in Client!Endpoints
  BY DEF Client!Endpoints, Client!RecordingControllers
<1>2. s.method = "post" /\ s.path = <<"workspaces", i, "recordings", j, "end">>
  BY PathsBelow DEF Client!endRecordingApi, Client!Post, Client!Request
<1>3. r.method = s.method /\ r.path = s.path
  BY DEF Client!endRecordingApi, Client!Post, Client!Request
<1>4. e.requires \subseteq r.body /\ r.reads \subseteq e.answers
  BY DEF Client!endRecordingApi, Client!Post, Client!Request, Client!Endpoint,
     Client!PostRecordingEndResponseDto
<1>5. /\ e.method = "post" /\ e.path = pattern
      /\ pattern = <<"workspaces", Client!Any, "recordings", Client!Any, "end">>
  BY Patterns DEF Client!Endpoint
<1>d. Client!AwaitsItsProof(s) <=>
          s.method = "post" /\ Client!Matches(pattern, s.path) /\ Client!Fits(r)
  BY DEF Client!AwaitsItsProof
<1> HIDE DEF s, r, e, pattern
<1>6. /\ Len(e.path) = Len(r.path)
      /\ \A n \in DOMAIN r.path : e.path[n] = Client!Any \/ e.path[n] = r.path[n]
  BY <1>2, <1>3, <1>5
<1>7. Client!Fits(r)
  BY <1>1, <1>2, <1>3, <1>4, <1>5, <1>6, FitsAt
<1>8. Client!Matches(pattern, s.path)
  BY <1>2, <1>5 DEF Client!Matches
<1>9. Client!AwaitsItsProof(s)
  BY <1>d, <1>2, <1>7, <1>8
<1> QED
  BY <1>9 DEF s

\* The hooks' requests, but for the end of a recording, whose proof of control the
\* client does not send.
LEMMA HooksMeetContract ==
    /\ \A q \in Client!QueryHooks : Client!Fits(q.request) \/ Client!ClientOnly(q.request)
    /\ \A m \in Client!MutationHooks :
          (\A i, j \in ApiIds : m # Client!useEndRecordingMutation(i, j))
            => Client!Fits(m.request) \/ Client!ClientOnly(m.request)
<1> DEFINE Good(r) == Client!Fits(r) \/ Client!ClientOnly(r)
<1> USE DEF Client!Query, Client!If, Client!NotOnFocus, Client!Polling
<1>1. ASSUME NEW q \in Client!QueryHooks PROVE Good(q.request)
  <2>1. ASSUME q = Client!useMeQuery PROVE Good(q.request)
    <3>1. q.request = Client!getMeApi
      BY <2>1 DEF Client!useMeQuery
    <3> QED
      BY <3>1, ServedRequests, RequestsElsewhere, Zenon
  <2>2. ASSUME NEW e \in BOOLEAN, q = Client!useWorkspacesQuery(e) PROVE Good(q.request)
    <3>1. q.request = Client!getWorkspacesApi
      BY <2>2 DEF Client!useWorkspacesQuery
    <3> QED
      BY <3>1, ServedRequests, RequestsElsewhere, Zenon
  <2>3. ASSUME NEW i \in ApiIds, q = Client!useWorkspaceQuery(i) PROVE Good(q.request)
    <3>1. q.request = Client!getWorkspaceApi(i)
      BY <2>3 DEF Client!useWorkspaceQuery
    <3> QED
      BY <3>1, ServedRequests, RequestsElsewhere, Zenon
  <2>4. ASSUME NEW i \in ApiIds, q = Client!useWorkspaceInvitationQuery(i) PROVE Good(q.request)
    <3>1. q.request = Client!issueWorkspaceInvitationApi(i)
      BY <2>4 DEF Client!useWorkspaceInvitationQuery
    <3> QED
      BY <3>1, ServedRequests, RequestsElsewhere, Zenon
  <2>5. ASSUME NEW i \in ApiIds, q = Client!useDocumentsQuery(i) PROVE Good(q.request)
    <3>1. q.request = Client!getDocumentsApi(i, {"size", "cursor"})
      BY <2>5 DEF Client!useDocumentsQuery
    <3> QED
      BY <3>1, ServedRequests, RequestsElsewhere, Zenon
  <2>6. ASSUME NEW i \in ApiIds, q = Client!useChatSessionsQuery(i) PROVE Good(q.request)
    <3>1. q.request = Client!getChatSessionsApi(i)
      BY <2>6 DEF Client!useChatSessionsQuery
    <3> QED
      BY <3>1, ServedRequests, RequestsElsewhere, Zenon
  <2>7. ASSUME NEW i \in ApiIds, q = Client!useChatMessagesQuery(i) PROVE Good(q.request)
    <3>1. q.request = Client!getChatMessagesApi(i)
      BY <2>7 DEF Client!useChatMessagesQuery
    <3> QED
      BY <3>1, ServedRequests, RequestsElsewhere, Zenon
  <2>8. ASSUME NEW i \in ApiIds, q = Client!useNotionConnectionQuery(i) PROVE Good(q.request)
    <3>1. q.request = Client!getNotionConnectionApi(i)
      BY <2>8 DEF Client!useNotionConnectionQuery
    <3> QED
      BY <3>1, ServedRequests, RequestsElsewhere, Zenon
  <2>9. ASSUME NEW i \in ApiIds, q = Client!useNotionImportStatusQuery(i) PROVE Good(q.request)
    <3>1. q.request = Client!getNotionImportStatusApi(i)
      BY <2>9 DEF Client!useNotionImportStatusQuery
    <3> QED
      BY <3>1, ServedRequests, RequestsElsewhere, Zenon
  <2>10. ASSUME NEW i \in ApiIds, q = Client!useNotionPageTreeQuery(i) PROVE Good(q.request)
    <3>1. q.request = Client!getNotionPageTreeApi(i)
      BY <2>10 DEF Client!useNotionPageTreeQuery
    <3> QED
      BY <3>1, ServedRequests, RequestsElsewhere, Zenon
  <2>11. ASSUME NEW i \in ApiIds, NEW e \in BOOLEAN, q = Client!useInvitationPreviewQuery(i, e)
         PROVE  Good(q.request)
    <3>1. q.request = Client!getInvitationPreviewApi(i)
      BY <2>11 DEF Client!useInvitationPreviewQuery
    <3> QED
      BY <3>1, ServedRequests, RequestsElsewhere, Zenon
  <2>12. ASSUME NEW i \in ApiIds, NEW j \in ApiIds, q = Client!useRecordingQuery(i, j)
         PROVE  Good(q.request)
    <3>1. q.request = Client!getRecordingApi(i, j)
      BY <2>12 DEF Client!useRecordingQuery
    <3> QED
      BY <3>1, ServedRequests, RequestsElsewhere, Zenon
  <2>13. ASSUME NEW i \in ApiIds, NEW j \in ApiIds, q = Client!useDocumentQuery(i, j)
         PROVE  Good(q.request)
    <3>1. q.request = Client!getDocumentApi(i, j)
      BY <2>13 DEF Client!useDocumentQuery
    <3> QED
      BY <3>1, ServedRequests, RequestsElsewhere, Zenon
  <2>14. ASSUME NEW i \in ApiIds, NEW j \in ApiIds, q = Client!useDocumentConfirmationsQuery(i, j)
         PROVE  Good(q.request)
    <3>1. q.request = Client!getDocumentConfirmationsApi(i, j)
      BY <2>14 DEF Client!useDocumentConfirmationsQuery
    <3> QED
      BY <3>1, ServedRequests, RequestsElsewhere, Zenon
  <2>15. ASSUME NEW i \in ApiIds, NEW j \in ApiIds, NEW e \in BOOLEAN, q = Client!useDocumentsByRecordingQuery(i, j, e)
         PROVE  Good(q.request)
    <3>1. q.request = Client!getDocumentsApi(i, {"size", "cursor", "recordingSessionId"})
      BY <2>15 DEF Client!useDocumentsByRecordingQuery
    <3> QED
      BY <3>1, ServedRequests, RequestsElsewhere, Zenon
  <2> HIDE DEF Good
  <2> QED
    BY <2>1, <2>2, <2>3, <2>4, <2>5, <2>6, <2>7, <2>8, <2>9, <2>10, <2>11, <2>12, <2>13, <2>14,
       <2>15, QueryHooksAre, Zenon
<1>2. ASSUME NEW m \in Client!MutationHooks, \A i,
             j \in ApiIds : m # Client!useEndRecordingMutation(i, j)
      PROVE  Good(m.request)
  <2> USE DEF Client!Mutation, Client!Invalidating, Client!AlsoOnConflict, Client!Kept
  <2>1. ASSUME m = Client!usePostNicknameMutation({"nickname"})
        PROVE  Good(m.request)
    <3>1. Client!PostNicknameRequestDto({"nickname"}) = {"nickname"}
      BY DEF Client!PostNicknameRequestDto
    <3>2. m.request = Client!completeNicknameApi({"nickname"})
      BY <2>1, <3>1 DEF Client!usePostNicknameMutation
    <3> QED
      BY <3>2, ServedRequests, RequestsElsewhere, Zenon
  <2>2. ASSUME m = Client!useCreateWorkspaceMutation({"name"})
        PROVE  Good(m.request)
    <3>1. Client!PostWorkspaceRequestDto({"name"}) = {"name"}
      BY DEF Client!PostWorkspaceRequestDto
    <3>2. m.request = Client!createWorkspaceApi({"name"})
      BY <2>2, <3>1 DEF Client!useCreateWorkspaceMutation
    <3> QED
      BY <3>2, ServedRequests, RequestsElsewhere, Zenon
  <2>3. ASSUME m = Client!useUpdateLastViewedWorkspaceMutation({"workspaceId"})
        PROVE  Good(m.request)
    <3>1. Client!PutLastViewedWorkspaceRequestDto({"workspaceId"}) = {"workspaceId"}
      BY DEF Client!PutLastViewedWorkspaceRequestDto
    <3>2. m.request = Client!updateLastViewedWorkspaceApi({"workspaceId"})
      BY <2>3, <3>1 DEF Client!useUpdateLastViewedWorkspaceMutation
    <3> QED
      BY <3>2, ServedRequests, RequestsElsewhere, Zenon
  <2>4. ASSUME m = Client!useAcceptInvitationMutation({"credential"})
        PROVE  Good(m.request)
    <3>1. Client!PostInvitationAcceptRequestDto({"credential"}) = {"credential"}
      BY DEF Client!PostInvitationAcceptRequestDto
    <3>2. m.request = Client!acceptInvitationApi({"credential"})
      BY <2>4, <3>1 DEF Client!useAcceptInvitationMutation
    <3> QED
      BY <3>2, ServedRequests, RequestsElsewhere, Zenon
  <2>5. ASSUME NEW i \in ApiIds, m = Client!useStartRecordingMutation(i,
               {"requestId"} \cup Client!ProofOfControl)
        PROVE  Good(m.request)
    <3>1. Client!PostRecordingRequestDto({"requestId"} \cup Client!ProofOfControl) = {"requestId", "tabId", "controlToken"}
      BY DEF Client!PostRecordingRequestDto, Client!ProofOfControl
    <3>2. m.request = Client!startRecordingApi(i, {"requestId", "tabId", "controlToken"})
      BY <2>5, <3>1 DEF Client!useStartRecordingMutation
    <3> QED
      BY <3>2, ServedRequests, RequestsElsewhere, Zenon
  <2>6. ASSUME NEW i \in ApiIds, m = Client!useUploadRecordingAudioMutation(i)
        PROVE  Good(m.request)
    <3>1. TRUE
      OBVIOUS
    <3>2. m.request = Client!uploadRecordingAudioApi(i)
      BY <2>6, <3>1 DEF Client!useUploadRecordingAudioMutation
    <3> QED
      BY <3>2, ServedRequests, RequestsElsewhere, Zenon
  <2>7. ASSUME NEW i \in ApiIds, m = Client!useCreateChatSessionMutation(i, {"title"})
        PROVE  Good(m.request)
    <3>1. Client!PostChatSessionRequestDto({"title"}) = {"title"}
      BY DEF Client!PostChatSessionRequestDto
    <3>2. m.request = Client!createChatSessionApi(i, {"title"})
      BY <2>7, <3>1 DEF Client!useCreateChatSessionMutation
    <3> QED
      BY <3>2, ServedRequests, RequestsElsewhere, Zenon
  <2>8. ASSUME NEW i \in ApiIds, m = Client!useStartNotionOAuthMutation(i)
        PROVE  Good(m.request)
    <3>1. TRUE
      OBVIOUS
    <3>2. m.request = Client!startNotionOAuthApi(i)
      BY <2>8, <3>1 DEF Client!useStartNotionOAuthMutation
    <3> QED
      BY <3>2, ServedRequests, RequestsElsewhere, Zenon
  <2>9. ASSUME NEW i \in ApiIds, m = Client!useStartNotionImportMutation(i)
        PROVE  Good(m.request)
    <3>1. TRUE
      OBVIOUS
    <3>2. m.request = Client!startNotionImportApi(i)
      BY <2>9, <3>1 DEF Client!useStartNotionImportMutation
    <3> QED
      BY <3>2, ServedRequests, RequestsElsewhere, Zenon
  <2>10. ASSUME NEW i \in ApiIds, NEW j \in ApiIds, m = Client!usePauseRecordingMutation(i, j,
                Client!ProofOfControl)
        PROVE  Good(m.request)
    <3>1. Client!PostRecordingPauseRequestDto(Client!ProofOfControl) = {"tabId", "controlToken"}
      BY DEF Client!PostRecordingPauseRequestDto, Client!ProofOfControl
    <3>2. m.request = Client!pauseRecordingApi(i, j, {"tabId", "controlToken"})
      BY <2>10, <3>1 DEF Client!usePauseRecordingMutation
    <3> QED
      BY <3>2, ServedRequests, RequestsElsewhere, Zenon
  <2>11. ASSUME NEW i \in ApiIds, NEW j \in ApiIds, m = Client!useResumeRecordingMutation(i, j,
                Client!ProofOfControl)
        PROVE  Good(m.request)
    <3>1. Client!PostRecordingResumeRequestDto(Client!ProofOfControl) = {"tabId", "controlToken"}
      BY DEF Client!PostRecordingResumeRequestDto, Client!ProofOfControl
    <3>2. m.request = Client!resumeRecordingApi(i, j, {"tabId", "controlToken"})
      BY <2>11, <3>1 DEF Client!useResumeRecordingMutation
    <3> QED
      BY <3>2, ServedRequests, RequestsElsewhere, Zenon
  <2>12. ASSUME NEW i \in ApiIds, NEW j \in ApiIds,
                m = Client!useIssueRecordingAudioUploadUrlMutation(i, j, {"contentType", "contentLength"})
        PROVE  Good(m.request)
    <3>1. Client!PostRecordingAudioUploadUrlRequestDto({"contentType", "contentLength"}) = {"contentType", "contentLength"}
      BY DEF Client!PostRecordingAudioUploadUrlRequestDto
    <3>2. m.request = Client!issueRecordingAudioUploadUrlApi(i, j, {"contentType", "contentLength"})
      BY <2>12, <3>1 DEF Client!useIssueRecordingAudioUploadUrlMutation
    <3> QED
      BY <3>2, ServedRequests, RequestsElsewhere, Zenon
  <2>13. ASSUME NEW i \in ApiIds, NEW j \in ApiIds,
                m = Client!useCompleteRecordingAudioUploadMutation(i, j, {"uploadId"})
        PROVE  Good(m.request)
    <3>1. Client!PostRecordingAudioUploadCompleteRequestDto({"uploadId"}) = {"uploadId"}
      BY DEF Client!PostRecordingAudioUploadCompleteRequestDto
    <3>2. m.request = Client!completeRecordingAudioUploadApi(i, j, {"uploadId"})
      BY <2>13, <3>1 DEF Client!useCompleteRecordingAudioUploadMutation
    <3> QED
      BY <3>2, ServedRequests, RequestsElsewhere, Zenon
  <2>14. ASSUME NEW i \in ApiIds, NEW j \in ApiIds, m = Client!useConfirmDocumentMutation(i, j)
        PROVE  Good(m.request)
    <3>1. TRUE
      OBVIOUS
    <3>2. m.request = Client!confirmDocumentApi(i, j)
      BY <2>14, <3>1 DEF Client!useConfirmDocumentMutation
    <3> QED
      BY <3>2, ServedRequests, RequestsElsewhere, Zenon
  <2>15. ASSUME NEW i \in ApiIds, NEW j \in ApiIds,
                m = Client!useRetryDocumentGenerationJobMutation(i, j)
        PROVE  Good(m.request)
    <3>1. TRUE
      OBVIOUS
    <3>2. m.request = Client!retryDocumentGenerationJobApi(i, j)
      BY <2>15, <3>1 DEF Client!useRetryDocumentGenerationJobMutation
    <3> QED
      BY <3>2, ServedRequests, RequestsElsewhere, Zenon
  <2> HIDE DEF Good
  <2>30. ASSUME NEW i \in ApiIds, m \in Client!MutationHooksOf(i) PROVE Good(m.request)
    BY <2>30, <2>5, <2>6, <2>7, <2>8, <2>9, Zenon DEF Client!MutationHooksOf
  <2>31. ASSUME NEW i \in ApiIds, NEW j \in ApiIds, m \in Client!MutationHooksOfBoth(i, j)
         PROVE  Good(m.request)
    BY <1>2, <2>31, <2>10, <2>11, <2>12, <2>13, <2>14, <2>15, Zenon DEF Client!MutationHooksOfBoth
  <2> QED
    BY <2>1, <2>2, <2>3, <2>4, <2>30, <2>31, MutationHooksAre, Zenon
<1> QED
  BY <1>1, <1>2

\* The key and the path of a query hook, written out.
LEMMA HookShapes ==
    ASSUME NEW q \in Client!QueryHooks
    PROVE  \/ q.key = <<"auth", "me">> /\ q.request.path = <<"auth", "me">>
           \/ q.key = <<"workspaces", "list">> /\ q.request.path = <<"workspaces">>
           \/ \E i \in ApiIds : q.key = <<"workspaces", "detail", i>>
                 /\ q.request.path = <<"workspaces", i>>
           \/ \E i \in ApiIds : q.key = <<"workspaceInvitations", "active", i>>
                 /\ q.request.path = <<"workspaces", i, "invitations">>
           \/ \E i \in ApiIds : q.key = <<"documents", "list", i, Client!Undefined>>
                 /\ q.request.path = <<"workspaces", i, "documents">>
           \/ \E i \in ApiIds : q.key = <<"chat", "sessions", i>>
                 /\ q.request.path = <<"workspaces", i, "conversations">>
           \/ \E i \in ApiIds : q.key = <<"chat", "messages", i>>
                 /\ q.request.path = <<"conversations", i>>
           \/ \E i \in ApiIds : q.key = <<"notionConnection", "detail", i>>
                 /\ q.request.path = <<"workspaces", i, "notion-connection">>
           \/ \E i \in ApiIds : q.key = <<"notionImports", "detail", i>>
                 /\ q.request.path = <<"imports", i>>
           \/ \E i \in ApiIds : q.key = <<"notionPages", "tree", i>>
                 /\ q.request.path = <<"workspaces", i, "notion-pages", "tree">>
           \/ \E i \in ApiIds : q.key = <<"workspaceInvitations", "preview", i>>
                 /\ q.request.path = <<"invitations", i>>
           \/ \E i \in ApiIds, j \in ApiIds : q.key = <<"recordings", "detail", i, j>>
                 /\ q.request.path = <<"workspaces", i, "recordings", j>>
           \/ \E i \in ApiIds, j \in ApiIds : q.key = <<"documents", "detail", i, j>>
                 /\ q.request.path = <<"workspaces", i, "documents", j>>
           \/ \E i \in ApiIds, j \in ApiIds : q.key = <<"documents", "detail", i, j, "confirmations">>
                 /\ q.request.path = <<"workspaces", i, "documents", j, "confirmations">>
           \/ \E i \in ApiIds, j \in ApiIds : q.key = <<"documents", "list", i, j>>
                 /\ q.request.path = <<"workspaces", i, "documents">>
<1> DEFINE Goal ==
      \/ q.key = <<"auth", "me">>
           /\ q.request.path = <<"auth", "me">>
      \/ q.key = <<"workspaces", "list">>
           /\ q.request.path = <<"workspaces">>
      \/ \E i \in ApiIds : q.key = <<"workspaces", "detail", i>>
           /\ q.request.path = <<"workspaces", i>>
      \/ \E i \in ApiIds : q.key = <<"workspaceInvitations", "active", i>>
           /\ q.request.path = <<"workspaces", i, "invitations">>
      \/ \E i \in ApiIds : q.key = <<"documents", "list", i, Client!Undefined>>
           /\ q.request.path = <<"workspaces", i, "documents">>
      \/ \E i \in ApiIds : q.key = <<"chat", "sessions", i>>
           /\ q.request.path = <<"workspaces", i, "conversations">>
      \/ \E i \in ApiIds : q.key = <<"chat", "messages", i>>
           /\ q.request.path = <<"conversations", i>>
      \/ \E i \in ApiIds : q.key = <<"notionConnection", "detail", i>>
           /\ q.request.path = <<"workspaces", i, "notion-connection">>
      \/ \E i \in ApiIds : q.key = <<"notionImports", "detail", i>>
           /\ q.request.path = <<"imports", i>>
      \/ \E i \in ApiIds : q.key = <<"notionPages", "tree", i>>
           /\ q.request.path = <<"workspaces", i, "notion-pages", "tree">>
      \/ \E i \in ApiIds : q.key = <<"workspaceInvitations", "preview", i>>
           /\ q.request.path = <<"invitations", i>>
      \/ \E i \in ApiIds, j \in ApiIds : q.key = <<"recordings", "detail", i, j>>
           /\ q.request.path = <<"workspaces", i, "recordings", j>>
      \/ \E i \in ApiIds, j \in ApiIds : q.key = <<"documents", "detail", i, j>>
           /\ q.request.path = <<"workspaces", i, "documents", j>>
      \/ \E i \in ApiIds, j \in ApiIds : q.key = <<"documents", "detail", i, j, "confirmations">>
           /\ q.request.path = <<"workspaces", i, "documents", j, "confirmations">>
      \/ \E i \in ApiIds, j \in ApiIds : q.key = <<"documents", "list", i, j>>
           /\ q.request.path = <<"workspaces", i, "documents">>
<1> USE DEF Client!Query, Client!If, Client!NotOnFocus, Client!Polling, Client!Get, Client!Post,
            Client!Request
<1>1. ASSUME q = Client!useMeQuery PROVE Goal
  <2>1. q.key = <<"auth", "me">>
    BY <1>1, PathsAndKeys DEF Client!useMeQuery, Client!authKeysMe
  <2>2. q.request.path = <<"auth", "me">>
    BY <1>1, PathsAndKeys, PathsBelow DEF Client!useMeQuery, Client!getMeApi
  <2> QED
    BY <2>1, <2>2, Zenon
<1>2. ASSUME NEW e \in BOOLEAN, q = Client!useWorkspacesQuery(e) PROVE Goal
  <2>1. q.key = <<"workspaces", "list">>
    BY <1>2, PathsAndKeys DEF Client!useWorkspacesQuery, Client!workspaceKeysList
  <2>2. q.request.path = <<"workspaces">>
    BY <1>2, PathsAndKeys, PathsBelow DEF Client!useWorkspacesQuery, Client!getWorkspacesApi
  <2> QED
    BY <2>1, <2>2, Zenon
<1>3. ASSUME NEW i \in ApiIds, q = Client!useWorkspaceQuery(i) PROVE Goal
  <2>1. q.key = <<"workspaces", "detail", i>>
    BY <1>3, PathsAndKeys DEF Client!useWorkspaceQuery, Client!workspaceKeysDetail
  <2>2. q.request.path = <<"workspaces", i>>
    BY <1>3, PathsAndKeys, PathsBelow DEF Client!useWorkspaceQuery, Client!getWorkspaceApi
  <2> QED
    BY <2>1, <2>2, Zenon
<1>4. ASSUME NEW i \in ApiIds, q = Client!useWorkspaceInvitationQuery(i) PROVE Goal
  <2>1. q.key = <<"workspaceInvitations", "active", i>>
    BY <1>4, PathsAndKeys DEF Client!useWorkspaceInvitationQuery,
       Client!workspaceInvitationKeysActive
  <2>2. q.request.path = <<"workspaces", i, "invitations">>
    BY <1>4, PathsAndKeys, PathsBelow DEF Client!useWorkspaceInvitationQuery,
       Client!issueWorkspaceInvitationApi
  <2> QED
    BY <2>1, <2>2, Zenon
<1>5. ASSUME NEW i \in ApiIds, q = Client!useDocumentsQuery(i) PROVE Goal
  <2>1. q.key = <<"documents", "list", i, Client!Undefined>>
    BY <1>5, PathsAndKeys DEF Client!useDocumentsQuery, Client!documentKeysList
  <2>2. q.request.path = <<"workspaces", i, "documents">>
    BY <1>5, PathsAndKeys, PathsBelow DEF Client!useDocumentsQuery, Client!getDocumentsApi
  <2> QED
    BY <2>1, <2>2, Zenon
<1>6. ASSUME NEW i \in ApiIds, q = Client!useChatSessionsQuery(i) PROVE Goal
  <2>1. q.key = <<"chat", "sessions", i>>
    BY <1>6, PathsAndKeys DEF Client!useChatSessionsQuery, Client!chatKeysSessions
  <2>2. q.request.path = <<"workspaces", i, "conversations">>
    BY <1>6, PathsAndKeys, PathsBelow DEF Client!useChatSessionsQuery, Client!getChatSessionsApi
  <2> QED
    BY <2>1, <2>2, Zenon
<1>7. ASSUME NEW i \in ApiIds, q = Client!useChatMessagesQuery(i) PROVE Goal
  <2>1. q.key = <<"chat", "messages", i>>
    BY <1>7, PathsAndKeys DEF Client!useChatMessagesQuery, Client!chatKeysMessages
  <2>2. q.request.path = <<"conversations", i>>
    BY <1>7, PathsAndKeys, PathsBelow DEF Client!useChatMessagesQuery, Client!getChatMessagesApi
  <2> QED
    BY <2>1, <2>2, Zenon
<1>8. ASSUME NEW i \in ApiIds, q = Client!useNotionConnectionQuery(i) PROVE Goal
  <2>1. q.key = <<"notionConnection", "detail", i>>
    BY <1>8, PathsAndKeys DEF Client!useNotionConnectionQuery, Client!notionConnectionKeysDetail
  <2>2. q.request.path = <<"workspaces", i, "notion-connection">>
    BY <1>8, PathsAndKeys, PathsBelow DEF Client!useNotionConnectionQuery,
       Client!getNotionConnectionApi
  <2> QED
    BY <2>1, <2>2, Zenon
<1>9. ASSUME NEW i \in ApiIds, q = Client!useNotionImportStatusQuery(i) PROVE Goal
  <2>1. q.key = <<"notionImports", "detail", i>>
    BY <1>9, PathsAndKeys DEF Client!useNotionImportStatusQuery, Client!notionImportKeysDetail
  <2>2. q.request.path = <<"imports", i>>
    BY <1>9, PathsAndKeys, PathsBelow DEF Client!useNotionImportStatusQuery,
       Client!getNotionImportStatusApi
  <2> QED
    BY <2>1, <2>2, Zenon
<1>10. ASSUME NEW i \in ApiIds, q = Client!useNotionPageTreeQuery(i) PROVE Goal
  <2>1. q.key = <<"notionPages", "tree", i>>
    BY <1>10, PathsAndKeys DEF Client!useNotionPageTreeQuery, Client!notionPageKeysTree
  <2>2. q.request.path = <<"workspaces", i, "notion-pages", "tree">>
    BY <1>10, PathsAndKeys, PathsBelow DEF Client!useNotionPageTreeQuery,
       Client!getNotionPageTreeApi
  <2> QED
    BY <2>1, <2>2, Zenon
<1>11. ASSUME NEW i \in ApiIds, NEW e \in BOOLEAN, q = Client!useInvitationPreviewQuery(i, e)
       PROVE  Goal
  <2>1. q.key = <<"workspaceInvitations", "preview", i>>
    BY <1>11, PathsAndKeys DEF Client!useInvitationPreviewQuery,
       Client!workspaceInvitationKeysPreview
  <2>2. q.request.path = <<"invitations", i>>
    BY <1>11, PathsAndKeys, PathsBelow DEF Client!useInvitationPreviewQuery,
       Client!getInvitationPreviewApi
  <2> QED
    BY <2>1, <2>2, Zenon
<1>12. ASSUME NEW i \in ApiIds, NEW j \in ApiIds, q = Client!useRecordingQuery(i, j) PROVE Goal
  <2>1. q.key = <<"recordings", "detail", i, j>>
    BY <1>12, PathsAndKeys DEF Client!useRecordingQuery
  <2>2. q.request.path = <<"workspaces", i, "recordings", j>>
    BY <1>12, PathsAndKeys, PathsBelow DEF Client!useRecordingQuery, Client!getRecordingApi
  <2> QED
    BY <2>1, <2>2, Zenon
<1>13. ASSUME NEW i \in ApiIds, NEW j \in ApiIds, q = Client!useDocumentQuery(i, j) PROVE Goal
  <2>1. q.key = <<"documents", "detail", i, j>>
    BY <1>13, PathsAndKeys DEF Client!useDocumentQuery
  <2>2. q.request.path = <<"workspaces", i, "documents", j>>
    BY <1>13, PathsAndKeys, PathsBelow DEF Client!useDocumentQuery, Client!getDocumentApi
  <2> QED
    BY <2>1, <2>2, Zenon
<1>14. ASSUME NEW i \in ApiIds, NEW j \in ApiIds, q = Client!useDocumentConfirmationsQuery(i, j)
       PROVE  Goal
  <2>1. q.key = <<"documents", "detail", i, j, "confirmations">>
    BY <1>14, PathsAndKeys DEF Client!useDocumentConfirmationsQuery
  <2>2. q.request.path = <<"workspaces", i, "documents", j, "confirmations">>
    <3>1. q.request.path = Client!DocumentPath(i, j) \o <<"confirmations">>
      BY <1>14 DEF Client!useDocumentConfirmationsQuery, Client!getDocumentConfirmationsApi
    <3> QED
      BY <3>1, PathsBelow
  <2> QED
    BY <2>1, <2>2, Zenon
<1>15. ASSUME NEW i \in ApiIds, NEW j \in ApiIds, NEW e \in BOOLEAN, q = Client!useDocumentsByRecordingQuery(i, j, e)
       PROVE  Goal
  <2>1. q.key = <<"documents", "list", i, j>>
    BY <1>15, PathsAndKeys DEF Client!useDocumentsByRecordingQuery, Client!documentKeysList
  <2>2. q.request.path = <<"workspaces", i, "documents">>
    BY <1>15, PathsAndKeys, PathsBelow DEF Client!useDocumentsByRecordingQuery,
       Client!getDocumentsApi
  <2> QED
    BY <2>1, <2>2, Zenon
<1> HIDE DEF Goal
<1> QED
  <2> SUFFICES Goal
    BY DEF Goal
  <2> QED
    BY <1>1, <1>2, <1>3, <1>4, <1>5, <1>6, <1>7, <1>8, <1>9, <1>10, <1>11, <1>12, <1>13, <1>14,
       <1>15, QueryHooksAre, Zenon

\* A path that a mutation changes is shown under one key.
LEMMA ShownUnder ==
    ASSUME NEW q \in Client!QueryHooks
    PROVE  /\ q.request.path = <<"workspaces">> => q.key = <<"workspaces", "list">>
           /\ \A i, j : /\ q.request.path = <<"workspaces", i, "documents", j>> =>
                             q.key = <<"documents", "detail", i, j>>
                        /\ q.request.path = <<"workspaces", i, "documents", j, "confirmations">> =>
                             q.key = <<"documents", "detail", i, j, "confirmations">>
                        /\ q.request.path = <<"workspaces", i, "recordings", j>> =>
                             q.key = <<"recordings", "detail", i, j>>
           /\ \A i : q.request.path = <<"workspaces", i, "conversations">> =>
                       q.key = <<"chat", "sessions", i>>

<1> DEFINE key == q.key
           path == q.request.path
           Goal == /\ path = <<"workspaces">> => key = <<"workspaces", "list">>
                   /\ \A i, j : /\ path = <<"workspaces", i, "documents", j>> =>
                                     key = <<"documents", "detail", i, j>>
                                /\ path = <<"workspaces", i, "documents", j, "confirmations">> =>
                                     key = <<"documents", "detail", i, j, "confirmations">>
                                /\ path = <<"workspaces", i, "recordings", j>> =>
                                     key = <<"recordings", "detail", i, j>>
                   /\ \A i : path = <<"workspaces", i, "conversations">> => key = <<"chat", "sessions", i>>
<1> HIDE DEF key, path
<1>1. ASSUME key = <<"auth", "me">>, path = <<"auth", "me">>
      PROVE  Goal
  BY <1>1
<1>2. ASSUME key = <<"workspaces", "list">>, path = <<"workspaces">>
      PROVE  Goal
  BY <1>2
<1>3. ASSUME NEW i \in ApiIds, key = <<"workspaces", "detail", i>>, path = <<"workspaces", i>>
      PROVE  Goal
  BY <1>3
<1>4. ASSUME NEW i \in ApiIds, key = <<"workspaceInvitations", "active", i>>,
             path = <<"workspaces", i, "invitations">>
      PROVE  Goal
  BY <1>4
<1>5. ASSUME NEW i \in ApiIds, key = <<"documents", "list", i, Client!Undefined>>,
             path = <<"workspaces", i, "documents">>
      PROVE  Goal
  BY <1>5
<1>6. ASSUME NEW i \in ApiIds, key = <<"chat", "sessions", i>>, path = <<"workspaces", i,
             "conversations">>
      PROVE  Goal
  BY <1>6
<1>7. ASSUME NEW i \in ApiIds, key = <<"chat", "messages", i>>, path = <<"conversations", i>>
      PROVE  Goal
  BY <1>7
<1>8. ASSUME NEW i \in ApiIds, key = <<"notionConnection", "detail", i>>, path = <<"workspaces", i,
             "notion-connection">>
      PROVE  Goal
  BY <1>8
<1>9. ASSUME NEW i \in ApiIds, key = <<"notionImports", "detail", i>>, path = <<"imports", i>>
      PROVE  Goal
  BY <1>9
<1>10. ASSUME NEW i \in ApiIds, key = <<"notionPages", "tree", i>>, path = <<"workspaces", i,
              "notion-pages", "tree">>
      PROVE  Goal
  BY <1>10
<1>11. ASSUME NEW i \in ApiIds, key = <<"workspaceInvitations", "preview", i>>,
              path = <<"invitations", i>>
      PROVE  Goal
  BY <1>11
<1>12. ASSUME NEW i \in ApiIds, NEW j \in ApiIds, key = <<"recordings", "detail", i, j>>,
              path = <<"workspaces", i, "recordings", j>>
      PROVE  Goal
  BY <1>12
<1>13. ASSUME NEW i \in ApiIds, NEW j \in ApiIds, key = <<"documents", "detail", i, j>>,
              path = <<"workspaces", i, "documents", j>>
      PROVE  Goal
  BY <1>13
<1>14. ASSUME NEW i \in ApiIds, NEW j \in ApiIds, key = <<"documents", "detail", i, j,
              "confirmations">>, path = <<"workspaces", i, "documents", j, "confirmations">>
      PROVE  Goal
  BY <1>14
<1>15. ASSUME NEW i \in ApiIds, NEW j \in ApiIds, key = <<"documents", "list", i, j>>,
              path = <<"workspaces", i, "documents">>
      PROVE  Goal
  BY <1>15
<1> HIDE DEF Goal
<1> QED
  <2>1. Goal
    BY <1>1, <1>2, <1>3, <1>4, <1>5, <1>6, <1>7, <1>8, <1>9, <1>10, <1>11, <1>12, <1>13, <1>14,
       <1>15, HookShapes, Zenon DEF key, path
  <2> QED
    BY <2>1 DEF Goal, key, path

-----------------------------------------------------------------------------
(* What a mutation changes *)

\* The first elements of a sequence, written out.
LEMMA FirstAre ==
    ASSUME NEW S, NEW s \in Seq(S), NEW t \in Seq(S), Len(s) <= Len(t),
           \A i \in 1..Len(s) : t[i] = s[i]
    PROVE  SubSeq(t, 1, Len(s)) = s
<1> DEFINE u == SubSeq(t, 1, Len(s))
<1>1. /\ u \in Seq(S)
      /\ Len(u) = IF 1 <= Len(s) THEN Len(s) - 1 + 1 ELSE 0
      /\ \A i \in 1..(Len(s) - 1 + 1) : u[i] = t[1 + i - 1]
  <2>1. \A i \in 1..Len(s) : t[i] \in S
    OBVIOUS
  <2>2. 1 \in Int /\ Len(s) \in Int
    OBVIOUS
  <2> QED
    BY <2>1, <2>2, SubSeqProperties
<1>2. Len(u) = Len(s) /\ \A i \in 1..Len(u) : u[i] = s[i]
  BY <1>1
<1> HIDE DEF u
<1> QED
  BY <1>1, <1>2, SeqEqual DEF u

\* The beginnings of keys, written out.
LEMMA Firsts ==
    /\ \A a, b, c, d, e, f : /\ SubSeq(<<a, b, c, d, e, f>>, 1, 4) = <<a, b, c, d>>
                             /\ SubSeq(<<a, b, c, d, e, f>>, 1, 5) = <<a, b, c, d, e>>
    /\ \A a, b : Client!IsPrefix(<<a, b>>, <<a, b>>)
    /\ \A a, b, c : Client!IsPrefix(<<a, b, c>>, <<a, b, c>>)
    /\ \A a, b, c, d : /\ Client!IsPrefix(<<a>>, <<a, b, c, d>>)
                       /\ Client!IsPrefix(<<a, b, c, d>>, <<a, b, c, d>>)
    /\ \A a, b, c, d, e : Client!IsPrefix(<<a, b, c, d>>, <<a, b, c, d, e>>)
<1>1. ASSUME NEW S, NEW s \in Seq(S), NEW t \in Seq(S), Len(s) <= Len(t),
             \A i \in 1..Len(s) : t[i] = s[i]
      PROVE  Client!IsPrefix(s, t)
  BY <1>1, FirstAre DEF Client!IsPrefix
<1>2. ASSUME NEW a, NEW b, NEW c, NEW d, NEW e, NEW f
      PROVE  SubSeq(<<a, b, c, d, e, f>>, 1, 4) = <<a, b, c, d>>
  <2> DEFINE S == {a, b, c, d, e, f}
             s == <<a, b, c, d>>
             t == <<a, b, c, d, e, f>>
  <2>1. s \in Seq(S) /\ t \in Seq(S) /\ Len(s) = 4 /\ Len(t) = 6
    OBVIOUS
  <2>2. \A i \in 1..4 : t[i] = s[i]
    OBVIOUS
  <2> HIDE DEF S, s, t
  <2>3. SubSeq(t, 1, Len(s)) = s
    BY <2>1, <2>2, FirstAre
  <2> QED
    BY <2>1, <2>3 DEF s, t
<1>3. ASSUME NEW a, NEW b, NEW c, NEW d, NEW e, NEW f
      PROVE  SubSeq(<<a, b, c, d, e, f>>, 1, 5) = <<a, b, c, d, e>>
  <2> DEFINE S == {a, b, c, d, e, f}
             s == <<a, b, c, d, e>>
             t == <<a, b, c, d, e, f>>
  <2>1. s \in Seq(S) /\ t \in Seq(S) /\ Len(s) = 5 /\ Len(t) = 6
    OBVIOUS
  <2>2. \A i \in 1..5 : t[i] = s[i]
    OBVIOUS
  <2> HIDE DEF S, s, t
  <2>3. SubSeq(t, 1, Len(s)) = s
    BY <2>1, <2>2, FirstAre
  <2> QED
    BY <2>1, <2>3 DEF s, t
<1>4. ASSUME NEW a, NEW b PROVE Client!IsPrefix(<<a, b>>, <<a, b>>)
  <2> DEFINE S == {a, b}
             s == <<a, b>>
             t == <<a, b>>
  <2>1. s \in Seq(S) /\ t \in Seq(S) /\ Len(s) = 2 /\ Len(t) = 2
    OBVIOUS
  <2>2. \A i \in 1..2 : t[i] = s[i]
    OBVIOUS
  <2> HIDE DEF S, s, t
  <2>3. Client!IsPrefix(s, t)
    BY <2>1, <2>2, <1>1
  <2> QED
    BY <2>3 DEF s, t
<1>5. ASSUME NEW a, NEW b, NEW c PROVE Client!IsPrefix(<<a, b, c>>, <<a, b, c>>)
  <2> DEFINE S == {a, b, c}
             s == <<a, b, c>>
             t == <<a, b, c>>
  <2>1. s \in Seq(S) /\ t \in Seq(S) /\ Len(s) = 3 /\ Len(t) = 3
    OBVIOUS
  <2>2. \A i \in 1..3 : t[i] = s[i]
    OBVIOUS
  <2> HIDE DEF S, s, t
  <2>3. Client!IsPrefix(s, t)
    BY <2>1, <2>2, <1>1
  <2> QED
    BY <2>3 DEF s, t
<1>6. ASSUME NEW a, NEW b, NEW c, NEW d PROVE Client!IsPrefix(<<a>>, <<a, b, c, d>>)
  <2> DEFINE S == {a, b, c, d}
             s == <<a>>
             t == <<a, b, c, d>>
  <2>1. s \in Seq(S) /\ t \in Seq(S) /\ Len(s) = 1 /\ Len(t) = 4
    OBVIOUS
  <2>2. \A i \in 1..1 : t[i] = s[i]
    OBVIOUS
  <2> HIDE DEF S, s, t
  <2>3. Client!IsPrefix(s, t)
    BY <2>1, <2>2, <1>1
  <2> QED
    BY <2>3 DEF s, t
<1>7. ASSUME NEW a, NEW b, NEW c, NEW d PROVE Client!IsPrefix(<<a, b, c, d>>, <<a, b, c, d>>)
  <2> DEFINE S == {a, b, c, d}
             s == <<a, b, c, d>>
             t == <<a, b, c, d>>
  <2>1. s \in Seq(S) /\ t \in Seq(S) /\ Len(s) = 4 /\ Len(t) = 4
    OBVIOUS
  <2>2. \A i \in 1..4 : t[i] = s[i]
    OBVIOUS
  <2> HIDE DEF S, s, t
  <2>3. Client!IsPrefix(s, t)
    BY <2>1, <2>2, <1>1
  <2> QED
    BY <2>3 DEF s, t
<1>8. ASSUME NEW a, NEW b, NEW c, NEW d, NEW e
      PROVE  Client!IsPrefix(<<a, b, c, d>>, <<a, b, c, d, e>>)
  <2> DEFINE S == {a, b, c, d, e}
             s == <<a, b, c, d>>
             t == <<a, b, c, d, e>>
  <2>1. s \in Seq(S) /\ t \in Seq(S) /\ Len(s) = 4 /\ Len(t) = 5
    OBVIOUS
  <2>2. \A i \in 1..4 : t[i] = s[i]
    OBVIOUS
  <2> HIDE DEF S, s, t
  <2>3. Client!IsPrefix(s, t)
    BY <2>1, <2>2, <1>1
  <2> QED
    BY <2>3 DEF s, t
<1> QED
  BY <1>2, <1>3, <1>4, <1>5, <1>6, <1>7, <1>8


\* What a mutation that invalidates changes.
LEMMA ChangesOfHooks ==
    /\ Client!Changes(Client!createWorkspaceApi({"name"})) = {<<"workspaces">>}
    /\ Client!Changes(Client!acceptInvitationApi({"credential"})) = {<<"workspaces">>}
    /\ \A i, j : /\ Client!Changes(Client!confirmDocumentApi(i, j)) =
                      {<<"workspaces", i, "documents", j>>,
                       <<"workspaces", i, "documents", j, "confirmations">>}
                 /\ Client!Changes(Client!retryDocumentGenerationJobApi(i, j)) =
                      {<<"workspaces", i, "recordings", j>>}
    /\ \A i : /\ Client!Changes(Client!createChatSessionApi(i, {"title"})) =
                   {<<"workspaces", i, "conversations">>}
              /\ Client!Changes(Client!uploadRecordingAudioApi(i)) = {}
<1> DEFINE confirm == Client!OfDocument(<<"confirmations", "me">>)
           again == Client!InWorkspace(<<"document-generation-jobs", Client!Any, "retry">>)
           chat == Client!InWorkspace(<<"conversations">>)
           import == Client!InWorkspace(<<"imports">>)
<1>0. /\ confirm = <<"workspaces", Client!Any, "documents", Client!Any, "confirmations", "me">>
      /\ again = <<"workspaces", Client!Any, "document-generation-jobs", Client!Any, "retry">>
      /\ chat = <<"workspaces", Client!Any, "conversations">>
      /\ import = <<"workspaces", Client!Any, "imports">>
  BY Patterns
<1> HIDE DEF confirm, again, chat, import
<1>1. Client!Changes(Client!createWorkspaceApi({"name"})) =
               {<<"workspaces">>}
  <2> DEFINE r == Client!createWorkspaceApi({"name"})
             p == r.path
  <2>1. r.method = "post" /\ p = <<"workspaces">>
    BY PathsBelow DEF Client!createWorkspaceApi, Client!Put, Client!Post, Client!Request
  <2> HIDE DEF r, p
  <2>2. /\ Client!Matches(<<"workspaces">>, p)
        /\ ~Client!Matches(<<"invitations", "accept">>, p)
        /\ ~Client!Matches(again, p)
        /\ ~Client!Matches(chat, p)
        /\ ~Client!Matches(import, p)
    BY <1>0, <2>1 DEF Client!Matches, Client!Any
  <2>3. Client!Changes(r) = {<<"workspaces">>}
    BY <2>1, <2>2 DEF Client!Changes, p, confirm, again, chat, import
  <2> QED
    BY <2>1, <2>3, Firsts, PathsAndKeys DEF r
<1>2. Client!Changes(Client!acceptInvitationApi({"credential"})) =
               {<<"workspaces">>}
  <2> DEFINE r == Client!acceptInvitationApi({"credential"})
             p == r.path
  <2>1. r.method = "post" /\ p = <<"invitations", "accept">>
    BY PathsBelow DEF Client!acceptInvitationApi, Client!Put, Client!Post, Client!Request
  <2> HIDE DEF r, p
  <2>2. /\ ~Client!Matches(<<"workspaces">>, p)
        /\ Client!Matches(<<"invitations", "accept">>, p)
        /\ ~Client!Matches(again, p)
        /\ ~Client!Matches(chat, p)
        /\ ~Client!Matches(import, p)
    BY <1>0, <2>1 DEF Client!Matches, Client!Any
  <2>3. Client!Changes(r) = {<<"workspaces">>}
    BY <2>1, <2>2 DEF Client!Changes, p, confirm, again, chat, import
  <2> QED
    BY <2>1, <2>3, Firsts, PathsAndKeys DEF r
<1>3. \A i, j : Client!Changes(Client!confirmDocumentApi(i, j)) =
               {<<"workspaces", i, "documents", j>>,
                <<"workspaces", i, "documents", j, "confirmations">>}
  <2> TAKE i, j
  <2> DEFINE r == Client!confirmDocumentApi(i, j)
             p == r.path
  <2>1. r.method = "put" /\ p = <<"workspaces", i, "documents", j, "confirmations", "me">>
    BY PathsBelow DEF Client!confirmDocumentApi, Client!Put, Client!Post, Client!Request
  <2> HIDE DEF r, p
  <2>2. /\ ~Client!Matches(<<"members", "me", "last-viewed-workspace">>, p)
        /\ Client!Matches(confirm, p)
    BY <1>0, <2>1 DEF Client!Matches, Client!Any
  <2>3. Client!Changes(r) = {SubSeq(p, 1, 4), SubSeq(p, 1, 5)}
    BY <2>1, <2>2 DEF Client!Changes, p, confirm, again, chat, import
  <2> QED
    BY <2>1, <2>3, Firsts, PathsAndKeys DEF r
<1>4. \A i, j : Client!Changes(Client!retryDocumentGenerationJobApi(i, j)) =
               {<<"workspaces", i, "recordings", j>>}
  <2> TAKE i, j
  <2> DEFINE r == Client!retryDocumentGenerationJobApi(i, j)
             p == r.path
  <2>1. r.method = "post" /\ p = <<"workspaces", i, "document-generation-jobs", j, "retry">>
    BY PathsBelow DEF Client!retryDocumentGenerationJobApi, Client!Put, Client!Post, Client!Request
  <2> HIDE DEF r, p
  <2>2. /\ ~Client!Matches(<<"workspaces">>, p)
        /\ ~Client!Matches(<<"invitations", "accept">>, p)
        /\ Client!Matches(again, p)
        /\ ~Client!Matches(chat, p)
        /\ ~Client!Matches(import, p)
    BY <1>0, <2>1 DEF Client!Matches, Client!Any
  <2>3. Client!Changes(r) = {Client!RecordingPath(p[2], p[4])}
    BY <2>1, <2>2 DEF Client!Changes, p, confirm, again, chat, import
  <2> QED
    BY <2>1, <2>3, Firsts, PathsAndKeys DEF r
<1>5. \A i : Client!Changes(Client!createChatSessionApi(i, {"title"})) =
               {<<"workspaces", i, "conversations">>}
  <2> TAKE i
  <2> DEFINE r == Client!createChatSessionApi(i, {"title"})
             p == r.path
  <2>1. r.method = "post" /\ p = <<"workspaces", i, "conversations">>
    BY PathsBelow DEF Client!createChatSessionApi, Client!Put, Client!Post, Client!Request
  <2> HIDE DEF r, p
  <2>2. /\ ~Client!Matches(<<"workspaces">>, p)
        /\ ~Client!Matches(<<"invitations", "accept">>, p)
        /\ ~Client!Matches(again, p)
        /\ Client!Matches(chat, p)
        /\ ~Client!Matches(import, p)
    BY <1>0, <2>1 DEF Client!Matches, Client!Any
  <2>3. Client!Changes(r) = {p}
    BY <2>1, <2>2 DEF Client!Changes, p, confirm, again, chat, import
  <2> QED
    BY <2>1, <2>3, Firsts, PathsAndKeys DEF r
<1>6. \A i : Client!Changes(Client!uploadRecordingAudioApi(i)) =
               {}
  <2> TAKE i
  <2> DEFINE r == Client!uploadRecordingAudioApi(i)
             p == r.path
  <2>1. r.method = "put" /\ p = <<"storage", i>>
    BY PathsBelow DEF Client!uploadRecordingAudioApi, Client!Put, Client!Post, Client!Request
  <2> HIDE DEF r, p
  <2>2. /\ ~Client!Matches(<<"members", "me", "last-viewed-workspace">>, p)
        /\ ~Client!Matches(confirm, p)
    BY <1>0, <2>1 DEF Client!Matches, Client!Any
  <2>3. Client!Changes(r) = {}
    BY <2>1, <2>2 DEF Client!Changes, p, confirm, again, chat, import
  <2> QED
    BY <2>1, <2>3, Firsts, PathsAndKeys DEF r
<1> QED
  BY <1>1, <1>2, <1>3, <1>4, <1>5, <1>6

\* The mutations that invalidate, one by one.
LEMMA InvalidatingHooks ==
    ASSUME NEW m \in Client!MutationHooks, m.onSuccess # {}
    PROVE  \/ m = Client!useCreateWorkspaceMutation({"name"})
           \/ m = Client!useAcceptInvitationMutation({"credential"})
           \/ \E i \in ApiIds : m = Client!useCreateChatSessionMutation(i, {"title"})
           \/ \E i \in ApiIds, j \in ApiIds : m = Client!useConfirmDocumentMutation(i, j)
           \/ \E i \in ApiIds, j \in ApiIds : m = Client!useRetryDocumentGenerationJobMutation(i, j)
<1>1. \A r : Client!Mutation(r).onSuccess = {}
  BY DEF Client!Mutation
<1>2. CASE \E i \in ApiIds : m \in Client!MutationHooksOf(i)
  <2> PICK i \in ApiIds : m \in Client!MutationHooksOf(i)
    BY <1>2
  <2>1. \/ m = Client!useStartRecordingMutation(i, {"requestId"} \cup Client!ProofOfControl)
        \/ m = Client!useUploadRecordingAudioMutation(i)
        \/ m = Client!useCreateChatSessionMutation(i, {"title"})
        \/ m = Client!useStartNotionOAuthMutation(i)
        \/ m = Client!useStartNotionImportMutation(i)
    BY DEF Client!MutationHooksOf
  <2> QED
    BY <1>1, <2>1 DEF Client!useStartRecordingMutation, Client!useUploadRecordingAudioMutation,
       Client!useStartNotionOAuthMutation, Client!useStartNotionImportMutation
<1>3. CASE \E i \in ApiIds, j \in ApiIds : m \in Client!MutationHooksOfBoth(i, j)
  <2> PICK i \in ApiIds, j \in ApiIds : m \in Client!MutationHooksOfBoth(i, j)
    BY <1>3
  <2>1. \/ m = Client!usePauseRecordingMutation(i, j, Client!ProofOfControl)
        \/ m = Client!useResumeRecordingMutation(i, j, Client!ProofOfControl)
        \/ m = Client!useEndRecordingMutation(i, j)
        \/ m = Client!useIssueRecordingAudioUploadUrlMutation(i, j, {"contentType", "contentLength"})
        \/ m = Client!useCompleteRecordingAudioUploadMutation(i, j, {"uploadId"})
        \/ m = Client!useConfirmDocumentMutation(i, j)
        \/ m = Client!useRetryDocumentGenerationJobMutation(i, j)
    BY DEF Client!MutationHooksOfBoth
  <2> QED
    BY <1>1, <2>1 DEF Client!usePauseRecordingMutation, Client!useResumeRecordingMutation,
       Client!useEndRecordingMutation, Client!useIssueRecordingAudioUploadUrlMutation,
       Client!useCompleteRecordingAudioUploadMutation
<1>4. m # Client!usePostNicknameMutation({"nickname"})
      /\ m # Client!useUpdateLastViewedWorkspaceMutation({"workspaceId"})
  BY <1>1 DEF Client!usePostNicknameMutation, Client!useUpdateLastViewedWorkspaceMutation
<1> QED
  BY <1>2, <1>3, <1>4, MutationHooksAre

\* A mutation that invalidates reaches every entry that shows what it changes; and a
\* confirmation does so after a conflict, too.
LEMMA InvalidationsReach ==
    ASSUME NEW m \in Client!MutationHooks, m.onSuccess # {},
           NEW q \in Client!QueryHooks, q.request.path \in Client!Changes(m.request)
    PROVE  /\ Client!Invalidates(m.onSuccess, q.key)
           /\ m.request.method = "put" => Client!Invalidates(m.onConflict, q.key)
<1> USE DEF Client!Invalidates
<1>1. CASE m = Client!useCreateWorkspaceMutation({"name"}) \/ m = Client!useAcceptInvitationMutation({"credential"})
  <2>1. m.request \in {Client!createWorkspaceApi({"name"}), Client!acceptInvitationApi({"credential"})}
        /\ m.onSuccess = {<<"workspaces", "list">>} /\ m.request.method = "post"
    BY <1>1 DEF Client!useCreateWorkspaceMutation, Client!useAcceptInvitationMutation,
       Client!Invalidating,
       Client!Mutation, Client!PostWorkspaceRequestDto, Client!PostInvitationAcceptRequestDto,
       Client!Kept,
       Client!workspaceKeysList, Client!createWorkspaceApi, Client!acceptInvitationApi, Client!Post,
       Client!Request
  <2>2. q.request.path = <<"workspaces">>
    BY <2>1, ChangesOfHooks
  <2> QED
    BY <2>1, <2>2, ShownUnder, Firsts
<1>2. ASSUME NEW i \in ApiIds, m = Client!useCreateChatSessionMutation(i, {"title"})
      PROVE  /\ Client!Invalidates(m.onSuccess, q.key)
             /\ m.request.method = "put" => Client!Invalidates(m.onConflict, q.key)
  <2>1. m.request = Client!createChatSessionApi(i, {"title"})
        /\ m.onSuccess = {<<"chat", "sessions", i>>} /\ m.request.method = "post"
    BY <1>2 DEF Client!useCreateChatSessionMutation, Client!Invalidating, Client!Mutation,
       Client!PostChatSessionRequestDto, Client!Kept, Client!chatKeysSessions,
       Client!createChatSessionApi,
       Client!Post, Client!Request
  <2>2. q.request.path = <<"workspaces", i, "conversations">>
    BY <2>1, ChangesOfHooks
  <2> QED
    BY <2>1, <2>2, ShownUnder, Firsts
<1>3. ASSUME NEW i \in ApiIds, NEW j \in ApiIds,
             m = Client!useRetryDocumentGenerationJobMutation(i, j)
      PROVE  /\ Client!Invalidates(m.onSuccess, q.key)
             /\ m.request.method = "put" => Client!Invalidates(m.onConflict, q.key)
  <2>1. m.request = Client!retryDocumentGenerationJobApi(i, j)
        /\ m.onSuccess = {<<"recordings">>} /\ m.request.method = "post"
    BY <1>3 DEF Client!useRetryDocumentGenerationJobMutation, Client!Invalidating, Client!Mutation,
       Client!recordingKeysAll, Client!retryDocumentGenerationJobApi, Client!Post, Client!Request
  <2>2. q.request.path = <<"workspaces", i, "recordings", j>>
    BY <2>1, ChangesOfHooks
  <2> QED
    BY <2>1, <2>2, ShownUnder, Firsts
<1>4. ASSUME NEW i \in ApiIds, NEW j \in ApiIds, m = Client!useConfirmDocumentMutation(i, j)
      PROVE  /\ Client!Invalidates(m.onSuccess, q.key)
             /\ m.request.method = "put" => Client!Invalidates(m.onConflict, q.key)
  <2>1. m.request = Client!confirmDocumentApi(i, j)
        /\ m.onSuccess = {Client!documentKeysDetail(i, j)} /\ m.onConflict = m.onSuccess
    BY <1>4 DEF Client!useConfirmDocumentMutation, Client!AlsoOnConflict, Client!Invalidating,
       Client!Mutation
  <2>2. m.onSuccess = {<<"documents", "detail", i, j>>}
    BY <2>1, PathsAndKeys
  <2>3. \/ q.request.path = <<"workspaces", i, "documents", j>>
        \/ q.request.path = <<"workspaces", i, "documents", j, "confirmations">>
    BY <2>1, ChangesOfHooks
  <2>4. \/ q.key = <<"documents", "detail", i, j>>
        \/ q.key = <<"documents", "detail", i, j, "confirmations">>
    BY <2>3, ShownUnder
  <2>5. Client!IsPrefix(<<"documents", "detail", i, j>>, q.key)
    <3>1. /\ Client!IsPrefix(<<"documents", "detail", i, j>>, <<"documents", "detail", i, j>>)
          /\ Client!IsPrefix(<<"documents", "detail", i, j>>,
                             <<"documents", "detail", i, j, "confirmations">>)
      BY Firsts, Zenon
    <3> QED
      BY <2>4, <3>1, Zenon
  <2> QED
    BY <2>1, <2>2, <2>5
<1> QED
  BY <1>1, <1>2, <1>3, <1>4, InvalidatingHooks

\* A request to change something that no pattern of Changes is for.
LEMMA ChangesNothing ==
    ASSUME NEW r, r.method = "post",
           \/ r.path = <<"auth", "nickname">>
           \/ \E i : r.path = <<"workspaces", i, "recordings">>
           \/ \E i : r.path = <<"workspaces", i, "notion-oauth-authorizations">>
           \/ \E i, j, a : r.path = <<"workspaces", i, "recordings", j, a>>
    PROVE  Client!Changes(r) = {}
<1> DEFINE p == r.path
           again == Client!InWorkspace(<<"document-generation-jobs", Client!Any, "retry">>)
           chat == Client!InWorkspace(<<"conversations">>)
           import == Client!InWorkspace(<<"imports">>)
<1>0. /\ again = <<"workspaces", Client!Any, "document-generation-jobs", Client!Any, "retry">>
      /\ chat = <<"workspaces", Client!Any, "conversations">>
      /\ import = <<"workspaces", Client!Any, "imports">>
  BY Patterns
<1>1. \/ p = <<"auth", "nickname">>
      \/ \E i : p = <<"workspaces", i, "recordings">>
      \/ \E i : p = <<"workspaces", i, "notion-oauth-authorizations">>
      \/ \E i, j, a : p = <<"workspaces", i, "recordings", j, a>>
  OBVIOUS
<1> HIDE DEF p, again, chat, import
<1>2. /\ ~Client!Matches(<<"workspaces">>, p)
      /\ ~Client!Matches(<<"invitations", "accept">>, p)
      /\ ~Client!Matches(again, p)
      /\ ~Client!Matches(chat, p)
      /\ ~Client!Matches(import, p)
  BY <1>0, <1>1 DEF Client!Matches, Client!Any
<1> QED
  BY <1>2 DEF Client!Changes, p, again, chat, import

\* The requests that control a recording and upload it.
LEMMA RecordingPosts ==
    \A i, j, b :
       /\ Client!pauseRecordingApi(i, j, b).method = "post"
       /\ Client!resumeRecordingApi(i, j, b).method = "post"
       /\ Client!endRecordingApi(i, j).method = "post"
       /\ Client!issueRecordingAudioUploadUrlApi(i, j, b).method = "post"
       /\ Client!completeRecordingAudioUploadApi(i, j, b).method = "post"
       /\ Client!pauseRecordingApi(i, j, b).path = <<"workspaces", i, "recordings", j, "pause">>
       /\ Client!resumeRecordingApi(i, j, b).path = <<"workspaces", i, "recordings", j, "resume">>
       /\ Client!endRecordingApi(i, j).path = <<"workspaces", i, "recordings", j, "end">>
       /\ Client!issueRecordingAudioUploadUrlApi(i, j, b).path =
            <<"workspaces", i, "recordings", j, "audio-upload-url">>
       /\ Client!completeRecordingAudioUploadApi(i, j, b).path =
            <<"workspaces", i, "recordings", j, "audio-upload-complete">>
<1> USE DEF Client!Post, Client!Request
<1>1. ASSUME NEW i, NEW j, NEW a, NEW b, NEW d
      PROVE  Client!Post(Client!RecordingPath(i, j) \o <<a>>, b, d).path =
               <<"workspaces", i, "recordings", j, a>>
  BY PathsBelow
<1> QED
  BY <1>1 DEF Client!pauseRecordingApi, Client!resumeRecordingApi, Client!endRecordingApi,
     Client!issueRecordingAudioUploadUrlApi, Client!completeRecordingAudioUploadApi

\* A mutation that invalidates nothing changes nothing that a screen shows, but for the
\* two that leave what they change stale.
LEMMA SilentHooks ==
    ASSUME NEW m \in Client!MutationHooks, m.onSuccess = {}
    PROVE  Client!Changes(m.request) = {} \/ Client!LeavesStale(m.request)
<1> DEFINE Goal == Client!Changes(m.request) = {} \/ Client!LeavesStale(m.request)
<1>1. ASSUME NEW r, m.request = r, r.method = "post",
             \/ r.path = <<"auth", "nickname">>
             \/ \E i : r.path = <<"workspaces", i, "recordings">>
             \/ \E i : r.path = <<"workspaces", i, "notion-oauth-authorizations">>
             \/ \E i, j, a : r.path = <<"workspaces", i, "recordings", j, a>>
      PROVE  Goal
  <2>1. Client!Changes(r) = {}
    BY <1>1, ChangesNothing
  <2> QED
    BY <1>1, <2>1
<1> USE DEF Client!Mutation, Client!Post, Client!Put, Client!Request
<1>2. ASSUME m = Client!usePostNicknameMutation({"nickname"}) PROVE Goal
  <2>1. m.request.method = "post" /\ m.request.path = <<"auth", "nickname">>
    BY <1>2 DEF Client!usePostNicknameMutation, Client!completeNicknameApi
  <2> HIDE DEF Goal
  <2> QED
    BY <1>1, <2>1
<1>3. ASSUME m = Client!useUpdateLastViewedWorkspaceMutation({"workspaceId"}) PROVE Goal
  <2>1. /\ m.request.method = "put"
        /\ m.request.path = <<"members", "me", "last-viewed-workspace">>
    BY <1>3 DEF Client!useUpdateLastViewedWorkspaceMutation, Client!updateLastViewedWorkspaceApi
  <2>2. Client!Matches(<<"members", "me", "last-viewed-workspace">>, m.request.path)
    BY <2>1 DEF Client!Matches
  <2> QED
    BY <2>1, <2>2 DEF Client!LeavesStale
<1>4. ASSUME NEW i \in ApiIds, m \in Client!MutationHooksOf(i) PROVE Goal
  <2>1. CASE m = Client!useStartRecordingMutation(i, {"requestId"} \cup Client!ProofOfControl)
    <3>1. m.request.method = "post" /\ m.request.path = <<"workspaces", i, "recordings">>
      BY <2>1, PathsBelow DEF Client!useStartRecordingMutation, Client!startRecordingApi
    <3> HIDE DEF Goal
    <3> QED
      BY <1>1, <3>1
  <2>2. CASE m = Client!useUploadRecordingAudioMutation(i)
    <3>1. m.request = Client!uploadRecordingAudioApi(i)
      BY <2>2 DEF Client!useUploadRecordingAudioMutation
    <3> QED
      BY <3>1, ChangesOfHooks
  <2>3. CASE m = Client!useCreateChatSessionMutation(i, {"title"})
    BY <2>3 DEF Client!useCreateChatSessionMutation, Client!Invalidating
  <2>4. CASE m = Client!useStartNotionOAuthMutation(i)
    <3>1. /\ m.request.method = "post"
          /\ m.request.path = <<"workspaces", i, "notion-oauth-authorizations">>
      BY <2>4, PathsBelow DEF Client!useStartNotionOAuthMutation, Client!startNotionOAuthApi
    <3> HIDE DEF Goal
    <3> QED
      BY <1>1, <3>1
  <2>5. CASE m = Client!useStartNotionImportMutation(i)
    <3>1. m.request.method = "post" /\ m.request.path = <<"workspaces", i, "imports">>
      BY <2>5, PathsBelow DEF Client!useStartNotionImportMutation, Client!startNotionImportApi
    <3>2. PICK pattern : /\ pattern = Client!InWorkspace(<<"imports">>)
                         /\ pattern = <<"workspaces", Client!Any, "imports">>
      BY Patterns
    <3>3. Client!Matches(pattern, m.request.path)
      BY <3>1, <3>2 DEF Client!Matches
    <3> QED
      BY <3>1, <3>2, <3>3 DEF Client!LeavesStale
  <2> HIDE DEF Goal
  <2> QED
    BY <1>4, <2>1, <2>2, <2>3, <2>4, <2>5, Zenon DEF Client!MutationHooksOf
<1>5. ASSUME NEW i \in ApiIds, NEW j \in ApiIds, m \in Client!MutationHooksOfBoth(i, j)
      PROVE  Goal
  <2>1. CASE m = Client!usePauseRecordingMutation(i, j, Client!ProofOfControl)
    <3>1. PICK b, r : r = Client!pauseRecordingApi(i, j, b) /\ m.request = r
      BY <2>1 DEF Client!usePauseRecordingMutation
    <3>2. r.method = "post" /\ \E a : r.path = <<"workspaces", i, "recordings", j, a>>
      BY <3>1, RecordingPosts
    <3> HIDE DEF Goal
    <3> QED
      BY <1>1, <3>1, <3>2
  <2>2. CASE m = Client!useResumeRecordingMutation(i, j, Client!ProofOfControl)
    <3>1. PICK b, r : r = Client!resumeRecordingApi(i, j, b) /\ m.request = r
      BY <2>2 DEF Client!useResumeRecordingMutation
    <3>2. r.method = "post" /\ \E a : r.path = <<"workspaces", i, "recordings", j, a>>
      BY <3>1, RecordingPosts
    <3> HIDE DEF Goal
    <3> QED
      BY <1>1, <3>1, <3>2
  <2>3. CASE m = Client!useEndRecordingMutation(i, j)
    <3>1. PICK r : r = Client!endRecordingApi(i, j) /\ m.request = r
      BY <2>3 DEF Client!useEndRecordingMutation
    <3>2. r.method = "post" /\ \E a : r.path = <<"workspaces", i, "recordings", j, a>>
      BY <3>1, RecordingPosts
    <3> HIDE DEF Goal
    <3> QED
      BY <1>1, <3>1, <3>2
  <2>4. CASE m = Client!useIssueRecordingAudioUploadUrlMutation(i, j, {"contentType", "contentLength"})
    <3>1. PICK b, r : r = Client!issueRecordingAudioUploadUrlApi(i, j, b) /\ m.request = r
      BY <2>4 DEF Client!useIssueRecordingAudioUploadUrlMutation
    <3>2. r.method = "post" /\ \E a : r.path = <<"workspaces", i, "recordings", j, a>>
      BY <3>1, RecordingPosts
    <3> HIDE DEF Goal
    <3> QED
      BY <1>1, <3>1, <3>2
  <2>5. CASE m = Client!useCompleteRecordingAudioUploadMutation(i, j, {"uploadId"})
    <3>1. PICK b, r : r = Client!completeRecordingAudioUploadApi(i, j, b) /\ m.request = r
      BY <2>5 DEF Client!useCompleteRecordingAudioUploadMutation
    <3>2. r.method = "post" /\ \E a : r.path = <<"workspaces", i, "recordings", j, a>>
      BY <3>1, RecordingPosts
    <3> HIDE DEF Goal
    <3> QED
      BY <1>1, <3>1, <3>2
  <2>6. CASE m = Client!useConfirmDocumentMutation(i, j)
    BY <2>6 DEF Client!useConfirmDocumentMutation, Client!Invalidating, Client!AlsoOnConflict
  <2>7. CASE m = Client!useRetryDocumentGenerationJobMutation(i, j)
    BY <2>7 DEF Client!useRetryDocumentGenerationJobMutation, Client!Invalidating
  <2> HIDE DEF Goal
  <2> QED
    BY <1>5, <2>1, <2>2, <2>3, <2>4, <2>5, <2>6, <2>7, Zenon DEF Client!MutationHooksOfBoth
<1>6. m # Client!useCreateWorkspaceMutation({"name"})
      /\ m # Client!useAcceptInvitationMutation({"credential"})
  BY DEF Client!useCreateWorkspaceMutation, Client!useAcceptInvitationMutation,
     Client!Invalidating
<1> HIDE DEF Goal
<1>7. Goal
  BY <1>2, <1>3, <1>4, <1>5, <1>6, MutationHooksAre, Zenon
<1> QED
  BY <1>7 DEF Goal

\* The mutations that put something.
LEMMA PutHooks ==
    ASSUME NEW m \in Client!MutationHooks, m.request.method = "put"
    PROVE  \/ m.request.path = <<"members", "me", "last-viewed-workspace">>
           \/ \E i : m.request.path = <<"storage", i>>
           \/ \E i, j : m.request.path = <<"workspaces", i, "documents", j, "confirmations", "me">>
<1> DEFINE Goal == \/ m.request.path = <<"members", "me", "last-viewed-workspace">>
                   \/ \E i : m.request.path = <<"storage", i>>
                   \/ \E i, j : m.request.path = <<"workspaces", i, "documents", j, "confirmations", "me">>
<1> USE DEF Client!Mutation, Client!Invalidating, Client!AlsoOnConflict, Client!Post, Client!Put,
            Client!Request
<1>1. /\ m # Client!usePostNicknameMutation({"nickname"})
      /\ m # Client!useCreateWorkspaceMutation({"name"})
      /\ m # Client!useAcceptInvitationMutation({"credential"})
  BY DEF Client!usePostNicknameMutation, Client!completeNicknameApi,
     Client!useCreateWorkspaceMutation, Client!createWorkspaceApi,
     Client!useAcceptInvitationMutation, Client!acceptInvitationApi
<1>2. ASSUME m = Client!useUpdateLastViewedWorkspaceMutation({"workspaceId"}) PROVE Goal
  BY <1>2 DEF Client!useUpdateLastViewedWorkspaceMutation, Client!updateLastViewedWorkspaceApi
<1>3. ASSUME NEW i \in ApiIds, m \in Client!MutationHooksOf(i) PROVE Goal
  <2>1. \/ m = Client!useStartRecordingMutation(i, {"requestId"} \cup Client!ProofOfControl)
        \/ m = Client!useUploadRecordingAudioMutation(i)
        \/ m = Client!useCreateChatSessionMutation(i, {"title"})
        \/ m = Client!useStartNotionOAuthMutation(i)
        \/ m = Client!useStartNotionImportMutation(i)
    BY <1>3 DEF Client!MutationHooksOf
  <2>p. \A path, b, d : Client!Post(path, b, d).method = "post"
    OBVIOUS
  <2> HIDE DEF Client!Post
  <2>4. m # Client!useStartRecordingMutation(i, {"requestId"} \cup Client!ProofOfControl)
    BY <2>p DEF Client!useStartRecordingMutation, Client!startRecordingApi
  <2>5. m # Client!useCreateChatSessionMutation(i, {"title"})
    BY <2>p DEF Client!useCreateChatSessionMutation, Client!createChatSessionApi
  <2>6. m # Client!useStartNotionOAuthMutation(i) /\ m # Client!useStartNotionImportMutation(i)
    BY <2>p DEF Client!useStartNotionOAuthMutation, Client!startNotionOAuthApi,
       Client!useStartNotionImportMutation, Client!startNotionImportApi
  <2>3. m.request.path = <<"storage", i>>
    BY <2>1, <2>4, <2>5, <2>6 DEF Client!useUploadRecordingAudioMutation,
       Client!uploadRecordingAudioApi
  <2> QED
    BY <2>3
<1>4. ASSUME NEW i \in ApiIds, NEW j \in ApiIds, m \in Client!MutationHooksOfBoth(i, j)
      PROVE  Goal
  <2>1. \/ m = Client!usePauseRecordingMutation(i, j, Client!ProofOfControl)
        \/ m = Client!useResumeRecordingMutation(i, j, Client!ProofOfControl)
        \/ m = Client!useEndRecordingMutation(i, j)
        \/ m = Client!useIssueRecordingAudioUploadUrlMutation(i, j, {"contentType", "contentLength"})
        \/ m = Client!useCompleteRecordingAudioUploadMutation(i, j, {"uploadId"})
        \/ m = Client!useConfirmDocumentMutation(i, j)
        \/ m = Client!useRetryDocumentGenerationJobMutation(i, j)
    BY <1>4 DEF Client!MutationHooksOfBoth
  <2>2. /\ m # Client!usePauseRecordingMutation(i, j, Client!ProofOfControl)
        /\ m # Client!useResumeRecordingMutation(i, j, Client!ProofOfControl)
        /\ m # Client!useEndRecordingMutation(i, j)
        /\ m # Client!useIssueRecordingAudioUploadUrlMutation(i, j, {"contentType", "contentLength"})
        /\ m # Client!useCompleteRecordingAudioUploadMutation(i, j, {"uploadId"})
    BY RecordingPosts DEF Client!usePauseRecordingMutation, Client!useResumeRecordingMutation,
       Client!useEndRecordingMutation, Client!useIssueRecordingAudioUploadUrlMutation,
       Client!useCompleteRecordingAudioUploadMutation
  <2>3. m # Client!useRetryDocumentGenerationJobMutation(i, j)
    BY DEF Client!useRetryDocumentGenerationJobMutation, Client!retryDocumentGenerationJobApi
  <2>4. m = Client!useConfirmDocumentMutation(i, j)
    BY <2>1, <2>2, <2>3, Zenon
  <2>5. m.request = Client!confirmDocumentApi(i, j)
    BY <2>4 DEF Client!useConfirmDocumentMutation
  <2>6. m.request.path = <<"workspaces", i, "documents", j, "confirmations", "me">>
    BY <2>5, PathsBelow DEF Client!confirmDocumentApi
  <2> QED
    BY <2>6
<1> HIDE DEF Goal
<1>5. Goal
  BY <1>1, <1>2, <1>3, <1>4, MutationHooksAre, Zenon
<1> QED
  BY <1>5 DEF Goal

\* A confirmation leaves nothing stale.
LEMMA ConfirmationsInvalidate ==
    ASSUME NEW use, use.mutation \in Client!MutationHooks, Client!IsConfirmation(use)
    PROVE  ~Client!LeavesStale(use.mutation.request)
<1>1. PICK m, p : m = use.mutation /\ p = m.request.path
  OBVIOUS
<1>2. m.request.method = "put" /\ \E i \in DOMAIN p : p[i] = "confirmations"
  BY <1>1 DEF Client!IsConfirmation
<1>3. \/ p = <<"members", "me", "last-viewed-workspace">>
      \/ \E i : p = <<"storage", i>>
      \/ \E i, j : p = <<"workspaces", i, "documents", j, "confirmations", "me">>
  BY <1>1, <1>2, PutHooks
<1>4. p # <<"members", "me", "last-viewed-workspace">>
  BY <1>2
<1>5. ~Client!Matches(<<"members", "me", "last-viewed-workspace">>, p)
  BY <1>3, <1>4 DEF Client!Matches
<1> QED
  BY <1>1, <1>2, <1>5 DEF Client!LeavesStale

-----------------------------------------------------------------------------
(* The invariant *)

\* An entry holds and asks what the queries of its key ask for.
EntryOf(e, k) ==
    /\ e \in Client!Entry
    /\ \A q \in Client!Queries : q.key = k =>
          /\ e.data # Client!None => e.of = q.request
          /\ e.fetch # "idle" => e.asks = q.request

\* An entry shows version n of its path or a later one, or will when it is idle again
\* without an error.
Catches(e, n) ==
    \/ e.fetch = "sent"
    \/ e.fetch = "read" /\ e.got >= n
    \/ e.fetch = "idle" /\ (e.error # "none" \/ e.data >= n)

\* A mutation invalidates when it succeeds, and a confirmation after a conflict, too; but
\* for the two that leave what they change stale.
Invalidated ==
    /\ write.outcome = "ok" \/ (write.outcome = "conflict" /\ Client!IsConfirmation(write.use))
    /\ ~Client!LeavesStale(write.use.mutation.request)

QueryInv ==
    /\ Client!TypeOK
    /\ \A k \in Client!Keys : EntryOf(entry[k], k)
    /\ \A p \in Client!Shown : write.made[p] <= version[p]
    /\ write.stage # "idle" => write.use \in Client!Uses
    /\ write.stage = "settled" /\ Invalidated =>
         \A q \in Client!Queries :
            q.key \in write.watched /\ q.request.path \in Client!Touched =>
                Catches(entry[q.key], write.made[q.request.path])

\* What the screen in use is made of.
LEMMA QueriesOnScreen ==
    ASSUME onScreen \in Screens
    PROVE  /\ Client!Queries \subseteq Client!QueryHooks
           /\ \A u \in Client!Uses : u.mutation \in Client!MutationHooks
           /\ Client!MaxVersion \in Nat /\ Client!MaxFaults \in Nat
           /\ \A q \in Client!Queries : q.key \in Client!Keys /\ q.request \in Client!Requests
                                        /\ q.request.path \in Client!Shown
           /\ \A k \in Client!Keys : \E q \in Client!Queries : q.key = k
           /\ \A q, r \in Client!Queries : q.key = r.key => q.request = r.request
<1>1. /\ Client!Queries \subseteq Client!QueryHooks
      /\ \A u \in Client!Uses : u.mutation \in Client!MutationHooks
      /\ Client!MaxVersion \in Nat /\ Client!MaxFaults \in Nat
  BY FrontendAssumption DEF Client!QueryClientAssumption, Client!Queries, Client!Uses,
     Client!MaxVersion, Client!MaxFaults
<1>2. /\ \A q \in Client!Queries : q.key \in Client!Keys /\ q.request \in Client!Requests
                                   /\ q.request.path \in Client!Shown
      /\ \A k \in Client!Keys : \E q \in Client!Queries : q.key = k
  BY DEF Client!Keys, Client!Requests, Client!Shown
<1>3. \A q, r \in Client!Queries : q.key = r.key => q.request = r.request
  <2> SUFFICES ASSUME NEW q \in Client!Queries, NEW r \in Client!Queries, q.key = r.key
               PROVE  q.request = r.request
    OBVIOUS
  <2>1. q.request = RequestOf(q.key) /\ r.request = RequestOf(r.key)
    BY <1>1, KeysDecide
  <2> QED
    BY <2>1
<1> QED
  BY <1>1, <1>2, <1>3

\* What an entry is made of.
LEMMA EntryIs ==
    \E D, O, R, F, V, N :
       /\ D = Client!Versions \cup {Client!None} /\ O = Client!Requests \cup {Client!NoRequest}
       /\ R = {"none", "client", "transient"} /\ F = {"idle", "sent", "read"}
       /\ V = Client!Versions /\ N = 0..2
       /\ Client!Entry = [data: D, of: O, error: R, fetch: F, asks: O, got: V, failures: N]
BY Zenon DEF Client!Entry

\* Asking again keeps an entry an entry, and whatever it caught up with.
LEMMA FetchIs ==
    ASSUME onScreen \in Screens, NEW k, NEW e, EntryOf(e, k),
           NEW q \in Client!Queries, q.key = k
    PROVE  /\ EntryOf(Client!Fetch(e, q.request), k)
           /\ \A n : Catches(Client!Fetch(e, q.request), n)
<1> DEFINE f == Client!Fetch(e, q.request)
<1>1. f \in Client!Entry /\ f.fetch = "sent" /\ f.asks = q.request /\ f.data = e.data /\ f.of = e.of
  <2>1. q.request \in Client!Requests
    BY QueriesOnScreen
  <2>0. PICK D, O, R, F, V, N :
           /\ D = Client!Versions \cup {Client!None} /\ O = Client!Requests \cup {Client!NoRequest}
           /\ R = {"none", "client", "transient"} /\ F = {"idle", "sent", "read"}
           /\ V = Client!Versions /\ N = 0..2
           /\ Client!Entry = [data: D, of: O, error: R, fetch: F, asks: O, got: V, failures: N]
    BY EntryIs
  <2>2. /\ Client!Entry = [data: D, of: O, error: R, fetch: F, asks: O, got: V, failures: N]
        /\ q.request \in O /\ "sent" \in F /\ 0 \in N
    BY <2>0, <2>1
  <2>3. e \in Client!Entry
    BY DEF EntryOf
  <2>6. PICK r : r = q.request
    OBVIOUS
  <2>4. Client!Fetch(e, r) \in Client!Entry
    BY <2>1, <2>2, <2>3, <2>6 DEF Client!Fetch
  <2>5. f.fetch = "sent" /\ f.asks = q.request /\ f.data = e.data /\ f.of = e.of
    BY <2>3 DEF Client!Fetch
  <2> QED
    BY <2>2, <2>4, <2>5, <2>6
<1>2. \A r \in Client!Queries : r.key = k => r.request = q.request
  BY QueriesOnScreen
<1> HIDE DEF f
<1>3. EntryOf(f, k) /\ \A n : Catches(f, n)
  BY <1>1, <1>2 DEF EntryOf, Catches
<1> QED
  BY <1>3 DEF f

\* An entry after its query is asked for.
LEMMA AskedIs ==
    ASSUME onScreen \in Screens, NEW k, NEW e, EntryOf(e, k),
           NEW q \in Client!Queries, q.key = k
    PROVE  /\ EntryOf(Client!Asked(e, q), k)
           /\ \A n : Catches(e, n) => Catches(Client!Asked(e, q), n)
BY FetchIs DEF Client!Asked

\* An entry after its invalidation.
LEMMA InvalidatedIs ==
    ASSUME onScreen \in Screens, observed \subseteq Client!Queries, NEW k, NEW e, EntryOf(e, k)
    PROVE  /\ EntryOf(Client!Invalidated(e, k), k)
           /\ e.data # Client!None /\ (\E q \in observed : q.key = k /\ q.enabled)
                => \A n : Catches(Client!Invalidated(e, k), n)
<1> DEFINE active == {q \in observed : q.key = k /\ q.enabled}
<1>1. CASE active = {}
  BY <1>1 DEF Client!Invalidated
<1>2. CASE active # {}
  <2> DEFINE q == CHOOSE q \in active : TRUE
  <2>1. q \in active
    BY <1>2
  <2>2. q \in Client!Queries /\ q.key = k
    BY <2>1
  <2> HIDE DEF q
  <2>3. /\ EntryOf(Client!Fetch(e, q.request), k)
        /\ \A n : Catches(Client!Fetch(e, q.request), n)
    BY <2>2, FetchIs
  <2> QED
    BY <1>2, <2>3 DEF Client!Invalidated, q
<1> QED
  BY <1>1, <1>2

-----------------------------------------------------------------------------
(* Reading *)

\* A screen stays what it is.
LEMMA QueryFrame ==
    ASSUME onScreen' = onScreen
    PROVE  /\ Client!Queries' = Client!Queries /\ Client!Uses' = Client!Uses
           /\ Client!Keys' = Client!Keys /\ Client!Shown' = Client!Shown
           /\ Client!MaxVersion' = Client!MaxVersion /\ Client!MaxFaults' = Client!MaxFaults
           /\ Client!Versions' = Client!Versions
           /\ Client!Entry' = Client!Entry /\ Client!Write' = Client!Write
           /\ \A k : EntryOf(entry[k], k)' <=> EntryOf(entry'[k], k)
<1>1. /\ Client!Queries' = Client!Queries /\ Client!Uses' = Client!Uses
      /\ Client!MaxVersion' = Client!MaxVersion /\ Client!MaxFaults' = Client!MaxFaults
  BY DEF Client!Queries, Client!Uses, Client!MaxVersion, Client!MaxFaults
<1>2. /\ Client!Keys' = Client!Keys /\ Client!Shown' = Client!Shown
      /\ Client!Requests' = Client!Requests /\ Client!Versions' = Client!Versions
  BY <1>1, Zenon DEF Client!Keys, Client!Shown, Client!Requests, Client!Versions
<1>3. Client!Entry' = Client!Entry /\ Client!Write' = Client!Write
  BY <1>1, <1>2, Zenon DEF Client!Entry, Client!Write
<1>4. \A k : EntryOf(entry[k], k)' <=> EntryOf(entry'[k], k)
  BY <1>1, <1>3 DEF EntryOf
<1> QED
  BY <1>1, <1>2, <1>3, <1>4

\* Entries that are asked for, answered, or fail.
LEMMA EntriesMove ==
    ASSUME QueryInv, onScreen' = onScreen, observed' \in SUBSET Client!Queries,
           write' = write, version' = version, queryFaults' \in 0..Client!MaxFaults,
           entry' = [k \in Client!Keys |-> entry'[k]],
           \A k \in Client!Keys : EntryOf(entry'[k], k),
           \A q \in Client!Queries :
              Catches(entry[q.key], write.made[q.request.path])
                => Catches(entry'[q.key], write.made[q.request.path])
    PROVE  QueryInv'
<1>1. /\ Client!Queries' = Client!Queries /\ Client!Uses' = Client!Uses
      /\ Client!Keys' = Client!Keys /\ Client!Shown' = Client!Shown
      /\ Client!MaxFaults' = Client!MaxFaults /\ Client!Versions' = Client!Versions
      /\ Client!Entry' = Client!Entry /\ Client!Write' = Client!Write
      /\ \A k : EntryOf(entry[k], k)' <=> EntryOf(entry'[k], k)
  BY QueryFrame
<1>2. entry' \in [Client!Keys -> Client!Entry]
  BY DEF EntryOf
<1>3. Client!TypeOK'
  BY <1>1, <1>2, Zenon DEF QueryInv, Client!TypeOK
<1>4. \A k \in Client!Keys' : EntryOf(entry[k], k)'
  BY <1>1
<1>5. /\ \A p \in Client!Shown' : write'.made[p] <= version'[p]
      /\ write'.stage # "idle" => write'.use \in Client!Uses'
  BY <1>1 DEF QueryInv
<1>6. Invalidated' <=> Invalidated
  BY DEF Invalidated, Client!IsConfirmation
<1>7. Client!Touched' = Client!Touched
  BY <1>1 DEF Client!Touched
<1>8. ASSUME write'.stage = "settled", Invalidated',
             NEW q \in Client!Queries', q.key \in write'.watched,
             q.request.path \in Client!Touched'
      PROVE  Catches(entry'[q.key], write'.made[q.request.path])
  <2>1. Catches(entry[q.key], write.made[q.request.path])
    BY <1>1, <1>6, <1>7, <1>8 DEF QueryInv
  <2> QED
    BY <1>1, <2>1
<1> QED
  BY <1>3, <1>4, <1>5, <1>8 DEF QueryInv, Catches

\* A query observer asks for its entry.
LEMMA AsksIs ==
    ASSUME QueryInv, NEW q \in Client!Queries,
           entry' = [entry EXCEPT ![q.key] = Client!Asked(entry[q.key], q)],
           observed' \in SUBSET Client!Queries,
           UNCHANGED <<onScreen, write, version, queryFaults>>
    PROVE  QueryInv'
<1>1. onScreen \in Screens /\ entry \in [Client!Keys -> Client!Entry]
      /\ queryFaults \in 0..Client!MaxFaults
  BY DEF QueryInv, Client!TypeOK
<1>2. q.key \in Client!Keys
  BY <1>1, QueriesOnScreen
<1>3. /\ entry' = [k \in Client!Keys |-> entry'[k]]
      /\ \A k \in Client!Keys : entry'[k] = IF k = q.key THEN Client!Asked(entry[q.key], q) ELSE entry[k]
  BY <1>1, <1>2
<1>4. /\ EntryOf(Client!Asked(entry[q.key], q), q.key)
      /\ \A n : Catches(entry[q.key], n) => Catches(Client!Asked(entry[q.key], q), n)
  <2>1. PICK k, e : k = q.key /\ e = entry[q.key]
    OBVIOUS
  <2>2. EntryOf(e, k)
    BY <1>2, <2>1 DEF QueryInv
  <2> QED
    BY <1>1, <2>1, <2>2, AskedIs
<1>5. \A k \in Client!Keys : EntryOf(entry'[k], k)
  BY <1>3, <1>4 DEF QueryInv
<1>6. \A r \in Client!Queries : \A n : Catches(entry[r.key], n) => Catches(entry'[r.key], n)
  BY <1>1, <1>3, <1>4, QueriesOnScreen
<1> QED
  BY <1>1, <1>3, <1>5, <1>6, EntriesMove

\* The window is focused: every observer that then asks does.
LEMMA FocusIs ==
    ASSUME QueryInv, Client!Focus
    PROVE  QueryInv'
<1> DEFINE asking == {q \in observed : q.focus}
           next(k) == IF \E q \in asking : q.key = k
                      THEN Client!Asked(entry[k], CHOOSE q \in asking : q.key = k)
                      ELSE entry[k]
<1>1. /\ onScreen \in Screens
      /\ observed \subseteq Client!Queries
      /\ queryFaults \in 0..Client!MaxFaults
  BY DEF QueryInv, Client!TypeOK
<1>2. /\ entry' = [k \in Client!Keys |-> next(k)]
      /\ UNCHANGED <<onScreen, observed, write, version, queryFaults>>
  BY DEF Client!Focus
<1>3. ASSUME NEW k \in Client!Keys
      PROVE  EntryOf(next(k), k) /\ \A n : Catches(entry[k], n) => Catches(next(k), n)
  <2>1. EntryOf(entry[k], k)
    BY DEF QueryInv
  <2>2. CASE \E q \in asking : q.key = k
    <3> DEFINE q == CHOOSE q \in asking : q.key = k
    <3>1. q \in Client!Queries /\ q.key = k
      BY <1>1, <2>2
    <3> HIDE DEF q
    <3>2. PICK r, e : r \in Client!Queries /\ r = q /\ e = entry[k]
      BY <3>1
    <3>3. /\ EntryOf(Client!Asked(e, r), k)
          /\ \A n : Catches(e, n) => Catches(Client!Asked(e, r), n)
      BY <1>1, <2>1, <3>1, <3>2, AskedIs
    <3> QED
      BY <2>2, <3>2, <3>3 DEF q
  <2>3. CASE ~\E q \in asking : q.key = k
    BY <2>1, <2>3
  <2> QED
    BY <2>2, <2>3
<1> HIDE DEF next
<1>4. /\ entry' = [k \in Client!Keys |-> entry'[k]]
      /\ \A k \in Client!Keys : entry'[k] = next(k)
  BY <1>2
<1>5. \A k \in Client!Keys : EntryOf(entry'[k], k)
  BY <1>3, <1>4
<1>6. \A r \in Client!Queries : \A n : Catches(entry[r.key], n) => Catches(entry'[r.key], n)
  BY <1>1, <1>3, <1>4, QueriesOnScreen
<1> QED
  BY <1>1, <1>2, <1>4, <1>5, <1>6, EntriesMove

\* One entry is read at the server, answered, or fails.
LEMMA EntryMoves ==
    ASSUME QueryInv, NEW k \in Client!Keys, NEW e, entry' = [entry EXCEPT ![k] = e], EntryOf(e, k),
           \A q \in Client!Queries : q.key = k =>
              (Catches(entry[k], write.made[q.request.path]) => Catches(e, write.made[q.request.path])),
           queryFaults' \in 0..Client!MaxFaults,
           UNCHANGED <<onScreen, observed, write, version>>
    PROVE  QueryInv'
<1>1. /\ onScreen \in Screens
      /\ entry \in [Client!Keys -> Client!Entry]
      /\ observed \subseteq Client!Queries
  BY DEF QueryInv, Client!TypeOK
<1>2. /\ entry' = [j \in Client!Keys |-> entry'[j]]
      /\ \A j \in Client!Keys : entry'[j] = IF j = k THEN e ELSE entry[j]
  BY <1>1
<1>3. \A j \in Client!Keys : EntryOf(entry'[j], j)
  BY <1>2 DEF QueryInv
<1>4. \A r \in Client!Queries :
         Catches(entry[r.key], write.made[r.request.path]) => Catches(entry'[r.key], write.made[r.request.path])
  BY <1>1, <1>2, QueriesOnScreen
<1> QED
  BY <1>1, <1>2, <1>3, <1>4, EntriesMove

\* The server reads what was asked.
LEMMA ServerReadsIs ==
    ASSUME QueryInv, NEW k \in Client!Keys, Client!ServerReads(k)
    PROVE  QueryInv'
<1>1. /\ onScreen \in Screens /\ entry \in [Client!Keys -> Client!Entry]
      /\ queryFaults \in 0..Client!MaxFaults /\ version \in [Client!Shown -> Client!Versions]
  BY DEF QueryInv, Client!TypeOK
<1>2. PICK q \in Client!Queries : q.key = k
  BY <1>1, QueriesOnScreen
<1>3. EntryOf(entry[k], k) /\ entry[k].fetch = "sent"
  BY DEF QueryInv, Client!ServerReads
<1>4. entry[k].asks = q.request
  BY <1>2, <1>3 DEF EntryOf
<1>5. PICK n : n = version[q.request.path] /\ n \in Client!Versions
  BY <1>1, <1>2, QueriesOnScreen
<1> DEFINE e == [entry[k] EXCEPT !.fetch = "read", !.got = n]
<1>6. /\ entry' = [entry EXCEPT ![k] = e]
      /\ UNCHANGED <<onScreen, observed, write, version, queryFaults>>
  BY <1>1, <1>4, <1>5 DEF Client!ServerReads
<1>7. e \in Client!Entry /\ e.fetch = "read" /\ e.got = n /\ e.data = entry[k].data /\ e.of = entry[k].of
      /\ e.asks = entry[k].asks
  <2>p. PICK D, O, R, F, V, N :
           /\ D = Client!Versions \cup {Client!None} /\ O = Client!Requests \cup {Client!NoRequest}
           /\ R = {"none", "client", "transient"} /\ F = {"idle", "sent", "read"}
           /\ V = Client!Versions /\ N = 0..2
           /\ Client!Entry = [data: D, of: O, error: R, fetch: F, asks: O, got: V, failures: N]
    BY EntryIs
  <2>1. /\ Client!Entry = [data: D, of: O, error: R, fetch: F, asks: O, got: V, failures: N]
        /\ n \in V /\ "read" \in F
    BY <1>5, <2>p
  <2>2. PICK d : d = entry[k]
    OBVIOUS
  <2>3. d \in Client!Entry
    BY <1>1, <2>2
  <2>4. [d EXCEPT !.fetch = "read", !.got = n] \in Client!Entry
    BY <2>1, <2>3
  <2>5. e = [d EXCEPT !.fetch = "read", !.got = n]
    BY <2>2
  <2> QED
    BY <2>1, <2>2, <2>3, <2>4, <2>5
<1> HIDE DEF e
<1>c. PICK c : c = e
  OBVIOUS
<1>8. EntryOf(c, k)
  BY <1>3, <1>7, <1>c DEF EntryOf
<1>9. ASSUME NEW r \in Client!Queries, r.key = k PROVE Catches(c, write.made[r.request.path])
  <2>1. r.request = q.request /\ r.request.path \in Client!Shown
    BY <1>1, <1>2, <1>9, QueriesOnScreen
  <2>2. write.made[r.request.path] <= version[r.request.path]
    BY <2>1 DEF QueryInv
  <2>3. write.made[r.request.path] \in Int /\ n \in Int
    <3>1. write.made \in [Client!Shown -> Client!Versions]
      BY DEF QueryInv, Client!TypeOK, Client!Write
    <3>2. Client!Versions \subseteq Int
      BY <1>1, QueriesOnScreen DEF Client!Versions
    <3> QED
      BY <1>5, <2>1, <3>1, <3>2
  <2> QED
    BY <1>5, <1>7, <1>c, <2>1, <2>2, <2>3 DEF Catches
<1>10. \A r \in Client!Queries : r.key = k =>
          (Catches(entry[k], write.made[r.request.path]) => Catches(c, write.made[r.request.path]))
  BY <1>9
<1>11. entry' = [entry EXCEPT ![k] = c]
  BY <1>6, <1>c
<1> QED
  BY <1>1, <1>6, <1>8, <1>10, <1>11, EntryMoves

\* An answer arrives.
LEMMA AnsweredIs ==
    ASSUME QueryInv, NEW k \in Client!Keys, Client!Answered(k)
    PROVE  QueryInv'
<1>1. /\ onScreen \in Screens /\ entry \in [Client!Keys -> Client!Entry]
      /\ queryFaults \in 0..Client!MaxFaults
  BY DEF QueryInv, Client!TypeOK
<1>3. EntryOf(entry[k], k) /\ entry[k].fetch = "read"
  BY DEF QueryInv, Client!Answered
<1> DEFINE d == entry[k]
           e == [Client!Empty EXCEPT !.data = d.got, !.of = d.asks]
<1>6. /\ entry' = [entry EXCEPT ![k] = e]
      /\ UNCHANGED <<onScreen, observed, write, version, queryFaults>>
  BY <1>1 DEF Client!Answered
<1>7. e \in Client!Entry /\ e.fetch = "idle" /\ e.data = d.got /\ e.of = d.asks
  <2>0. 0 \in Client!Versions
    BY <1>1, QueriesOnScreen DEF Client!Versions
  <2>p. PICK D, O, R, F, V, N :
           /\ D = Client!Versions \cup {Client!None} /\ O = Client!Requests \cup {Client!NoRequest}
           /\ R = {"none", "client", "transient"} /\ F = {"idle", "sent", "read"}
           /\ V = Client!Versions /\ N = 0..2
           /\ Client!Entry = [data: D, of: O, error: R, fetch: F, asks: O, got: V, failures: N]
    BY EntryIs
  <2>1. /\ Client!Entry = [data: D, of: O, error: R, fetch: F, asks: O, got: V, failures: N]
        /\ V \subseteq D /\ 0 \in V /\ Client!None \in D /\ Client!NoRequest \in O
        /\ "idle" \in F /\ "none" \in R /\ 0 \in N
    BY <2>0, <2>p
  <2>2. PICK g, a : g = d.got /\ a = d.asks
    OBVIOUS
  <2>3. g \in D /\ a \in O
    BY <1>1, <2>1, <2>2
  <2>4. Client!Empty \in Client!Entry /\ Client!Empty.fetch = "idle"
    BY <2>1 DEF Client!Empty
  <2>5. [Client!Empty EXCEPT !.data = g, !.of = a] \in Client!Entry
    BY <2>1, <2>3, <2>4
  <2> QED
    BY <2>1, <2>2, <2>4, <2>5
<1> HIDE DEF e
<1>c. PICK c : c = e
  OBVIOUS
<1>8. EntryOf(c, k)
  BY <1>3, <1>7, <1>c DEF EntryOf
<1>9. \A n : Catches(entry[k], n) => Catches(c, n)
  BY <1>3, <1>7, <1>c DEF Catches
<1>10. \A q \in Client!Queries : q.key = k =>
          (Catches(entry[k], write.made[q.request.path]) => Catches(c, write.made[q.request.path]))
  BY <1>9
<1>11. entry' = [entry EXCEPT ![k] = c]
  BY <1>6, <1>c
<1> QED
  BY <1>1, <1>6, <1>8, <1>10, <1>11, EntryMoves

\* A request fails.
LEMMA FailsIs ==
    ASSUME QueryInv, NEW k \in Client!Keys, NEW kind \in {"client", "transient"}, Client!Fails(k, kind)
    PROVE  QueryInv'
<1>1. /\ onScreen \in Screens /\ entry \in [Client!Keys -> Client!Entry]
      /\ queryFaults' \in 0..Client!MaxFaults
  <2>1. /\ onScreen \in Screens /\ entry \in [Client!Keys -> Client!Entry]
        /\ queryFaults \in 0..Client!MaxFaults
    BY DEF QueryInv, Client!TypeOK
  <2> QED
    BY <2>1, QueriesOnScreen DEF Client!Fails
<1>2. PICK d : d = entry[k]
  OBVIOUS
<1>3. EntryOf(d, k) /\ d.fetch # "idle" /\ d \in Client!Entry
  BY <1>1, <1>2 DEF QueryInv, Client!Fails
<1> DEFINE e == IF Client!Retries(d.failures, kind)
                THEN [d EXCEPT !.fetch = "sent", !.failures = d.failures + 1]
                ELSE [d EXCEPT !.fetch = "idle", !.error = kind]
<1>6. entry' = [entry EXCEPT ![k] = e] /\ UNCHANGED <<onScreen, observed, write, version>>
  BY <1>1, <1>2 DEF Client!Fails
<1>7. /\ e \in Client!Entry /\ e.data = d.data /\ e.of = d.of /\ e.asks = d.asks
      /\ e.fetch = "sent" \/ (e.fetch = "idle" /\ e.error = kind)
  <2>p. PICK D, O, R, F, V, N :
           /\ D = Client!Versions \cup {Client!None} /\ O = Client!Requests \cup {Client!NoRequest}
           /\ R = {"none", "client", "transient"} /\ F = {"idle", "sent", "read"}
           /\ V = Client!Versions /\ N = 0..2
           /\ Client!Entry = [data: D, of: O, error: R, fetch: F, asks: O, got: V, failures: N]
    BY EntryIs
  <2>1. /\ Client!Entry = [data: D, of: O, error: R, fetch: F, asks: O, got: V, failures: N]
        /\ "sent" \in F /\ "idle" \in F /\ kind \in R /\ N = 0..2
    BY <2>p
  <2>2. d \in Client!Entry
    BY <1>3
  <2>3. CASE Client!Retries(d.failures, kind)
    <3>1. d.failures \in 0..2
      BY <2>1, <2>2
    <3>3. d.failures + 1 \in N
      BY <2>1, <2>3, <3>1 DEF Client!Retries
    <3>2. e = [d EXCEPT !.fetch = "sent", !.failures = d.failures + 1]
      BY <2>3
    <3> QED
      BY <2>1, <2>2, <3>2, <3>3
  <2>4. CASE ~Client!Retries(d.failures, kind)
    <3>1. e = [d EXCEPT !.fetch = "idle", !.error = kind]
      BY <2>4
    <3> QED
      BY <2>1, <2>2, <3>1
  <2> QED
    BY <2>3, <2>4
<1> HIDE DEF e
<1>c. PICK c : c = e
  OBVIOUS
<1>8. EntryOf(c, k)
  BY <1>3, <1>7, <1>c DEF EntryOf
<1>9. \A n : Catches(c, n)
  BY <1>7, <1>c DEF Catches
<1>10. \A q \in Client!Queries : q.key = k =>
          (Catches(entry[k], write.made[q.request.path]) => Catches(c, write.made[q.request.path]))
  BY <1>9
<1>11. entry' = [entry EXCEPT ![k] = c]
  BY <1>6, <1>c
<1> QED
  BY <1>1, <1>6, <1>8, <1>10, <1>11, EntryMoves

-----------------------------------------------------------------------------
(* Writing *)

\* The write's type, taken apart.
LEMMA WriteIs ==
    \E U, S, O, M, W :
       /\ U = Client!Uses \cup {Client!NoUse} /\ S = {"idle", "sent", "answered", "settled"}
       /\ O = {"ok", "conflict", "error"} /\ M = [Client!Shown -> Client!Versions]
       /\ W = SUBSET Client!Keys
       /\ Client!Write = [use: U, stage: S, outcome: O, made: M, watched: W]
BY Zenon DEF Client!Write

\* Numbers that the versions are.
LEMMA VersionsAre ==
    ASSUME QueryInv
    PROVE  /\ Client!Versions \subseteq Nat /\ 0 \in Client!Versions
           /\ \A p \in Client!Shown : version[p] \in Client!Versions /\ write.made[p] \in Client!Versions
<1>1. /\ onScreen \in Screens
      /\ version \in [Client!Shown -> Client!Versions]
      /\ write \in Client!Write
  BY DEF QueryInv, Client!TypeOK
<1>2. write.made \in [Client!Shown -> Client!Versions]
  BY <1>1 DEF Client!Write
<1>3. Client!Versions \subseteq Nat /\ 0 \in Client!Versions
  BY <1>1, QueriesOnScreen DEF Client!Versions
<1> QED
  BY <1>1, <1>2, <1>3

\* A mutation that is under way.
LEMMA WriteMoves ==
    ASSUME QueryInv, NEW w \in Client!Write, write' = w, w.stage # "settled",
           w.stage # "idle" => w.use \in Client!Uses,
           version' \in [Client!Shown -> Client!Versions],
           \A p \in Client!Shown : w.made[p] <= version'[p],
           queryFaults' \in 0..Client!MaxFaults, UNCHANGED <<onScreen, entry, observed>>
    PROVE  QueryInv'
<1>1. /\ Client!Queries' = Client!Queries /\ Client!Uses' = Client!Uses
      /\ Client!Keys' = Client!Keys /\ Client!Shown' = Client!Shown
      /\ Client!MaxFaults' = Client!MaxFaults /\ Client!Versions' = Client!Versions
      /\ Client!Entry' = Client!Entry /\ Client!Write' = Client!Write
      /\ \A k : EntryOf(entry[k], k)' <=> EntryOf(entry'[k], k)
  BY QueryFrame
<1>2. Client!TypeOK'
  BY <1>1, Zenon DEF QueryInv, Client!TypeOK
<1>3. \A k \in Client!Keys' : EntryOf(entry[k], k)'
  BY <1>1 DEF QueryInv
<1> QED
  BY <1>1, <1>2, <1>3 DEF QueryInv

\* A mutation is sent.
LEMMA MutateIs ==
    ASSUME QueryInv, NEW u \in Client!Uses, Client!Mutate(u)
    PROVE  QueryInv'
<1>1. /\ onScreen \in Screens /\ entry \in [Client!Keys -> Client!Entry]
      /\ observed \subseteq Client!Queries /\ queryFaults \in 0..Client!MaxFaults
      /\ version \in [Client!Shown -> Client!Versions] /\ write \in Client!Write
  BY DEF QueryInv, Client!TypeOK
<1>2. PICK w : w = write
  OBVIOUS
<1>3. PICK z : z = [p \in Client!Shown |-> 0]
  OBVIOUS
<1> DEFINE v == [w EXCEPT !.use = u, !.stage = "sent", !.outcome = "ok", !.watched = {}, !.made = z]
<1>4. v \in Client!Write
  <2>p. PICK U, S, O, M, W :
           /\ U = Client!Uses \cup {Client!NoUse} /\ S = {"idle", "sent", "answered", "settled"}
           /\ O = {"ok", "conflict", "error"} /\ M = [Client!Shown -> Client!Versions]
           /\ W = SUBSET Client!Keys
           /\ Client!Write = [use: U, stage: S, outcome: O, made: M, watched: W]
    BY WriteIs
  <2>1. /\ Client!Write = [use: U, stage: S, outcome: O, made: M, watched: W]
        /\ u \in U /\ "sent" \in S /\ "ok" \in O /\ z \in M /\ {} \in W
    BY <1>3, <2>p, VersionsAre
  <2>2. w \in Client!Write
    BY <1>1, <1>2
  <2> QED
    BY <2>1, <2>2
<1>5. v.use = u /\ v.stage = "sent" /\ v.made = z
  BY <1>1, <1>2 DEF Client!Write
<1>6. write' = v /\ UNCHANGED <<onScreen, entry, observed, version, queryFaults>>
  BY <1>2, <1>3 DEF Client!Mutate
<1> HIDE DEF v
<1>7. \A p \in Client!Shown : v.made[p] <= version'[p]
  BY <1>3, <1>5, <1>6, VersionsAre
<1> QED
  BY <1>1, <1>4, <1>5, <1>6, <1>7, WriteMoves

\* The server answers 409.
LEMMA ConflictIs ==
    ASSUME QueryInv, Client!ConflictMutation
    PROVE  QueryInv'
<1>1. /\ onScreen \in Screens /\ entry \in [Client!Keys -> Client!Entry]
      /\ observed \subseteq Client!Queries /\ queryFaults \in 0..Client!MaxFaults
      /\ version \in [Client!Shown -> Client!Versions] /\ write \in Client!Write
  BY DEF QueryInv, Client!TypeOK
<1>2. PICK w : w = write
  OBVIOUS
<1>3. PICK z : z = version
  OBVIOUS
<1> DEFINE v == [w EXCEPT !.stage = "answered", !.outcome = "conflict", !.made = z]
<1>4. v \in Client!Write
  <2>p. PICK U, S, O, M, W :
           /\ U = Client!Uses \cup {Client!NoUse} /\ S = {"idle", "sent", "answered", "settled"}
           /\ O = {"ok", "conflict", "error"} /\ M = [Client!Shown -> Client!Versions]
           /\ W = SUBSET Client!Keys
           /\ Client!Write = [use: U, stage: S, outcome: O, made: M, watched: W]
    BY WriteIs
  <2>1. /\ Client!Write = [use: U, stage: S, outcome: O, made: M, watched: W]
        /\ "answered" \in S /\ "conflict" \in O /\ z \in M
    BY <1>1, <1>3, <2>p
  <2>2. w \in Client!Write
    BY <1>1, <1>2
  <2> QED
    BY <2>1, <2>2
<1>5. v.use = w.use /\ v.stage = "answered" /\ v.made = z
  BY <1>1, <1>2 DEF Client!Write
<1>6. /\ write' = v
      /\ UNCHANGED <<onScreen, entry, observed, version, queryFaults>>
      /\ w.stage = "sent"
  BY <1>2, <1>3 DEF Client!ConflictMutation
<1> HIDE DEF v
<1>7. \A p \in Client!Shown : v.made[p] <= version'[p]
  BY <1>3, <1>5, <1>6, VersionsAre
<1>8. v.use \in Client!Uses
  BY <1>2, <1>5, <1>6 DEF QueryInv
<1> QED
  BY <1>1, <1>4, <1>5, <1>6, <1>7, <1>8, WriteMoves

\* The mutation fails.
LEMMA FailIs ==
    ASSUME QueryInv, Client!FailMutation
    PROVE  QueryInv'
<1>1. /\ onScreen \in Screens /\ entry \in [Client!Keys -> Client!Entry]
      /\ observed \subseteq Client!Queries /\ queryFaults \in 0..Client!MaxFaults
      /\ version \in [Client!Shown -> Client!Versions] /\ write \in Client!Write
  BY DEF QueryInv, Client!TypeOK
<1>2. PICK w : w = write
  OBVIOUS
<1> DEFINE v == [w EXCEPT !.stage = "answered", !.outcome = "error"]
<1>4. v \in Client!Write
  <2>p. PICK U, S, O, M, W :
           /\ U = Client!Uses \cup {Client!NoUse} /\ S = {"idle", "sent", "answered", "settled"}
           /\ O = {"ok", "conflict", "error"} /\ M = [Client!Shown -> Client!Versions]
           /\ W = SUBSET Client!Keys
           /\ Client!Write = [use: U, stage: S, outcome: O, made: M, watched: W]
    BY WriteIs
  <2>1. /\ Client!Write = [use: U, stage: S, outcome: O, made: M, watched: W]
        /\ "answered" \in S /\ "error" \in O
    BY <2>p
  <2>2. w \in Client!Write
    BY <1>1, <1>2
  <2> QED
    BY <2>1, <2>2
<1>5. v.use = w.use /\ v.stage = "answered" /\ v.made = w.made
  BY <1>1, <1>2 DEF Client!Write
<1>6. /\ write' = v /\ UNCHANGED <<onScreen, entry, observed, version>> /\ w.stage = "sent"
      /\ queryFaults' = queryFaults + 1 /\ queryFaults < Client!MaxFaults
  BY <1>2 DEF Client!FailMutation
<1> HIDE DEF v
<1>7. \A p \in Client!Shown : v.made[p] <= version'[p]
  BY <1>2, <1>5, <1>6 DEF QueryInv
<1>8. v.use \in Client!Uses
  BY <1>2, <1>5, <1>6 DEF QueryInv
<1>9. queryFaults' \in 0..Client!MaxFaults
  BY <1>1, <1>6, QueriesOnScreen
<1> QED
  BY <1>1, <1>4, <1>5, <1>6, <1>7, <1>8, <1>9, WriteMoves

\* The server serves the mutation.
LEMMA ServeIs ==
    ASSUME QueryInv, Client!ServeMutation
    PROVE  QueryInv'
<1>1. /\ onScreen \in Screens /\ entry \in [Client!Keys -> Client!Entry]
      /\ observed \subseteq Client!Queries /\ queryFaults \in 0..Client!MaxFaults
      /\ version \in [Client!Shown -> Client!Versions] /\ write \in Client!Write
  BY DEF QueryInv, Client!TypeOK
<1>2. PICK w : w = write
  OBVIOUS
<1>3. PICK z : z = version'
  OBVIOUS
<1>t. z \in [Client!Shown -> Client!Versions]
  <2>1. z = [p \in Client!Shown |-> IF p \in Client!Touched THEN version[p] + 1 ELSE version[p]]
    BY <1>3 DEF Client!ServeMutation
  <2>2. \A p \in Client!Touched : version[p] < Client!MaxVersion
    BY DEF Client!ServeMutation
  <2>3. \A p \in Client!Shown : version[p] \in Client!Versions
    BY VersionsAre
  <2>4. \A p \in Client!Shown : (IF p \in Client!Touched THEN version[p] + 1 ELSE version[p]) \in Client!Versions
    BY <1>1, <2>2, <2>3, QueriesOnScreen DEF Client!Versions
  <2> QED
    BY <2>1, <2>4
<1> DEFINE v == [w EXCEPT !.stage = "answered", !.made = z]
<1>4. v \in Client!Write
  <2>p. PICK U, S, O, M, W :
           /\ U = Client!Uses \cup {Client!NoUse} /\ S = {"idle", "sent", "answered", "settled"}
           /\ O = {"ok", "conflict", "error"} /\ M = [Client!Shown -> Client!Versions]
           /\ W = SUBSET Client!Keys
           /\ Client!Write = [use: U, stage: S, outcome: O, made: M, watched: W]
    BY WriteIs
  <2>1. /\ Client!Write = [use: U, stage: S, outcome: O, made: M, watched: W]
        /\ "answered" \in S /\ z \in M
    BY <1>t, <2>p
  <2>2. w \in Client!Write
    BY <1>1, <1>2
  <2> QED
    BY <2>1, <2>2
<1>5. v.use = w.use /\ v.stage = "answered" /\ v.made = z
  BY <1>1, <1>2 DEF Client!Write
<1>6. write' = v /\ UNCHANGED <<onScreen, entry, observed, queryFaults>> /\ w.stage = "sent"
  BY <1>2, <1>3 DEF Client!ServeMutation
<1> HIDE DEF v
<1>7. \A p \in Client!Shown : v.made[p] <= version'[p]
  <2>1. \A p \in Client!Shown : z[p] \in Nat
    BY <1>t, VersionsAre
  <2> QED
    BY <1>3, <1>5, <2>1
<1>8. v.use \in Client!Uses
  BY <1>2, <1>5, <1>6 DEF QueryInv
<1> QED
  BY <1>1, <1>3, <1>t, <1>4, <1>5, <1>6, <1>7, <1>8, WriteMoves

-----------------------------------------------------------------------------
(* Leaving a screen, and every step *)

\* A component leaves the screen.
LEMMA UnmountIs ==
    ASSUME QueryInv, NEW q \in Client!Queries, Client!Unmount(q)
    PROVE  QueryInv'
<1>1. /\ onScreen \in Screens /\ entry \in [Client!Keys -> Client!Entry]
      /\ observed \subseteq Client!Queries /\ queryFaults \in 0..Client!MaxFaults
      /\ version \in [Client!Shown -> Client!Versions] /\ write \in Client!Write
  BY DEF QueryInv, Client!TypeOK
<1>2. PICK w : w = write
  OBVIOUS
<1>3. PICK z : z = w.watched \ {q.key}
  OBVIOUS
<1> DEFINE v == [w EXCEPT !.watched = z]
<1>4. v \in Client!Write
  <2>p. PICK U, S, O, M, W :
           /\ U = Client!Uses \cup {Client!NoUse} /\ S = {"idle", "sent", "answered", "settled"}
           /\ O = {"ok", "conflict", "error"} /\ M = [Client!Shown -> Client!Versions]
           /\ W = SUBSET Client!Keys
           /\ Client!Write = [use: U, stage: S, outcome: O, made: M, watched: W]
    BY WriteIs
  <2>q. w.watched \in SUBSET Client!Keys
    BY <1>1, <1>2 DEF Client!Write
  <2>1. /\ Client!Write = [use: U, stage: S, outcome: O, made: M, watched: W]
        /\ z \in W
    BY <1>1, <1>2, <1>3, <2>p, <2>q
  <2>2. w \in Client!Write
    BY <1>1, <1>2
  <2> QED
    BY <2>1, <2>2
<1>5. /\ v.use = w.use
      /\ v.stage = w.stage
      /\ v.outcome = w.outcome
      /\ v.made = w.made
      /\ v.watched = z
  BY <1>1, <1>2 DEF Client!Write
<1>6. /\ write' = v
      /\ observed' = observed \ {q}
      /\ UNCHANGED <<onScreen, entry, version, queryFaults>>
  BY <1>2, <1>3 DEF Client!Unmount
<1> HIDE DEF v
<1>f. /\ Client!Queries' = Client!Queries /\ Client!Uses' = Client!Uses
      /\ Client!Keys' = Client!Keys /\ Client!Shown' = Client!Shown
      /\ Client!MaxFaults' = Client!MaxFaults /\ Client!Versions' = Client!Versions
      /\ Client!Entry' = Client!Entry /\ Client!Write' = Client!Write
      /\ \A k : EntryOf(entry[k], k)' <=> EntryOf(entry'[k], k)
  BY <1>6, QueryFrame
<1>7. Client!TypeOK'
  BY <1>1, <1>4, <1>6, <1>f DEF Client!TypeOK
<1>8. /\ \A k \in Client!Keys' : EntryOf(entry[k], k)'
      /\ \A p \in Client!Shown' : write'.made[p] <= version'[p]
      /\ write'.stage # "idle" => write'.use \in Client!Uses'
  BY <1>2, <1>5, <1>6, <1>f DEF QueryInv
<1>9. /\ Invalidated' <=> Invalidated
      /\ Client!Touched' = Client!Touched
  BY <1>2, <1>5, <1>6, <1>f DEF Invalidated, Client!IsConfirmation, Client!Touched,
     Client!LeavesStale
<1>10. ASSUME write'.stage = "settled", Invalidated', NEW r \in Client!Queries',
              r.key \in write'.watched, r.request.path \in Client!Touched'
       PROVE  Catches(entry'[r.key], write'.made[r.request.path])
  <2>1. Catches(entry[r.key], write.made[r.request.path])
    BY <1>2, <1>3, <1>5, <1>6, <1>f, <1>9, <1>10 DEF QueryInv
  <2> QED
    BY <1>2, <1>5, <1>6, <2>1
<1> QED
  BY <1>7, <1>8, <1>10 DEF QueryInv, Catches

\* Somebody else changes what a path shows.
LEMMA OthersChangeIs ==
    ASSUME QueryInv, NEW p \in Client!Shown, Client!OthersChange(p)
    PROVE  QueryInv'
<1>1. /\ onScreen \in Screens /\ entry \in [Client!Keys -> Client!Entry]
      /\ observed \subseteq Client!Queries /\ queryFaults \in 0..Client!MaxFaults
      /\ version \in [Client!Shown -> Client!Versions] /\ write \in Client!Write
  BY DEF QueryInv, Client!TypeOK
<1>2. /\ version' = [version EXCEPT ![p] = version[p] + 1] /\ version[p] < Client!MaxVersion
      /\ queryFaults' = queryFaults + 1 /\ queryFaults < Client!MaxFaults
      /\ UNCHANGED <<onScreen, entry, observed, write>>
  BY DEF Client!OthersChange
<1>f. /\ Client!Queries' = Client!Queries /\ Client!Uses' = Client!Uses
      /\ Client!Keys' = Client!Keys /\ Client!Shown' = Client!Shown
      /\ Client!MaxFaults' = Client!MaxFaults /\ Client!Versions' = Client!Versions
      /\ Client!Entry' = Client!Entry /\ Client!Write' = Client!Write
      /\ \A k : EntryOf(entry[k], k)' <=> EntryOf(entry'[k], k)
  BY <1>2, QueryFrame
<1>3. version' \in [Client!Shown -> Client!Versions] /\ queryFaults' \in 0..Client!MaxFaults
  <2>1. version[p] + 1 \in Client!Versions
    BY <1>1, <1>2, VersionsAre, QueriesOnScreen DEF Client!Versions
  <2> QED
    BY <1>1, <1>2, <2>1, QueriesOnScreen
<1>7. Client!TypeOK'
  BY <1>1, <1>2, <1>3, <1>f DEF Client!TypeOK
<1>4. \A s \in Client!Shown : write.made[s] <= version'[s]
  <2> SUFFICES ASSUME NEW s \in Client!Shown PROVE write.made[s] <= version'[s]
    OBVIOUS
  <2>1. write.made[s] <= version[s] /\ write.made[s] \in Nat /\ version[s] \in Nat
    BY VersionsAre DEF QueryInv
  <2>2. version'[s] = IF s = p THEN version[s] + 1 ELSE version[s]
    BY <1>1, <1>2
  <2> QED
    BY <2>1, <2>2
<1>8. /\ \A k \in Client!Keys' : EntryOf(entry[k], k)'
      /\ \A s \in Client!Shown' : write'.made[s] <= version'[s]
      /\ write'.stage # "idle" => write'.use \in Client!Uses'
  BY <1>2, <1>4, <1>f DEF QueryInv
<1>9. /\ Invalidated' <=> Invalidated
      /\ Client!Touched' = Client!Touched
  BY <1>2, <1>f DEF Invalidated, Client!IsConfirmation, Client!Touched,
     Client!LeavesStale
<1>10. ASSUME write'.stage = "settled", Invalidated', NEW r \in Client!Queries',
              r.key \in write'.watched, r.request.path \in Client!Touched'
       PROVE  Catches(entry'[r.key], write'.made[r.request.path])
  BY <1>2, <1>f, <1>9, <1>10 DEF QueryInv
<1> QED
  BY <1>7, <1>8, <1>10 DEF QueryInv, Catches

\* A mutation settles: what it changed and is on screen is asked for again.
LEMMA SettlesIs ==
    ASSUME QueryInv, Client!MutationSettles
    PROVE  QueryInv'
<1>1. /\ onScreen \in Screens /\ entry \in [Client!Keys -> Client!Entry]
      /\ observed \subseteq Client!Queries /\ queryFaults \in 0..Client!MaxFaults
      /\ version \in [Client!Shown -> Client!Versions] /\ write \in Client!Write
  BY DEF QueryInv, Client!TypeOK
<1>2. PICK w : w = write
  OBVIOUS
<1> DEFINE m == write.use.mutation
           keys == CASE write.outcome = "ok" -> m.onSuccess
                     [] write.outcome = "conflict" -> m.onConflict
                     [] OTHER -> {}
           next(k) == IF Client!Invalidates(keys, k) THEN Client!Invalidated(entry[k], k) ELSE entry[k]
<1>3. PICK z : z = {q.key : q \in {r \in observed : r.enabled /\ entry[r.key].data # Client!None}}
  OBVIOUS
<1> DEFINE v == [w EXCEPT !.stage = "settled", !.watched = z]
<1>z. z \in SUBSET Client!Keys
  <2>1. \A r \in observed : r.key \in Client!Keys
    BY <1>1, QueriesOnScreen
  <2> QED
    BY <1>3, <2>1
<1>4. v \in Client!Write
  <2>p. PICK U, S, O, M, W :
           /\ U = Client!Uses \cup {Client!NoUse} /\ S = {"idle", "sent", "answered", "settled"}
           /\ O = {"ok", "conflict", "error"} /\ M = [Client!Shown -> Client!Versions]
           /\ W = SUBSET Client!Keys
           /\ Client!Write = [use: U, stage: S, outcome: O, made: M, watched: W]
    BY WriteIs
  <2>1. /\ Client!Write = [use: U, stage: S, outcome: O, made: M, watched: W]
        /\ "settled" \in S /\ z \in W
    BY <1>z, <2>p
  <2>2. w \in Client!Write
    BY <1>1, <1>2
  <2> QED
    BY <2>1, <2>2
<1>5. /\ v.use = w.use
      /\ v.stage = "settled"
      /\ v.outcome = w.outcome
      /\ v.made = w.made
      /\ v.watched = z
  BY <1>1, <1>2 DEF Client!Write
<1>6. /\ write' = v /\ UNCHANGED <<onScreen, observed, version, queryFaults>>
      /\ entry' = [k \in Client!Keys |-> next(k)] /\ w.stage = "answered"
  BY <1>2, <1>3 DEF Client!MutationSettles
<1> HIDE DEF v, next
<1>f. /\ Client!Queries' = Client!Queries /\ Client!Uses' = Client!Uses
      /\ Client!Keys' = Client!Keys /\ Client!Shown' = Client!Shown
      /\ Client!MaxFaults' = Client!MaxFaults /\ Client!Versions' = Client!Versions
      /\ Client!Entry' = Client!Entry /\ Client!Write' = Client!Write
      /\ \A k : EntryOf(entry[k], k)' <=> EntryOf(entry'[k], k)
  BY <1>6, QueryFrame
<1>11. ASSUME NEW k \in Client!Keys
       PROVE  /\ EntryOf(next(k), k)
              /\ Client!Invalidates(keys, k) /\ entry[k].data # Client!None
                   /\ (\E q \in observed : q.key = k /\ q.enabled)
                   => \A n : Catches(next(k), n)
  <2>1. PICK e : e = entry[k]
    OBVIOUS
  <2>2. EntryOf(e, k)
    BY <2>1 DEF QueryInv
  <2>3. /\ EntryOf(Client!Invalidated(e, k), k)
        /\ e.data # Client!None /\ (\E q \in observed : q.key = k /\ q.enabled)
             => \A n : Catches(Client!Invalidated(e, k), n)
    BY <1>1, <2>2, InvalidatedIs
  <2> HIDE DEF keys
  <2> QED
    BY <2>1, <2>2, <2>3 DEF next
<1>12. \A k \in Client!Keys : entry'[k] = next(k)
  BY <1>6
<1>7. Client!TypeOK'
  <2>1. entry' \in [Client!Keys -> Client!Entry]
    BY <1>6, <1>11 DEF EntryOf
  <2> QED
    BY <1>1, <1>4, <1>6, <1>f, <2>1 DEF Client!TypeOK
<1>8. /\ \A k \in Client!Keys' : EntryOf(entry[k], k)'
      /\ \A p \in Client!Shown' : write'.made[p] <= version'[p]
      /\ write'.stage # "idle" => write'.use \in Client!Uses'
  BY <1>2, <1>5, <1>6, <1>11, <1>12, <1>f DEF QueryInv
<1>9. /\ Invalidated' <=> Invalidated
      /\ Client!Touched' = Client!Touched
  BY <1>2, <1>5, <1>6, <1>f DEF Invalidated, Client!IsConfirmation, Client!Touched,
     Client!LeavesStale
<1>10. ASSUME Invalidated, NEW q \in Client!Queries,
              q.key \in z, q.request.path \in Client!Touched
       PROVE  \A n : Catches(entry'[q.key], n)
  <2>1. PICK r \in observed : r.enabled /\ r.key = q.key /\ entry[r.key].data # Client!None
    BY <1>3, <1>10
  <2>2. r \in Client!Queries /\ q \in Client!QueryHooks /\ r.request = q.request /\ q.key \in Client!Keys
    BY <1>1, <2>1, QueriesOnScreen
  <2>3. write.use \in Client!Uses /\ m \in Client!MutationHooks
    BY <1>1, <1>2, <1>6, QueriesOnScreen DEF QueryInv
  <2>4. q.request.path \in Client!Changes(m.request) /\ r.request.path \in Client!Changes(m.request)
    BY <1>10, <2>2 DEF Client!Touched
  <2>6. PICK c : c = m
    OBVIOUS
  <2>5. c.onSuccess # {}
    <3>1. ~Client!LeavesStale(c.request) /\ Client!Changes(c.request) # {}
      BY <1>10, <2>4, <2>6 DEF Invalidated
    <3> QED
      BY <2>3, <2>6, <3>1, SilentHooks
  <2>7. /\ Client!Invalidates(c.onSuccess, q.key)
        /\ c.request.method = "put" => Client!Invalidates(c.onConflict, q.key)
    BY <2>2, <2>3, <2>4, <2>5, <2>6, InvalidationsReach
  <2>8. Client!Invalidates(keys, q.key)
    <3>1. CASE write.outcome = "ok"
      BY <2>6, <2>7, <3>1
    <3>2. CASE write.outcome = "conflict" /\ Client!IsConfirmation(write.use)
      BY <2>6, <2>7, <3>2 DEF Client!IsConfirmation
    <3> QED
      BY <1>10, <3>1, <3>2 DEF Invalidated
  <2> HIDE DEF keys
  <2>9. PICK k \in Client!Keys : k = q.key
    BY <2>2
  <2> QED
    BY <1>11, <1>12, <2>1, <2>5, <2>8, <2>9
<1> HIDE DEF keys, m
<1>13. ASSUME Invalidated', NEW r \in Client!Queries', r.key \in write'.watched,
              r.request.path \in Client!Touched'
       PROVE  Catches(entry'[r.key], write'.made[r.request.path])
  BY <1>5, <1>6, <1>f, <1>9, <1>10, <1>13
<1> QED
  BY <1>7, <1>8, <1>13 DEF QueryInv, Catches

\* What leaves the cache alone keeps it.
LEMMA QueryStutters ==
    ASSUME QueryInv, UNCHANGED queriesVars
    PROVE  QueryInv'
<1>1. UNCHANGED <<onScreen, entry, observed, write, version, queryFaults>>
  BY DEF queriesVars
<1> QED
  BY <1>1 DEF QueryInv, Client!TypeOK, EntryOf, Catches, Invalidated, Client!IsConfirmation,
     Client!Touched, Client!LeavesStale,
     Client!Queries, Client!Uses, Client!Keys, Client!Shown, Client!Requests, Client!MaxVersion,
     Client!MaxFaults, Client!Versions, Client!Entry, Client!Write

\* Every step of the screen keeps it.
LEMMA QueryNext ==
    ASSUME QueryInv, Client!Next
    PROVE  QueryInv'
<1>1. ASSUME NEW q \in Client!Queries, Client!Mount(q) PROVE QueryInv'
  <2>1. observed' \in SUBSET Client!Queries
    BY <1>1 DEF QueryInv, Client!TypeOK, Client!Mount
  <2> QED
    BY <1>1, <2>1, AsksIs DEF Client!Mount
<1>2. ASSUME NEW q \in Client!Queries, Client!Poll(q) PROVE QueryInv'
  <2>1. observed' \in SUBSET Client!Queries
    BY <1>2 DEF QueryInv, Client!TypeOK, Client!Poll
  <2> QED
    BY <1>2, <2>1, AsksIs DEF Client!Poll
<1> QED
  BY <1>1, <1>2, UnmountIs, FocusIs, ServerReadsIs, AnsweredIs, FailsIs, OthersChangeIs, MutateIs,
     ServeIs, ConflictIs, FailIs, SettlesIs DEF Client!Next

\* It begins so.
LEMMA QueryInit ==
    ASSUME Client!Init
    PROVE  QueryInv
<1>1. onScreen \in Screens /\ entry = [k \in Client!Keys |-> Client!Empty] /\ observed = {}
      /\ version = [p \in Client!Shown |-> 0] /\ queryFaults = 0
  BY DEF Client!Init
<1>2. write = [use |-> Client!NoUse, stage |-> "idle", outcome |-> "ok",
               made |-> [p \in Client!Shown |-> 0], watched |-> {}]
  BY DEF Client!Init
<1>3. 0 \in Client!Versions /\ queryFaults \in 0..Client!MaxFaults
  BY <1>1, QueriesOnScreen DEF Client!Versions
<1>4. Client!Empty \in Client!Entry /\ Client!Empty.data = Client!None /\ Client!Empty.fetch = "idle"
  BY <1>3 DEF Client!Empty, Client!Entry
<1>5. write \in Client!Write
  <2>1. PICK z : z = [p \in Client!Shown |-> 0]
    OBVIOUS
  <2>2. z \in [Client!Shown -> Client!Versions]
    BY <1>3, <2>1
  <2> QED
    BY <1>2, <2>1, <2>2 DEF Client!Write
<1>6. Client!TypeOK
  BY <1>1, <1>3, <1>4, <1>5 DEF Client!TypeOK
<1>7. \A k \in Client!Keys : EntryOf(entry[k], k)
  BY <1>1, <1>4 DEF EntryOf
<1>8. write.stage = "idle" /\ \A p \in Client!Shown : write.made[p] <= version[p]
  BY <1>1, <1>2
<1> QED
  BY <1>6, <1>7, <1>8 DEF QueryInv

-----------------------------------------------------------------------------
(* What follows of the invariant *)

\* What the inductive invariant says of the screen.
LEMMA QueryInvPromises ==
    ASSUME QueryInv
    PROVE  /\ Client!TypeOK /\ Client!ReadsItsWrites /\ Client!ConflictIsShown
           /\ Client!ShowsItsOwn /\ Client!RequestsMeetContract
<1>1. onScreen \in Screens /\ observed \subseteq Client!Queries /\ Client!TypeOK
  BY DEF QueryInv, Client!TypeOK
<1>2. ASSUME write.stage = "settled", Invalidated, NEW q \in Client!OnScreenSince
      PROVE  Client!Current(q)
  <2>1. q \in Client!Queries /\ q.key \in write.watched /\ q.request.path \in Client!Touched
    BY <1>1, <1>2 DEF Client!OnScreenSince
  <2>2. Catches(entry[q.key], write.made[q.request.path])
    BY <1>2, <2>1 DEF QueryInv
  <2> QED
    BY <2>2 DEF Catches, Client!Current
<1>3. Client!ReadsItsWrites
  BY <1>2 DEF Client!ReadsItsWrites, Invalidated
<1>c. Client!ConflictIsShown
  <2> SUFFICES ASSUME write.stage = "settled", write.outcome = "conflict",
                      Client!IsConfirmation(write.use)
               PROVE  Invalidated
    BY <1>2 DEF Client!ConflictIsShown
  <2>1. write.use.mutation \in Client!MutationHooks
    BY <1>1, QueriesOnScreen DEF QueryInv
  <2> QED
    BY <2>1, ConfirmationsInvalidate DEF Invalidated
<1>4. Client!ShowsItsOwn
  BY <1>1, QueriesOnScreen DEF QueryInv, EntryOf, Client!ShowsItsOwn
<1>5. ASSUME NEW k \in Client!Keys, entry[k].fetch = "sent"
      PROVE  Client!Fits(entry[k].asks) \/ Client!ClientOnly(entry[k].asks)
  <2>1. PICK q \in Client!Queries : q.key = k
    BY <1>1, QueriesOnScreen
  <2>2. entry[k].asks = q.request
    BY <1>5, <2>1 DEF QueryInv, EntryOf
  <2>3. PICK r : r = q.request
    OBVIOUS
  <2>4. Client!Fits(r) \/ Client!ClientOnly(r)
    BY <1>1, <2>1, <2>3, QueriesOnScreen, HooksMeetContract
  <2> QED
    BY <2>2, <2>3, <2>4
<1>6. ASSUME write.stage = "sent"
      PROVE  \/ Client!Fits(write.use.mutation.request)
             \/ Client!ClientOnly(write.use.mutation.request)
             \/ Client!AwaitsItsProof(write.use.mutation.request)
  <2>1. PICK u \in Client!Uses : u = write.use
    BY <1>6 DEF QueryInv
  <2>2. u.mutation \in Client!MutationHooks
    BY <1>1, QueriesOnScreen
  <2>3. CASE \A i, j \in ApiIds : u.mutation # Client!useEndRecordingMutation(i, j)
    BY <2>1, <2>2, <2>3, HooksMeetContract
  <2>4. CASE \E i, j \in ApiIds : u.mutation = Client!useEndRecordingMutation(i, j)
    <3>1. PICK i \in ApiIds, j \in ApiIds : u.mutation = Client!useEndRecordingMutation(i, j)
      BY <2>4
    <3>2. u.mutation.request = Client!endRecordingApi(i, j)
      BY <3>1 DEF Client!useEndRecordingMutation, Client!Mutation
    <3> QED
      BY <2>1, <3>2, EndsAwaitTheirProof
  <2> QED
    BY <2>3, <2>4
<1>7. ASSUME NEW r \in Client!Sent
      PROVE  \/ \E k \in Client!Keys : entry[k].fetch = "sent" /\ r = entry[k].asks
             \/ write.stage = "sent" /\ r = write.use.mutation.request
  BY DEF Client!Sent
<1>8. Client!RequestsMeetContract
  BY <1>5, <1>6, <1>7 DEF Client!RequestsMeetContract
<1> QED
  BY <1>1, <1>3, <1>c, <1>4, <1>8

\* While the queries' turn lasts the invariant does.
QueryPart == part = "queries" => QueryInv

\* It always holds.
LEMMA QueryPartHolds ==
    /\ Init => QueryPart
    /\ QueryPart /\ [Next]_vars => QueryPart'
<1>1. Init => QueryPart
  BY QueryInit DEF Init, QueryPart
<1>2. ASSUME QueryPart, Moves("queries"), Client!Next
      PROVE  QueryPart'
  BY <1>2, QueryNext DEF QueryPart, Moves
<1>3. ASSUME QueryPart, part' = part, UNCHANGED queriesVars
      PROVE  QueryPart'
  BY <1>3, QueryStutters DEF QueryPart
<1>4. [Next]_vars => \/ Moves("queries") /\ Client!Next
                     \/ part' = part /\ UNCHANGED queriesVars
  BY DEF Next, Moves, vars
<1> QED
  BY <1>1, <1>2, <1>3, <1>4

\* On every screen, put together of whichever hooks: what was on screen when a mutation
\* settled shows what it made or something newer, after a conflict too, but for the two
\* mutations that invalidate nothing; no entry is shared by two requests; and every request is
\* one that the server takes, but for the end of a recording, which lacks the proof of control
\* (shared/api).
THEOREM QueriesAreTrueCorrect == Spec => []QueriesAreTrue
<1>1. Init => QueryPart
  BY QueryPartHolds
<1>2. QueryPart /\ [Next]_vars => QueryPart'
  BY QueryPartHolds
<1>3. QueryPart => QueriesAreTrue
  BY QueryInvPromises DEF QueryPart, QueriesAreTrue, ReadsItsWrites, ConflictIsShown, ShowsItsOwn,
     RequestsMeetContract
<1> QED
  BY <1>1, <1>2, <1>3, PTL DEF Spec
=============================================================================
