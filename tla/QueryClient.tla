----------------------------- MODULE QueryClient -----------------------------
(***************************************************************************)
(* The query client of one browser tab: the cache that all screens share,    *)
(* filled by the query hooks of Api, which the mutation hooks invalidate,    *)
(* over a server that others change too.                                     *)
(*                                                                          *)
(* The library keeps one entry per key.  A fetch is one or more requests     *)
(* (retries); while it is under way others who want the entry share it.      *)
(* Data are abstracted to what they answer: a request, and the version of    *)
(* what that request shows.                                                  *)
(***************************************************************************)
EXTENDS ApiServer

(* A screen is a record of the hooks its components use and of two bounds.    *)
(*   queries: the query hooks that may be mounted, called with arguments      *)
(*   uses: [mutation, beside], a mutation, and keys whose data its button needs*)
(*   changes: how often what a path shows may change        (bound)           *)
(*   faults: failed requests and changes by others          (bound)           *)
CONSTANTS
    Screens,
    ApiIds      \* what names a workspace, a recording, a document, ...

\* The hooks, called as the components call them: for one id, or for two.
QueryHooksOf(i) ==
    {useWorkspaceQuery(i), useWorkspaceInvitationQuery(i), useDocumentsQuery(i),
     useChatSessionsQuery(i), useChatMessagesQuery(i), useNotionConnectionQuery(i),
     useNotionImportStatusQuery(i), useNotionPageTreeQuery(i)}
       \cup {useInvitationPreviewQuery(i, enabled) : enabled \in BOOLEAN}
QueryHooksOfBoth(i, j) ==
    {useRecordingQuery(i, j), useDocumentQuery(i, j), useDocumentConfirmationsQuery(i, j)}
       \cup {useDocumentsByRecordingQuery(i, j, enabled) : enabled \in BOOLEAN}
QueryHooks ==
    {useMeQuery} \cup {useWorkspacesQuery(enabled) : enabled \in BOOLEAN}
      \cup (UNION {QueryHooksOf(i) : i \in ApiIds})
      \cup (UNION {QueryHooksOfBoth(i, j) : i, j \in ApiIds})

ProofOfControl == {"tabId", "controlToken"}
MutationHooksOf(i) ==
    {useStartRecordingMutation(i, {"requestId"} \cup ProofOfControl),
     useUploadRecordingAudioMutation(i), useCreateChatSessionMutation(i, {"title"}),
     useStartNotionOAuthMutation(i), useStartNotionImportMutation(i)}
MutationHooksOfBoth(i, j) ==
    {usePauseRecordingMutation(i, j, ProofOfControl),
     useResumeRecordingMutation(i, j, ProofOfControl), useEndRecordingMutation(i, j),
     useIssueRecordingAudioUploadUrlMutation(i, j, {"contentType", "contentLength"}),
     useCompleteRecordingAudioUploadMutation(i, j, {"uploadId"}),
     useConfirmDocumentMutation(i, j), useRetryDocumentGenerationJobMutation(i, j)}
MutationHooks ==
    {usePostNicknameMutation({"nickname"}), useCreateWorkspaceMutation({"name"}),
     useUpdateLastViewedWorkspaceMutation({"workspaceId"}),
     useAcceptInvitationMutation({"credential"})}
      \cup (UNION {MutationHooksOf(i) : i \in ApiIds})
      \cup (UNION {MutationHooksOfBoth(i, j) : i, j \in ApiIds})

QueryClientAssumption ==
    /\ Undefined \notin ApiIds
    /\ \A s \in Screens :
         /\ s.queries \subseteq QueryHooks
         /\ \A u \in s.uses : u.mutation \in MutationHooks
         /\ s.changes \in Nat /\ s.faults \in Nat

VARIABLES
    screen,     \* the one that is in use
    entry,      \* entry[k], the cache
    observed,   \* the queries of the mounted components
    write,      \* the mutation under way, or the last one
    version,    \* version[p], how often what path p shows has changed
    faults

vars == <<screen, entry, observed, write, version, faults>>

Queries == screen.queries
Uses == screen.uses
MaxVersion == screen.changes
MaxFaults == screen.faults
EveryQuery == UNION {s.queries : s \in Screens}

Keys == {q.key : q \in Queries}
Shown == {q.request.path : q \in Queries}
Requests == {q.request : q \in Queries}
NoRequest == Get(<<>>, {})

Versions == 0..MaxVersion
None == -1
Entry ==
    [data: Versions \cup {None}, of: Requests \cup {NoRequest},   \* what it holds
     error: {"none", "client", "transient"},
     fetch: {"idle", "sent", "read"}, asks: Requests \cup {NoRequest},
     got: Versions, failures: 0..2]
Empty ==
    [data |-> None, of |-> NoRequest, error |-> "none",
     fetch |-> "idle", asks |-> NoRequest, got |-> 0, failures |-> 0]

NoMutation == Mutation(NoRequest)
NoUse == [mutation |-> NoMutation, beside |-> {}]
Write ==
    [use: Uses \cup {NoUse}, stage: {"idle", "sent", "answered", "settled"},
     outcome: {"ok", "conflict", "error"}, made: [Shown -> Versions],
     watched: SUBSET Keys]    \* (history) asked for, with data, since it settled

TypeOK ==
    /\ screen \in Screens
    /\ entry \in [Keys -> Entry]
    /\ observed \subseteq Queries
    /\ write \in Write
    /\ version \in [Shown -> Versions]
    /\ faults \in 0..MaxFaults

Init ==
    /\ screen \in Screens
    /\ entry = [k \in Keys |-> Empty]
    /\ observed = {}
    /\ write = [use |-> NoUse, stage |-> "idle", outcome |-> "ok",
                made |-> [p \in Shown |-> 0], watched |-> {}]
    /\ version = [p \in Shown |-> 0]
    /\ faults = 0

-----------------------------------------------------------------------------
(* Fetching *)

Fetch(e, request) ==
    [e EXCEPT !.fetch = "sent", !.asks = request, !.failures = 0]

\* What a query observer does to its entry when it mounts, or the window is
\* focused: nothing is fresh, and a fetch under way is shared.
Asked(e, q) == IF q.enabled /\ e.fetch = "idle" THEN Fetch(e, q.request) ELSE e

Mount(q) ==
    /\ q \notin observed
    /\ observed' = observed \cup {q}
    /\ entry' = [entry EXCEPT ![q.key] = Asked(@, q)]
    /\ UNCHANGED <<screen, write, version, faults>>

Unmount(q) ==
    /\ q \in observed
    /\ observed' = observed \ {q}
    /\ write' = [write EXCEPT !.watched = @ \ {q.key}]
    /\ UNCHANGED <<screen, entry, version, faults>>

Focus ==
    LET asking == {q \in observed : q.focus} IN
    /\ entry' = [k \in Keys |->
                   IF \E q \in asking : q.key = k
                   THEN Asked(entry[k], CHOOSE q \in asking : q.key = k)
                   ELSE entry[k]]
    /\ entry' # entry
    /\ UNCHANGED <<screen, observed, write, version, faults>>

\* Fault: an error of any kind ends the polling.
PollsWithoutError(q, e) == q.polls # "never" /\ e.error = "none"

\* refetchInterval: of a recording, once there is an answer and after no 4xx; of
\* an import, after no error.  The last version of a path is a final answer.
Polls(q, e) ==
    CASE q.polls = "transient" -> e.data # None /\ e.error # "client"
      [] q.polls = "success" -> e.error = "none"
      [] OTHER -> FALSE

Poll(q) ==
    /\ q \in observed /\ q.enabled
    /\ entry[q.key].fetch = "idle" /\ entry[q.key].data < MaxVersion
    /\ Polls(q, entry[q.key])
    /\ entry' = [entry EXCEPT ![q.key] = Asked(@, q)]
    /\ UNCHANGED <<screen, observed, write, version, faults>>

ServerReads(k) ==
    /\ entry[k].fetch = "sent"
    /\ entry' = [entry EXCEPT ![k].fetch = "read", ![k].got = version[entry[k].asks.path]]
    /\ UNCHANGED <<screen, observed, write, version, faults>>

Answered(k) ==
    /\ entry[k].fetch = "read"
    /\ entry' = [entry EXCEPT
                    ![k] = [Empty EXCEPT !.data = entry[k].got, !.of = entry[k].asks]]
    /\ UNCHANGED <<screen, observed, write, version, faults>>

\* Fault: a 4xx is tried again, and nothing ends it.
RetriesAlways(failures, kind) == TRUE
\* queryClient's retry: not for a 4xx, else twice.
Retries(failures, kind) == kind # "client" /\ failures < 2

Fails(k, kind) ==
    LET e == entry[k] IN
    /\ e.fetch \in {"sent", "read"} /\ faults < MaxFaults
    /\ faults' = faults + 1
    /\ entry' = [entry EXCEPT ![k] =
                    IF Retries(e.failures, kind)
                    THEN [e EXCEPT !.fetch = "sent", !.failures = e.failures + 1]
                    ELSE [e EXCEPT !.fetch = "idle", !.error = kind]]
    /\ UNCHANGED <<screen, observed, write, version>>

\* Data of the server that somebody else changes.
OthersChange(p) ==
    /\ version[p] < MaxVersion /\ faults < MaxFaults
    /\ version' = [version EXCEPT ![p] = @ + 1]
    /\ faults' = faults + 1
    /\ UNCHANGED <<screen, entry, observed, write>>

-----------------------------------------------------------------------------
(* Mutations *)

\* A screen offers the mutation while it shows the data beside it.
Mutate(u) ==
    /\ write.stage \in {"idle", "settled"}
    /\ \A k \in u.beside : entry[k].data # None /\ \E q \in observed : q.key = k
    /\ write' = [write EXCEPT !.use = u, !.stage = "sent", !.outcome = "ok", !.watched = {},
                              !.made = [p \in Shown |-> 0]]
    /\ UNCHANGED <<screen, entry, observed, version, faults>>

Touched == Changes(write.use.mutation.request) \cap Shown

ServeMutation ==
    /\ write.stage = "sent"
    /\ \A p \in Touched : version[p] < MaxVersion
    /\ version' = [p \in Shown |-> IF p \in Touched THEN version[p] + 1 ELSE version[p]]
    /\ write' = [write EXCEPT !.stage = "answered", !.made = version']
    /\ UNCHANGED <<screen, entry, observed, faults>>

\* Refused: for what others have changed since the screen was filled ...
ConflictMutation ==
    /\ write.stage = "sent"
    /\ \E p \in Touched : version[p] > 0
    /\ write' = [write EXCEPT !.stage = "answered", !.outcome = "conflict", !.made = version]
    /\ UNCHANGED <<screen, entry, observed, version, faults>>

\* ... or lost, or refused for good.
FailMutation ==
    /\ write.stage = "sent" /\ faults < MaxFaults
    /\ faults' = faults + 1
    /\ write' = [write EXCEPT !.stage = "answered", !.outcome = "error"]
    /\ UNCHANGED <<screen, entry, observed, version>>

IsPrefix(s, t) == Len(s) <= Len(t) /\ SubSeq(t, 1, Len(s)) = s

\* invalidateQueries: what is mounted is fetched again, from the start if it has
\* data; the first fetch of an entry goes on as it is.
Invalidated(e, k) ==
    LET active == {q \in observed : q.key = k /\ q.enabled} IN
    IF active # {} /\ (e.fetch = "idle" \/ e.data # None)
    THEN Fetch(e, (CHOOSE q \in active : TRUE).request)
    ELSE e

\* Fault: the entries are only those of exactly these keys.
InvalidatesExactly(keys, k) == k \in keys
Invalidates(keys, k) == \E prefix \in keys : IsPrefix(prefix, k)

MutationSettles ==
    LET m == write.use.mutation
        keys == CASE write.outcome = "ok" -> m.onSuccess
                  [] write.outcome = "conflict" -> m.onConflict
                  [] OTHER -> {} IN
    /\ write.stage = "answered"
    /\ entry' = [k \in Keys |->
                   IF Invalidates(keys, k) THEN Invalidated(entry[k], k) ELSE entry[k]]
    /\ write' = [write EXCEPT
                    !.stage = "settled",
                    !.watched =
                       {q.key : q \in {r \in observed : r.enabled /\ entry[r.key].data # None}}]
    /\ UNCHANGED <<screen, observed, version, faults>>

-----------------------------------------------------------------------------

Next ==
    \/ \E q \in Queries : Mount(q) \/ Unmount(q) \/ Poll(q)
    \/ Focus
    \/ \E k \in Keys :
          ServerReads(k) \/ Answered(k) \/ \E kind \in {"client", "transient"} : Fails(k, kind)
    \/ \E p \in Shown : OthersChange(p)
    \/ \E u \in Uses : Mutate(u)
    \/ ServeMutation \/ ConflictMutation \/ FailMutation \/ MutationSettles

\* The server answers, and intervals go by.
Fairness ==
    /\ \A k \in {q.key : q \in EveryQuery} :
         WF_vars(k \in Keys /\ ServerReads(k)) /\ WF_vars(k \in Keys /\ Answered(k))
    /\ \A q \in EveryQuery : WF_vars(q \in Queries /\ Poll(q))

Spec == Init /\ [][Next]_vars
FairSpec == Spec /\ Fairness

-----------------------------------------------------------------------------
(* Properties *)

\* What a component shows answers the request of its own query hook: no two
\* queries that ask different things share an entry (shared/api/queryKey).
ShowsItsOwn ==
    \A q \in observed : entry[q.key].data # None => entry[q.key].of = q.request

\* Two mutations change what a query shows and invalidate nothing: the workspace
\* viewed last (its hook's comment: what the server remembers is used at the next
\* entry only, though the list of workspaces shows it) and the start of an import.
LeavesStale(request) ==
    \/ request.method = "put" /\ Matches(<<"members", "me", "last-viewed-workspace">>, request.path)
    \/ request.method = "post" /\ Matches(InWorkspace(<<"imports">>), request.path)

\* What is on screen when a mutation settles, by a query that is enabled, is never
\* shown again as it was before: once the fetches under way are done it has what
\* the mutation made, or something newer, even where an older fetch was still to be
\* answered (the invalidations of shared/api/mutations).
Current(q) ==
    LET e == entry[q.key] IN
    e.fetch = "idle" /\ e.error = "none" => e.data >= write.made[q.request.path]

OnScreenSince == {q \in observed : q.key \in write.watched /\ q.request.path \in Touched}

ReadsItsWrites ==
    write.stage = "settled" /\ write.outcome = "ok" /\ ~LeavesStale(write.use.mutation.request) =>
        \A q \in OnScreenSince : Current(q)

IsConfirmation(use) ==
    LET sent == use.mutation.request IN
    sent.method = "put" /\ \E i \in DOMAIN sent.path : sent.path[i] = "confirmations"

\* A member told that their confirmation conflicts gets to see the state it
\* conflicts with (useConfirmDocumentMutation).
ConflictIsShown ==
    write.stage = "settled" /\ write.outcome = "conflict" /\ IsConfirmation(write.use) =>
        \A q \in OnScreenSince : Current(q)

\* The end of a recording is sent without a body, and the server refuses it
\* without the proof of control (docs/api/recording-end.md); it lacks only that.
AwaitsItsProof(request) ==
    /\ request.method = "post" /\ Matches(OfRecording(<<"end">>), request.path)
    /\ Fits([request EXCEPT !.body = @ \cup RecordingControlRequest])

\* Every request that is sent has a handler, carries what its handler requires,
\* and reads no field that the answer lacks; but for what the server of this
\* repository does not have yet, and for the end of a recording.
Sent ==
    {entry[k].asks : k \in {k \in Keys : entry[k].fetch = "sent"}}
      \cup {write.use.mutation.request : u \in {u \in {write.use} : write.stage = "sent"}}

RequestsMeetContract ==
    \A request \in Sent : Fits(request) \/ ClientOnly(request) \/ AwaitsItsProof(request)

\* A screen that polls comes to show the final answer, over requests that fail
\* for the moment: only a refusal or leaving the screen ends it
\* (useRecordingQuery).
PollingComesToAnEnd ==
    \A q \in {q \in EveryQuery : q.polls = "transient"} :
        q \in observed /\ entry[q.key].data # None /\ version[q.request.path] = MaxVersion
          ~> \/ entry[q.key].data = MaxVersion \/ entry[q.key].error = "client"
             \/ q \notin observed

-----------------------------------------------------------------------------
(* What the comments of the repository say, and the code does not do. *)

\* useConfirmDocumentMutation: the confirmations are fetched again with the
\* document.  (Those that are on screen, though not there yet, are not.)
AllOnScreenAskedAgain ==
    [][MutationSettles /\ write.outcome = "ok" =>
         \A q \in observed : q.request.path \in Touched => entry'[q.key].fetch = "sent"]_vars

\* useUpdateLastViewedWorkspaceMutation: there is no query to invalidate.
NothingToInvalidate ==
    write.stage = "settled" /\ write.use.mutation.onSuccess = {} =>
        \A q \in observed : q.request.path \notin Touched
=============================================================================
