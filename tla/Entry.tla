-------------------------------- MODULE Entry --------------------------------
(***************************************************************************)
(* The way into a workspace, in one browser tab: the routes with their       *)
(* guards, the redirects of the entry page, signing up, creating a           *)
(* workspace, the invitation link, the code and the confirmation of joining. *)
(*                                                                          *)
(* A screen decides from cached answers, which outlive it, may be stale, and  *)
(* keep their data when asking again fails.  The server changes meanwhile:    *)
(* the session ends, the member leaves elsewhere, an invitation expires.      *)
(***************************************************************************)
EXTENDS Naturals, Sequences, FiniteSets

(* A visit is a record of where it begins and what happens during it.        *)
(*   spaces: workspaces that the user may be a member of when it begins       *)
(*   opened: screens that the user opens by their address                     *)
(*   elsewhere: what may happen meanwhile: "logout", "leave", "expiry",       *)
(*     "address"                                                              *)
(*   moves: steps by the user and from elsewhere  (bound)                     *)
CONSTANTS
    Workspaces,     \* ids of workspaces
    Credentials,    \* invitation codes and link tokens
    Of,             \* Of[c], the workspace that credential c is for
    Visits,
    MaxHistory,     \* entries that the browser keeps        (bound)
    MaxFaults       \* requests that fail                    (bound)

EntryAssumption ==
    /\ Workspaces \subseteq Nat \ {0} /\ Of \in [Credentials -> Workspaces]
    /\ MaxHistory \in Nat \ {0} /\ MaxFaults \in Nat
    /\ \A v \in Visits : v.spaces \subseteq Workspaces /\ v.moves \in Nat

VARIABLES
    visit,
    session,    \* who the cookies say the user is
    spaces,     \* the workspaces the user is a member of
    lastViewed, \* the one the server says was viewed last
    valid,      \* the credentials that have not expired
    history,    \* the locations of the tab, the last one on screen
    first,      \* the one at which this page was loaded
    cache,      \* cache[k], the answers held by the query client
    code,       \* the code card: what is typed, and whether success is shown
    requests,   \* mutations under way
    recorded,   \* the workspace whose viewing this layout has reported
    moves, faults

server == <<session, spaces, lastViewed, valid>>
vars == <<visit, session, spaces, lastViewed, valid, history, first, cache, code, requests,
          recorded, moves, faults>>

Opened == visit.opened
Elsewhere == visit.elsewhere
MaxMoves == visit.moves

None == 0
NoCredential == "none"

-----------------------------------------------------------------------------
(* Locations: the path, and the state that the router keeps with it *)

ScreenNames ==
    {"home", "login", "onboarding", "complete", "workspace", "create", "code", "join-error",
     "team", "join", "layout", "notion", "invite"}
Location ==
    [screen: ScreenNames, workspace: Workspaces \cup {None}, credential: Credentials \cup {NoCredential},
     nickname: BOOLEAN]
At(screen) ==
    [screen |-> screen, workspace |-> None, credential |-> NoCredential, nickname |-> FALSE]
In(screen, w) == [At(screen) EXCEPT !.workspace = w]

Home == At("home")
Login == At("login")
Onboarding == At("onboarding")
OnboardingComplete == [At("complete") EXCEPT !.nickname = TRUE]
Choice == At("workspace")
WorkspaceHome(w) == In("layout", w)
WorkspaceInvite(w) == In("team", w)
WorkspaceJoin(w, c) == [In("join", w) EXCEPT !.credential = c]
Invite(c) == [At("invite") EXCEPT !.credential = c]
JoinError == At("join-error")

Here == history[Len(history)]

\* The parts of the route table that stay mounted while the address changes.
Guard(l) ==
    CASE l.screen = "home" -> "EntryRedirect"
      [] l.screen = "login" -> "GuestGuard"
      [] l.screen \in {"workspace", "create", "code", "team", "notion"} -> "AuthGuard"
      [] l.screen = "layout" -> "WorkspaceLayout"
      [] OTHER -> "open"

-----------------------------------------------------------------------------
(* The query client *)

Me == <<"me", None>>
List == <<"list", None>>
Detail(w) == <<"workspace", w>>
Invitation(w) == <<"invitation", w>>
Preview(c) == <<"preview", c>>
Keys == {Me, List} \cup {Detail(w) : w \in Workspaces} \cup {Invitation(w) : w \in Workspaces}
          \cup {Preview(c) : c \in Credentials}

Errors == {"none", "unauthorized", "refused", "other"}
Entries ==
    [has: BOOLEAN, spaces: SUBSET Workspaces, last: Workspaces \cup {None}, error: Errors,
     fetching: BOOLEAN]
Empty == [has |-> FALSE, spaces |-> {}, last |-> None, error |-> "none", fetching |-> FALSE]

\* Data outlive a failed attempt to ask again; the error is forgotten only when
\* there are none, or by the next success.
Fetch(e) == [e EXCEPT !.fetching = TRUE, !.error = IF e.has THEN @ ELSE "none"]
Succeed(held, last) ==
    [has |-> TRUE, spaces |-> held, last |-> last, error |-> "none", fetching |-> FALSE]
Fail(e, error) == [e EXCEPT !.error = error, !.fetching = FALSE]
FetchAll(c, keys) == [k \in Keys |-> IF k \in keys THEN Fetch(c[k]) ELSE c[k]]

IsUnauthorized(e) == e.error = "unauthorized"
IsAccessDenied(e) == e.error = "refused"

\* What the screen at l asks for, given the answers c: the list only once the user
\* is known, the preview of a code that is complete.
Observed(l, c, typed) ==
    CASE l.screen = "home" -> {Me} \cup {k \in {List} : c[Me].has}
      [] l.screen = "layout" -> {Me} \cup {Detail(w) : w \in {l.workspace} \ {None}}
      [] l.screen = "team" -> {Me} \cup {Invitation(l.workspace)}
      [] l.screen = "code" -> {Me} \cup {Preview(x) : x \in {typed} \ {NoCredential}}
      [] l.screen = "invite" -> {Preview(l.credential)}
      [] Guard(l) \in {"GuestGuard", "AuthGuard"} -> {Me}
      [] OTHER -> {}

\* What is mounted with a change of the address asks; what stays does not.
Stays(l, k) == Guard(l) \in {"AuthGuard", "WorkspaceLayout"} /\ k = Me
Mounted(from, to, c) ==
    {k \in Observed(to, c, NoCredential) : ~(Guard(from) = Guard(to) /\ Stays(to, k))}
      \ (IF from = to THEN Observed(to, c, NoCredential) ELSE {})

NotTyped == [typed |-> NoCredential, verified |-> FALSE]

\* The address becomes the last of h: mutations of the screen before are no longer
\* listened to, a new layout has reported nothing.
Arrive(h) ==
    LET to == h[Len(h)]
        same == to.screen = Here.screen IN
    /\ history' = h
    /\ first' = IF Len(history) = MaxHistory /\ Len(h) = MaxHistory /\ h[1] # history[1] /\ first > 1
                THEN first - 1 ELSE first
    /\ cache' = FetchAll(cache, Mounted(Here, to, cache))
    /\ code' = IF same THEN code ELSE NotTyped
    /\ recorded' = IF Guard(to) = "WorkspaceLayout" /\ Guard(Here) = Guard(to)
                   THEN recorded ELSE None

\* Fault: an answer is listened to wherever the user is.
StillHeard(rs) == rs

Unheard(rs) == {[r EXCEPT !.heard = FALSE] : r \in rs}
Leaves(to) == to.screen # Here.screen
Heard(rs, to) == IF Leaves(to) THEN Unheard(rs) ELSE rs

Pushed(l) ==
    Append(IF Len(history) = MaxHistory THEN Tail(history) ELSE history, l)
Replaced(l) == [history EXCEPT ![Len(history)] = l]
Go(h) == Arrive(h) /\ requests' = Heard(requests, h[Len(h)])

-----------------------------------------------------------------------------
(* What is on screen *)

\* Fault: the one viewed last, whether the user still is a member or not.
LastViewedFirst(list) ==
    IF list.last # None THEN list.last
    ELSE CHOOSE w \in list.spaces : \A v \in list.spaces : w <= v

GetEntryWorkspaceId(list) ==
    IF list.last \in list.spaces THEN list.last
    ELSE CHOOSE w \in list.spaces : \A v \in list.spaces : w <= v

EntryRedirect(c) ==
    CASE IsUnauthorized(c[Me]) -> {Login}
      [] c[Me].error # "none" \/ c[List].error # "none" \/ ~c[List].has -> {}
      [] c[List].spaces = {} -> {Choice}
      [] OTHER -> {WorkspaceHome(GetEntryWorkspaceId(c[List]))}

\* Fault: a guest is who was refused, not who is not known.
GuestIsRefused(c) == IF c[Me].error = "none" THEN {Home} ELSE {}

GuestGuard(c) == IF c[Me].has THEN {Home} ELSE {}

\* The guard shows the screen behind it, and not a notice or a redirect.
Passes(c) == c[Me].has /\ c[Me].error = "none"

WorkspaceAccessGuard(e) ==
    CASE IsUnauthorized(e) -> {Login} [] IsAccessDenied(e) -> {Choice} [] OTHER -> {}

AuthGuard(l, c) ==
    CASE IsUnauthorized(c[Me]) -> {Login}
      [] Passes(c) /\ l.screen = "team" -> WorkspaceAccessGuard(c[Invitation(l.workspace)])
      [] OTHER -> {}

WorkspaceEntry(l, c) ==
    IF l.workspace = None THEN {Choice} ELSE WorkspaceAccessGuard(c[Detail(l.workspace)])

\* With an old answer and a new error both effects run, the one of the error last.
WorkspaceInviteLinkGate(l, c) ==
    LET preview == c[Preview(l.credential)] IN
    CASE preview.error # "none" -> {JoinError}
      [] preview.has -> {WorkspaceJoin(w, l.credential) : w \in preview.spaces}
      [] OTHER -> {}

Sends(l, c) ==
    CASE Guard(l) = "EntryRedirect" -> EntryRedirect(c)
      [] Guard(l) = "GuestGuard" -> GuestGuard(c)
      [] Guard(l) = "AuthGuard" -> AuthGuard(l, c)
      [] Guard(l) = "WorkspaceLayout" -> WorkspaceEntry(l, c)
      [] l.screen = "invite" -> WorkspaceInviteLinkGate(l, c)
      [] l.screen = "join" /\ l.credential = NoCredential -> {Choice}
      [] l.screen = "complete" /\ ~l.nickname -> {Onboarding}
      [] OTHER -> {}

\* What the notice's button asks again, where there is a notice.
Retried(l, c) ==
    CASE IsUnauthorized(c[Me]) -> {}
      [] Guard(l) \in {"EntryRedirect", "AuthGuard"} /\ c[Me].error # "none" -> {Me}
      [] Guard(l) = "EntryRedirect" /\ c[List].error # "none" -> {List}
      [] OTHER -> {}

Shows(screen) == Here.screen = screen /\ (Guard(Here) = "AuthGuard" => Passes(cache))

-----------------------------------------------------------------------------
TypeOK ==
    /\ visit \in Visits
    /\ session \in {"none", "onboarding", "member"}
    /\ spaces \subseteq Workspaces /\ lastViewed \in Workspaces \cup {None}
    /\ valid \subseteq Credentials
    /\ Len(history) \in 1..MaxHistory /\ first \in 1..Len(history)
    /\ \A i \in DOMAIN history : history[i] \in Location
    /\ cache \in [Keys -> Entries]
    /\ code \in [typed: Credentials \cup {NoCredential}, verified: BOOLEAN]
    /\ requests \subseteq [kind: {"nickname", "create", "accept"},
                           credential: Credentials \cup {NoCredential}, heard: BOOLEAN]
    /\ recorded \in Workspaces \cup {None}
    /\ moves \in 0..MaxMoves /\ faults \in 0..MaxFaults

Locations ==
    {At(s) : s \in {"home", "login", "onboarding", "complete", "workspace", "create", "code",
                    "join-error"}}
      \cup {In(s, w) : s \in {"team", "join", "layout"}, w \in Workspaces}
      \cup {WorkspaceHome(None)} \cup {Invite(c) : c \in Credentials}

\* A page load: nothing is cached, the first screen asks.
Load(h) ==
    /\ history' = h /\ first' = Len(h)
    /\ cache' = FetchAll([k \in Keys |-> Empty],
                         Observed(h[Len(h)], [k \in Keys |-> Empty], NoCredential))
    /\ code' = NotTyped /\ recorded' = None
    /\ requests' = Unheard(requests)

Init ==
    /\ visit \in Visits
    /\ session \in {"none", "onboarding", "member"}
    /\ spaces \in IF session = "onboarding" THEN {{}} ELSE SUBSET visit.spaces
    /\ lastViewed \in IF session = "onboarding" THEN {None} ELSE visit.spaces \cup {None}
    /\ valid = Credentials
    /\ \E l \in Locations :
         /\ l.screen \in Opened
         /\ history = <<l>> /\ first = 1
         /\ cache = FetchAll([k \in Keys |-> Empty],
                             Observed(l, [k \in Keys |-> Empty], NoCredential))
    /\ code = NotTyped /\ requests = {} /\ recorded = None
    /\ moves = 0 /\ faults = 0

Moves == moves < MaxMoves /\ moves' = moves + 1
Faults == faults < MaxFaults /\ faults' = faults + 1

-----------------------------------------------------------------------------
(* The user and the router *)

Redirect ==
    /\ \E to \in Sends(Here, cache) : Go(Replaced(to))
    /\ UNCHANGED <<visit, server, moves, faults>>

Open(l) ==
    /\ Moves /\ "address" \in Elsewhere /\ l.screen \in Opened
    /\ Load(Pushed(l))
    /\ UNCHANGED <<visit, server, faults>>

\* The browser keeps the state of a location over a reload.
Reload == Moves /\ Load(history) /\ UNCHANGED <<visit, server, faults>>

\* Within the page the router goes back; before it, another page is loaded.
Back ==
    LET h == SubSeq(history, 1, Len(history) - 1) IN
    /\ Moves /\ Len(history) > 1
    /\ IF Len(h) >= first THEN Go(h) ELSE Load(h)
    /\ UNCHANGED <<visit, server, faults>>

\* The buttons that lead on: from the welcome, the choice, the error, the team card.
Links(l) ==
    CASE l.screen = "complete" /\ l.nickname -> {Choice}
      [] Shows("workspace") -> {At("create"), At("code")}
      [] l.screen = "join-error" -> {At("code")}
      [] Shows("team") -> {In("notion", l.workspace)}
      [] OTHER -> {}

Follow ==
    /\ Moves
    /\ \E to \in Links(Here) : Go(Pushed(to))
    /\ UNCHANGED <<visit, server, faults>>

\* Through GitHub and back, to the page that the server chooses.
LogIn ==
    /\ Moves /\ Here.screen = "login" /\ session = "none"
    /\ session' \in {"member"} \cup {s \in {"onboarding"} : spaces = {} /\ lastViewed = None}
    /\ Load(Pushed(IF session' = "member" THEN Home ELSE Onboarding))
    /\ UNCHANGED <<visit, spaces, lastViewed, valid, faults>>

\* Back at the window: what is on screen is asked again, but for the preview.
Refetch ==
    /\ Moves
    /\ cache' = FetchAll(cache, Observed(Here, cache, code.typed) \ {Preview(code.typed)})
    /\ UNCHANGED <<visit, server, history, first, code, requests, recorded, faults>>

Retry ==
    /\ Moves /\ Retried(Here, cache) # {}
    /\ cache' = FetchAll(cache, Retried(Here, cache))
    /\ UNCHANGED <<visit, server, history, first, code, requests, recorded, faults>>

-----------------------------------------------------------------------------
(* Answers *)

Answered(k) ==
    LET kind == k[1] IN
    CASE kind # "preview" /\ session # "member" -> Fail(cache[k], "unauthorized")
      [] kind = "me" -> Succeed({}, None)
      [] kind = "list" -> Succeed(spaces, lastViewed)
      [] kind \in {"workspace", "invitation"} ->
           IF k[2] \in spaces THEN Succeed({k[2]}, None) ELSE Fail(cache[k], "refused")
      [] kind = "preview" ->
           IF k[2] \in valid THEN Succeed({Of[k[2]]}, None) ELSE Fail(cache[k], "refused")

\* Fault: the list is asked for only where the user was known before.
ReceiveOnly(k, e) ==
    /\ cache[k].fetching
    /\ cache' = [cache EXCEPT ![k] = e]
    /\ UNCHANGED <<visit, server, history, first, code, requests, recorded, moves>>

\* The list is asked for once the user is known; a guard that no longer passes
\* takes the card behind it away, and what it held.
Receive(k, e) ==
    LET now == [cache EXCEPT ![k] = e]
        known == k = Me /\ Here.screen = "home" /\ ~cache[Me].has /\ e.has
        gone == Guard(Here) = "AuthGuard" /\ Passes(cache) /\ ~Passes(now) IN
    /\ cache[k].fetching
    /\ cache' = FetchAll(now, IF known THEN {List} ELSE {})
    /\ code' = IF gone THEN NotTyped ELSE code
    /\ requests' = IF gone THEN Unheard(requests) ELSE requests
    /\ UNCHANGED <<visit, server, history, first, recorded, moves>>

Answer(k) == Receive(k, Answered(k)) /\ UNCHANGED faults
AnswerFails(k) == Faults /\ Receive(k, Fail(cache[k], "other"))

\* Once per workspace and layout: the server is told; if that fails, so be it.
UpdateLastViewed ==
    LET w == Here.workspace IN
    /\ Here.screen = "layout" /\ w # None /\ recorded # w
    /\ cache[Detail(w)].has /\ cache[Detail(w)].error = "none"
    /\ recorded' = w
    /\ \/ /\ lastViewed' = IF session = "member" /\ w \in spaces THEN w ELSE lastViewed
          /\ UNCHANGED faults
       \/ Faults /\ UNCHANGED lastViewed
    /\ UNCHANGED <<visit, session, spaces, valid, history, first, cache, code, requests, moves>>

-----------------------------------------------------------------------------
(* The code card *)

IsVerifying == code.typed # NoCredential /\ cache[Preview(code.typed)].fetching

\* Fault: what was verified may be changed.
LockedByRequest == IsVerifying

\* Locked while a code is being checked, and while its success is shown.
Locked == IsVerifying \/ code.verified

Type(c) ==
    /\ Moves /\ Shows("code") /\ ~Locked /\ c # code.typed
    /\ code' = [code EXCEPT !.typed = c]
    /\ cache' = IF c = NoCredential THEN cache ELSE FetchAll(cache, {Preview(c)})
    /\ UNCHANGED <<visit, server, history, first, requests, recorded, faults>>

ShowSuccess ==
    /\ Shows("code") /\ code.typed # NoCredential /\ ~IsVerifying /\ ~code.verified
    /\ cache[Preview(code.typed)].has /\ cache[Preview(code.typed)].error = "none"
    /\ code' = [code EXCEPT !.verified = TRUE]
    /\ UNCHANGED <<visit, server, history, first, cache, requests, recorded, moves, faults>>

\* Fault: the answer for another code is as good.
AnySuccessShown ==
    /\ Shows("code") /\ code.verified
    /\ \E c \in Credentials : \E w \in cache[Preview(c)].spaces :
         Go(Pushed(WorkspaceJoin(w, code.typed)))
    /\ UNCHANGED <<visit, server, moves, faults>>

SuccessShown ==
    /\ Shows("code") /\ code.verified
    /\ \E w \in cache[Preview(code.typed)].spaces : Go(Pushed(WorkspaceJoin(w, code.typed)))
    /\ UNCHANGED <<visit, server, moves, faults>>

-----------------------------------------------------------------------------
(* Signing up, creating, joining *)

Submits == {<<"onboarding", "nickname">>, <<"create", "create">>, <<"join", "accept">>}

\* The button is locked while its request is under way.
IsPending(kind) == \E r \in requests : r.kind = kind /\ r.heard

Submit ==
    /\ Moves
    /\ \E s \in Submits :
         /\ Shows(s[1]) /\ ~IsPending(s[2])
         /\ s[1] = "join" => Here.credential # NoCredential
         /\ requests' = requests \cup {[kind |-> s[2], credential |-> Here.credential,
                                        heard |-> TRUE]}
    /\ UNCHANGED <<visit, server, history, first, cache, code, recorded, faults>>

\* What becomes of request r: the server, what the caller learns, where that leads.
Done(r, error, to) ==
    /\ r \in requests
    /\ IF r.heard /\ to # <<>>
       THEN Arrive(to) /\ requests' = Heard(requests \ {r}, to[Len(to)])
       ELSE /\ requests' = requests \ {r}
            /\ cache' = IF error = "none" /\ r.kind # "nickname" /\ Here.screen = "home"
                        THEN FetchAll(cache, {List} \cap Observed(Here, cache, NoCredential))
                        ELSE cache
            /\ UNCHANGED <<history, first, code, recorded>>
    /\ UNCHANGED <<visit, valid, moves>>

NicknameAnswered(r) ==
    /\ r.kind = "nickname"
    /\ IF session = "onboarding"
       THEN session' = "member" /\ Done(r, "none", Pushed(OnboardingComplete))
       ELSE UNCHANGED session /\ Done(r, "unauthorized", Replaced(Login))
    /\ UNCHANGED <<spaces, lastViewed, faults>>

CreateAnswered(r) ==
    /\ r.kind = "create"
    /\ IF session = "member"
       THEN \E w \in {v \in Workspaces \ spaces : \A c \in Credentials : Of[c] # v} :
              /\ cache[Detail(w)] = Empty
              /\ spaces' = spaces \cup {w}
              /\ Done(r, "none", Pushed(WorkspaceInvite(w)))
       ELSE UNCHANGED spaces /\ Done(r, "unauthorized", Replaced(Login))
    /\ UNCHANGED <<session, lastViewed, faults>>

AcceptAnswered(r) ==
    /\ r.kind = "accept"
    /\ CASE session # "member" -> UNCHANGED spaces /\ Done(r, "unauthorized", Replaced(Login))
         [] session = "member" /\ r.credential \notin valid ->
              UNCHANGED spaces /\ Done(r, "refused", Replaced(JoinError))
         [] OTHER ->
              /\ spaces' = spaces \cup {Of[r.credential]}
              /\ Done(r, "none", Pushed(WorkspaceHome(Of[r.credential])))
    /\ UNCHANGED <<session, lastViewed, faults>>

\* No answer: the card opens its button again.  The server may have done it.
RequestFails(r) ==
    /\ Faults
    /\ spaces' \in {spaces}
         \cup {spaces \cup {Of[c]} : c \in {r.credential} \cap
                                           (IF session = "member" THEN valid ELSE {})}
    /\ Done(r, "other", <<>>)
    /\ UNCHANGED <<session, lastViewed>>

-----------------------------------------------------------------------------
(* Elsewhere: another tab, another member, the clock *)

SessionEnds ==
    /\ Moves /\ "logout" \in Elsewhere /\ session # "none"
    /\ session' = "none"
    /\ UNCHANGED <<visit, spaces, lastViewed, valid, history, first>>
    /\ UNCHANGED <<cache, code, requests, recorded, faults>>

Leave(w) ==
    /\ Moves /\ "leave" \in Elsewhere /\ w \in spaces
    /\ spaces' = spaces \ {w}
    /\ UNCHANGED <<visit, session, lastViewed, valid, history, first>>
    /\ UNCHANGED <<cache, code, requests, recorded, faults>>

Expire(c) ==
    /\ Moves /\ "expiry" \in Elsewhere /\ c \in valid
    /\ valid' = valid \ {c}
    /\ UNCHANGED <<visit, session, spaces, lastViewed, history, first>>
    /\ UNCHANGED <<cache, code, requests, recorded, faults>>

Next ==
    \/ Redirect \/ Reload \/ Back \/ Follow \/ LogIn \/ Refetch \/ Retry
    \/ \E l \in Locations : Open(l)
    \/ \E k \in Keys : Answer(k) \/ AnswerFails(k)
    \/ UpdateLastViewed \/ ShowSuccess \/ SuccessShown \/ Submit
    \/ \E c \in Credentials \cup {NoCredential} : Type(c)
    \/ \E r \in requests :
         NicknameAnswered(r) \/ CreateAnswered(r) \/ AcceptAnswered(r) \/ RequestFails(r)
    \/ SessionEnds \/ (\E w \in Workspaces : Leave(w)) \/ (\E c \in Credentials : Expire(c))

\* Screens that send the user on do so at once, timers fire, requests are answered.
Fairness ==
    /\ WF_vars(Redirect) /\ WF_vars(UpdateLastViewed)
    /\ WF_vars(ShowSuccess) /\ WF_vars(SuccessShown)
    /\ \A k \in Keys : WF_vars(Answer(k))
    /\ WF_vars(\E r \in requests : NicknameAnswered(r) \/ CreateAnswered(r) \/ AcceptAnswered(r))

Spec == Init /\ [][Next]_vars
FairSpec == Spec /\ Fairness

-----------------------------------------------------------------------------
(* What the entry promises *)

\* A code's tick belongs to the code on screen, which the server knows: what is
\* verified cannot be changed before it leads on (useWorkspaceCode).
SuccessIsOfThisCode ==
    code.verified => /\ code.typed # NoCredential
                     /\ cache[Preview(code.typed)].has
                     /\ cache[Preview(code.typed)].error = "none"

\* Wherever a confirmation of joining is, also back in the history, the workspace
\* it names is the one its credential is for (useNavigateToWorkspaceJoin).
JoinStateNamesItsWorkspace ==
    \A i \in DOMAIN history :
        history[i].screen = "join" /\ history[i].credential # NoCredential
          => history[i].workspace = Of[history[i].credential]

\* An answer that comes late moves nobody: a request leads somewhere only from the
\* screen that made it (useSignUp, useCreateWorkspace, useWorkspaceJoin).
LateAnswersMoveNobody ==
    [][\A r \in requests :
         history' # history /\ {q \in requests' : q.kind = r.kind} = {}
           => <<Here.screen, r.kind>> \in Submits]_vars

\* A 401 beside the user of before: the guards of who is in and of who is out each
\* go by one of the two.
Contradicted == cache[Me].has /\ IsUnauthorized(cache[Me])

\* The guards do not send the user round in circles: when nothing else happens any
\* more, some screen stays (EntryRedirect, GuestGuard, AuthGuard), unless the
\* session ended under a page that knows its user (see LoggedOutStays).
RedirectsEnd == <>[](Sends(Here, cache) = {}) \/ []<>Contradicted

\* The entry page does not wait for ever: it leads on, or offers to try again.
EntryDecides ==
    Here.screen = "home" ~> Here.screen # "home" \/ Retried(Here, cache) # {}

\* Whoever opens the site and is a member somewhere gets into a workspace, the one
\* viewed last if possible, or is told that something failed, but for a list from
\* before they left one elsewhere (EntryRedirect, getEntryWorkspaceId,
\* useWorkspaceEntry).
MembersGetIn ==
    (/\ moves = MaxMoves /\ Here = Home /\ session = "member" /\ spaces # {}
     /\ cache[List].has => cache[List].spaces = spaces)
      ~> \/ /\ Here.screen = "layout" /\ Here.workspace \in spaces
            /\ lastViewed \in spaces => Here.workspace = lastViewed
         \/ Retried(Here, cache) # {}

\* GuestGuard: if the check fails, the login screen is left as it is.  It asks only
\* for the user, whom the query client keeps beside the 401, and the entry page
\* sends back here: nothing ends that.
LoggedOutStays ==
    [][Redirect => ~(Here = Login /\ IsUnauthorized(cache[Me]))]_vars

\* "401 is the same when tried again": the notice is for other failures
\* (EntryRedirect).
RetryIsForOtherFailures ==
    \A k \in Retried(Here, cache) : ~IsUnauthorized(cache[k])

\* A member who has just joined stays: the layout sends away only who is not a
\* member (useWorkspaceJoin, useWorkspaceAccessGuard).
OnlyStrangersAreSentAway ==
    [][Here.screen = "layout" /\ history' = Replaced(Choice) => Here.workspace \notin spaces]_vars

\* After a reload the welcome leads back to the onboarding, as it has no nickname
\* (OnboardingCompletePage).
ReloadForgetsTheNickname ==
    [][Reload => ~Here.nickname]_vars
=============================================================================
