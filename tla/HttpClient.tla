------------------------------ MODULE HttpClient ------------------------------
(***************************************************************************)
(* The HTTP client that all requests of a tab go through: interceptors       *)
(* wrapped around the browser's adapter, one that puts the CSRF token on     *)
(* requests that change something and sends a refused one again, and one     *)
(* that turns a failure into an HttpError.  Calls overlap; the token is      *)
(* shared by all of them, and the cookie it must equal by all tabs.          *)
(***************************************************************************)
EXTENDS Naturals, Sequences, FiniteSets

CONSTANTS
    Calls,      \* the calls of one tab
    Mutating,   \* those that post, put, patch or delete
    Statuses,   \* what the handlers of the server may answer
    MaxTokens   \* tokens the server makes (bound)

HttpClientAssumption == Mutating \subseteq Calls /\ MaxTokens \in Nat

VARIABLES
    csrfToken,  \* what the tab holds
    cookie,     \* the browser's XSRF-TOKEN
    made,       \* how many tokens the server has made
    call        \* call[c]

vars == <<csrfToken, cookie, made, call>>

NoToken == 0
NoAnswer == 0       \* no status: the network failed, or the time was up
Cancelled == 1      \* the caller aborted the request
Ok == 200
Stages == {"idle", "asking", "asked", "sent", "answered", "settled"}
NotSent == [stage |-> "idle", token |-> NoToken, jar |-> NoToken, sends |-> 0,
            status |-> Ok, applied |-> 0, refused |-> {}, outcome |-> "none"]

-----------------------------------------------------------------------------
(* Errors *)

ClientErrorTypes ==
    {"badRequest", "unauthorized", "forbidden", "notFound", "conflict", "tooManyRequests",
     "clientError"}
ErrorTypes == ClientErrorTypes \cup {"serverError", "network"}
IsClientError(type) == type \in ClientErrorTypes

StatusErrorType ==
    [s \in {400, 401, 403, 404, 409, 429} |->
       CASE s = 400 -> "badRequest" [] s = 401 -> "unauthorized" [] s = 403 -> "forbidden"
         [] s = 404 -> "notFound"   [] s = 409 -> "conflict"     [] s = 429 -> "tooManyRequests"]

ToErrorType(status) ==
    CASE status = NoAnswer -> "network"
      [] status \in DOMAIN StatusErrorType -> StatusErrorType[status]
      [] status < 500 -> "clientError"
      [] OTHER -> "serverError"

\* Fault: used in the other order, the token's interceptor sees HttpErrors.
TokenOutside == <<"csrf", "httpError">>

\* The first one used is the outermost: a failure reaches the last one first.
Interceptors == <<"httpError", "csrf">>
Position(i) == CHOOSE n \in DOMAIN Interceptors : Interceptors[n] = i
SeesAxiosErrors == Position("httpError") < Position("csrf")

\* What the caller gets for the last failure: a cancelled request as it is.
HttpErrorOf(status) == IF status = Cancelled THEN "cancelled" ELSE ToErrorType(status)

-----------------------------------------------------------------------------
TypeOK ==
    /\ csrfToken \in 0..MaxTokens /\ cookie \in 0..MaxTokens /\ made \in 0..MaxTokens
    /\ call \in [Calls ->
         [stage: Stages, token: 0..MaxTokens, jar: 0..MaxTokens, sends: 0..2,
          status: Statuses \cup {NoAnswer, Cancelled, Ok, 403, 500}, applied: 0..2,
          refused: SUBSET (0..MaxTokens),
          outcome: {"none", "data", "cancelled"} \cup ErrorTypes]]

\* The tab has just been loaded; the cookie may be there from another visit.
Init ==
    /\ csrfToken = NoToken
    /\ \E k \in {0, 1} \cap 0..MaxTokens : cookie = k /\ made = k
    /\ call = [c \in Calls |-> NotSent]

IsMutatingRequest(c) == c \in Mutating

\* Fault: how often it was sent is forgotten.
SentUncounted(e, token) ==
    [e EXCEPT !.stage = "sent", !.token = token, !.jar = cookie, !.sends = 1]

\* A request leaves with the token as its header and the cookie of this moment.
Sent(e, token) ==
    [e EXCEPT !.stage = "sent", !.token = token, !.jar = cookie, !.sends = @ + 1]
LoadCsrfToken(e) == [e EXCEPT !.stage = "asking", !.jar = cookie]

HasNoToken == csrfToken = NoToken

Begin(c) ==
    /\ call[c].stage = "idle"
    /\ call' = [call EXCEPT ![c] =
                  IF IsMutatingRequest(c) /\ HasNoToken
                  THEN LoadCsrfToken(@)
                  ELSE Sent(@, IF IsMutatingRequest(c) THEN csrfToken ELSE NoToken)]
    /\ UNCHANGED <<csrfToken, cookie, made>>

\* The server answers the token of the cookie it got, or a new one with a new cookie.
TokenServed(c) ==
    LET token == IF call[c].jar = NoToken THEN made + 1 ELSE call[c].jar IN
    /\ call[c].stage = "asking"
    /\ token <= MaxTokens
    /\ made' = IF token > made THEN token ELSE made
    /\ cookie' = IF call[c].jar = NoToken THEN token ELSE cookie
    /\ call' = [call EXCEPT ![c].stage = "asked", ![c].token = token]
    /\ UNCHANGED csrfToken

\* The call goes on with the token it asked for, which all later calls use too.
TokenLoaded(c) ==
    /\ call[c].stage = "asked"
    /\ csrfToken' = call[c].token
    /\ call' = [call EXCEPT ![c] = Sent(@, call[c].token)]
    /\ UNCHANGED <<cookie, made>>

Failed(e, status) ==
    [e EXCEPT !.stage = "settled", !.status = status, !.outcome = HttpErrorOf(status)]

\* Asking for the token has failed, and the call with it.
TokenFails(c, status) ==
    /\ call[c].stage = "asking"
    /\ call' = [call EXCEPT ![c] = Failed(@, status)]
    /\ UNCHANGED <<csrfToken, cookie, made>>

Answered(e, status, applied) ==
    [e EXCEPT !.stage = "answered", !.status = status, !.applied = applied]
Denied(e) ==
    [e EXCEPT !.stage = "answered", !.status = 403, !.refused = e.refused \cup {e.token}]

\* The filter compares header and cookie, and makes a cookie if there was none.
Refused(c) ==
    LET e == call[c]
        new == e.jar = NoToken /\ made < MaxTokens IN
    /\ e.stage = "sent" /\ IsMutatingRequest(c)
    /\ e.token # e.jar \/ e.jar = NoToken
    /\ call' = [call EXCEPT ![c] = Denied(@)]
    /\ made' = IF new THEN made + 1 ELSE made
    /\ cookie' = IF new THEN made + 1 ELSE cookie
    /\ UNCHANGED csrfToken

Serve(c, status) ==
    /\ call[c].stage = "sent"
    /\ IsMutatingRequest(c) => call[c].token = call[c].jar /\ call[c].jar # NoToken
    /\ LET applied == IF status = Ok THEN call[c].applied + 1 ELSE call[c].applied IN
       call' = [call EXCEPT ![c] = Answered(@, status, applied)]
    /\ UNCHANGED <<csrfToken, cookie, made>>

\* No answer in time, or the caller no longer waits, whether it was done or not.
Lost(c, how) ==
    /\ call[c].stage = "sent"
    /\ \E done \in IF call[c].token = call[c].jar THEN {0, 1} ELSE {0} :
         call' = [call EXCEPT ![c] = Answered(@, how, call[c].applied + done)]
    /\ UNCHANGED <<csrfToken, cookie, made>>

\* Fault: whatever failed is sent again.
AnyFailure(status) == status # Ok

\* Only an axios error has a response to look into.
IsForbidden(status) == SeesAxiosErrors /\ status = 403

\* Fault: sent again as long as it is refused.
ResendAlways(c) ==
    /\ call[c].stage = "answered" /\ IsForbidden(call[c].status)
    /\ call' = [call EXCEPT ![c] = LoadCsrfToken(@)]
    /\ UNCHANGED <<csrfToken, cookie, made>>

\* Once more, and only once, with a token asked for anew.
Resend(c) ==
    /\ call[c].stage = "answered"
    /\ IsMutatingRequest(c) /\ call[c].sends = 1 /\ IsForbidden(call[c].status)
    /\ call' = [call EXCEPT ![c] = LoadCsrfToken(@)]
    /\ UNCHANGED <<csrfToken, cookie, made>>

Settle(c) ==
    /\ call[c].stage = "answered"
    /\ ~(IsMutatingRequest(c) /\ call[c].sends = 1 /\ IsForbidden(call[c].status))
    /\ call' = [call EXCEPT ![c].stage = "settled",
                            ![c].outcome = IF call[c].status = Ok THEN "data"
                                           ELSE HttpErrorOf(call[c].status)]
    /\ UNCHANGED <<csrfToken, cookie, made>>

\* Someone logs in in another tab: the server makes a new token.
LoginElsewhere ==
    /\ made < MaxTokens
    /\ made' = made + 1 /\ cookie' = made + 1
    /\ UNCHANGED <<csrfToken, call>>

Next ==
    \/ \E c \in Calls :
         \/ Begin(c) \/ TokenServed(c) \/ TokenLoaded(c) \/ Refused(c) \/ Resend(c) \/ Settle(c)
         \/ \E s \in Statuses \cup {Ok} : Serve(c, s)
         \/ \E s \in {NoAnswer, Cancelled, 500} : TokenFails(c, s)
         \/ \E s \in {NoAnswer, Cancelled} : Lost(c, s)
    \/ LoginElsewhere

\* The client gives every request ten seconds.
Fairness ==
    \A c \in Calls :
        /\ WF_vars(TokenFails(c, NoAnswer)) /\ WF_vars(TokenLoaded(c))
        /\ WF_vars(Lost(c, NoAnswer)) /\ WF_vars(Resend(c)) /\ WF_vars(Settle(c))

Spec == Init /\ [][Next]_vars
FairSpec == Spec /\ Fairness

-----------------------------------------------------------------------------
(* What the client promises *)

\* A call changes the server at most once, however it fails: sent again is only
\* what the server refused to do (csrfInterceptor).
AppliedOnce == \A c \in Mutating : call[c].applied <= 1

\* A stale token is no failure a screen sees: a call that the filter refuses for
\* good was refused twice, and the cookie has changed between its asking anew and
\* its sending again: by a login elsewhere or by another call's first asking
\* (csrfInterceptor, in the order that index.ts builds).
StaleTokenIsForgiven ==
    \A c \in Mutating :
        call[c].stage = "settled" /\ call[c].refused # {} /\ call[c].status = 403
            /\ call[c].token \in call[c].refused
          => call[c].sends = 2 /\ call[c].token # call[c].jar

\* No loop of refusals: every call that was begun comes to an end, with data or a
\* reason (csrfInterceptor sends again once; the client's timeout).
EveryCallSettles ==
    \A c \in Calls : call[c].stage # "idle" ~> call[c].stage = "settled"
=============================================================================
