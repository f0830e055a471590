-------------------------- MODULE HttpClientProofs --------------------------
(***************************************************************************)
(* What the HTTP client promises holds for any calls of a tab, any answers   *)
(* of the server and any number of tokens.                                   *)
(***************************************************************************)
EXTENDS HttpClient, TLAPS

-----------------------------------------------------------------------------
(* The invariant.  Tokens only get newer, the cookie is the newest of all, and *)
(* a call that is sent again carries one that is newer than what was refused.  *)

TokensAreOld(e, newest) ==
    /\ e.token <= newest /\ e.jar <= newest
    /\ \A r \in e.refused : r <= newest

\* Nothing has been done for a call that waits to be sent, or may be sent again.
NotYetApplied(e) ==
    /\ e.stage \in {"idle", "asking", "asked", "sent"} => e.applied = 0
    /\ e.stage = "answered" /\ e.status = 403 => e.applied = 0
    /\ e.applied <= 1

SendsAreCounted(c, e) ==
    /\ e.stage = "idle" => e.sends = 0
    /\ e.stage \in {"asking", "asked"} => e.sends <= 1
    /\ e.stage \in {"sent", "answered"} => e.sends >= 1
    /\ e.stage = "settled" /\ e.status = 403 /\ c \in Mutating => e.sends = 2

RefusedIsOlder(e, newest) ==
    /\ e.sends = 0 \/ (e.stage = "sent" /\ e.sends = 1) => e.refused = {}
    /\ e.stage = "answered" /\ e.sends = 1 => \A r \in e.refused : r = NoToken \/ r < newest
    /\ e.stage = "asking" /\ e.jar # NoToken => \A r \in e.refused : r < e.jar
    /\ e.stage = "asked" => e.token > NoToken /\ \A r \in e.refused : r < e.token
    /\ e.stage = "sent" => e.token <= e.jar
    /\ e.stage = "sent" /\ e.sends = 2 =>
         e.token > NoToken /\ \A r \in e.refused : r < e.token
    /\ e.stage \in {"answered", "settled"} /\ e.sends = 2 /\ e.token \in e.refused =>
         e.token # e.jar

CallInv(c, e, newest) ==
    /\ TokensAreOld(e, newest) /\ NotYetApplied(e)
    /\ SendsAreCounted(c, e) /\ RefusedIsOlder(e, newest)

HttpInv ==
    /\ TypeOK
    /\ cookie = made /\ csrfToken <= cookie
    /\ \A c \in Calls : CallInv(c, call[c], cookie)

CallType ==
    [stage: Stages, token: 0..MaxTokens, jar: 0..MaxTokens, sends: 0..2,
     status: Statuses \cup {NoAnswer, Cancelled, Ok, 403, 500}, applied: 0..2,
     refused: SUBSET (0..MaxTokens),
     outcome: {"none", "data", "cancelled"} \cup ErrorTypes]

-----------------------------------------------------------------------------
(* The interceptors *)

\* The token's interceptor is the inner one, which sees what the adapter fails with.
LEMMA InnerIsAsked == SeesAxiosErrors
<1>1. Position("httpError") = 1
  <2>1. /\ 1 \in DOMAIN Interceptors /\ Interceptors[1] = "httpError"
        /\ \A n \in DOMAIN Interceptors : Interceptors[n] = "httpError" => n = 1
    BY DEF Interceptors
  <2> QED
    BY <2>1, Zenon DEF Position
<1>2. Position("csrf") = 2
  <2>1. /\ 2 \in DOMAIN Interceptors /\ Interceptors[2] = "csrf"
        /\ \A n \in DOMAIN Interceptors : Interceptors[n] = "csrf" => n = 2
    BY DEF Interceptors
  <2> QED
    BY <2>1, Zenon DEF Position
<1> QED
  BY <1>1, <1>2 DEF SeesAxiosErrors

LEMMA ErrorsAreTyped ==
    ASSUME NEW status
    PROVE  HttpErrorOf(status) \in {"none", "data", "cancelled"} \cup ErrorTypes
<1>1. ToErrorType(status) \in ErrorTypes
  BY DEF ToErrorType, StatusErrorType, ErrorTypes, ClientErrorTypes
<1> QED
  BY <1>1 DEF HttpErrorOf

-----------------------------------------------------------------------------
(* One call changes; the others see only that the cookie may be newer. *)

LEMMA OthersAreKept ==
    ASSUME HttpInv, TypeOK', cookie' = made', cookie' >= cookie, csrfToken' <= cookie',
           NEW c \in Calls, CallInv(c, call[c], cookie)',
           \A d \in Calls \ {c} : call'[d] = call[d]
    PROVE  HttpInv'
<1>1. ASSUME NEW d \in Calls \ {c}
      PROVE  CallInv(d, call[d], cookie)'
  <2>1. CallInv(d, call[d], cookie) /\ call[d] \in CallType /\ call'[d] = call[d]
    BY DEF HttpInv, TypeOK, CallType
  <2>2. cookie \in Nat /\ cookie' \in Nat
    BY DEF HttpInv, TypeOK
  <2>3. \A r \in call[d].refused : r \in Nat
    BY <2>1 DEF CallType
  <2> QED
    BY <2>1, <2>2, <2>3
    DEF CallInv, TokensAreOld, NotYetApplied, SendsAreCounted, RefusedIsOlder, CallType
<1> QED
  BY <1>1 DEF HttpInv

\* What every step has in common: it leaves call[c] as e, and the rest alone.
Becomes(c, e) ==
    /\ call' = [call EXCEPT ![c] = e]
    /\ cookie' = made' /\ cookie' \in cookie..MaxTokens /\ csrfToken' \in 0..cookie'

LEMMA HttpInvAt ==
    ASSUME HttpInv, NEW c \in Calls
    PROVE  /\ call \in [Calls -> CallType] /\ call[c] \in CallType /\ CallInv(c, call[c], cookie)
           /\ cookie \in 0..MaxTokens /\ made = cookie
           /\ csrfToken \in 0..MaxTokens /\ csrfToken <= cookie
BY DEF HttpInv, TypeOK, CallType

LEMMA StepKeepsInv ==
    ASSUME HttpInv, HttpClientAssumption, NEW c \in Calls, NEW e \in CallType, Becomes(c, e),
           CallInv(c, e, cookie')
    PROVE  HttpInv'
<1>1. call'[c] = e /\ \A d \in Calls \ {c} : call'[d] = call[d]
  BY HttpInvAt DEF Becomes
<1>2. call' \in [Calls -> CallType]
  BY HttpInvAt DEF Becomes
<1>3. cookie' \in 0..MaxTokens /\ made' \in 0..MaxTokens /\ csrfToken' \in 0..MaxTokens
        /\ cookie' >= cookie /\ csrfToken' <= cookie'
  BY HttpInvAt DEF Becomes, HttpClientAssumption
<1>4. TypeOK'
  BY <1>2, <1>3 DEF TypeOK, CallType
<1>5. CallInv(c, call[c], cookie)'
  BY <1>1
<1> QED
  BY <1>1, <1>3, <1>4, <1>5, OthersAreKept DEF Becomes

-----------------------------------------------------------------------------
(* What the steps make of a call *)

\* A call changed one field at a time is the record with those fields.
LEMMA Sending ==
    ASSUME NEW e \in CallType, NEW token, NEW sends
    PROVE  [e EXCEPT !.stage = "sent", !.token = token, !.jar = cookie, !.sends = sends] =
             [stage |-> "sent", token |-> token, jar |-> cookie,
              sends |-> sends, status |-> e.status, applied |-> e.applied,
              refused |-> e.refused, outcome |-> e.outcome]
<1> DEFINE e1 == [e EXCEPT !.stage = "sent"]
           e2 == [e1 EXCEPT !.token = token]
           e3 == [e2 EXCEPT !.jar = cookie]
<1>1. e1 = [stage |-> "sent", token |-> e.token, jar |-> e.jar,
            sends |-> e.sends, status |-> e.status,
            applied |-> e.applied, refused |-> e.refused,
            outcome |-> e.outcome]
  BY DEF CallType
<1>2. [e EXCEPT !.stage = "sent", !.token = token, !.jar = cookie, !.sends = sends] = [e3 EXCEPT !.sends = sends]
  OBVIOUS
<1> HIDE DEF e1
<1>3. e2 = [stage |-> "sent", token |-> token, jar |-> e.jar,
            sends |-> e.sends, status |-> e.status,
            applied |-> e.applied, refused |-> e.refused,
            outcome |-> e.outcome]
  BY <1>1
<1> HIDE DEF e2
<1>4. e3 = [stage |-> "sent", token |-> token, jar |-> cookie,
            sends |-> e.sends, status |-> e.status,
            applied |-> e.applied, refused |-> e.refused,
            outcome |-> e.outcome]
  BY <1>3
<1> HIDE DEF e3
<1> QED
  BY <1>4, <1>2

LEMMA Asking ==
    ASSUME NEW e \in CallType, NEW jar
    PROVE  [e EXCEPT !.stage = "asking", !.jar = jar] =
             [stage |-> "asking", token |-> e.token, jar |-> jar,
              sends |-> e.sends, status |-> e.status,
              applied |-> e.applied, refused |-> e.refused,
              outcome |-> e.outcome]
<1> DEFINE e1 == [e EXCEPT !.stage = "asking"]
<1>1. e1 = [stage |-> "asking", token |-> e.token, jar |-> e.jar,
            sends |-> e.sends, status |-> e.status,
            applied |-> e.applied, refused |-> e.refused,
            outcome |-> e.outcome]
  BY DEF CallType
<1>2. [e EXCEPT !.stage = "asking", !.jar = jar] = [e1 EXCEPT !.jar = jar]
  OBVIOUS
<1> HIDE DEF e1
<1> QED
  BY <1>1, <1>2

LEMMA Asked ==
    ASSUME NEW e \in CallType, NEW token
    PROVE  [e EXCEPT !.stage = "asked", !.token = token] =
             [stage |-> "asked", token |-> token, jar |-> e.jar,
              sends |-> e.sends, status |-> e.status,
              applied |-> e.applied, refused |-> e.refused,
              outcome |-> e.outcome]
<1> DEFINE e1 == [e EXCEPT !.stage = "asked"]
<1>1. e1 = [stage |-> "asked", token |-> e.token, jar |-> e.jar,
            sends |-> e.sends, status |-> e.status,
            applied |-> e.applied, refused |-> e.refused,
            outcome |-> e.outcome]
  BY DEF CallType
<1>2. [e EXCEPT !.stage = "asked", !.token = token] = [e1 EXCEPT !.token = token]
  OBVIOUS
<1> HIDE DEF e1
<1> QED
  BY <1>1, <1>2

LEMMA Failing ==
    ASSUME NEW e \in CallType, NEW status, NEW outcome
    PROVE  [e EXCEPT !.stage = "settled", !.status = status, !.outcome = outcome] =
             [stage |-> "settled", token |-> e.token, jar |-> e.jar,
              sends |-> e.sends, status |-> status, applied |-> e.applied,
              refused |-> e.refused, outcome |-> outcome]
<1> DEFINE e1 == [e EXCEPT !.stage = "settled"]
           e2 == [e1 EXCEPT !.status = status]
<1>1. e1 = [stage |-> "settled", token |-> e.token, jar |-> e.jar,
            sends |-> e.sends, status |-> e.status,
            applied |-> e.applied, refused |-> e.refused,
            outcome |-> e.outcome]
  BY DEF CallType
<1>2. [e EXCEPT !.stage = "settled", !.status = status, !.outcome = outcome] = [e2 EXCEPT !.outcome = outcome]
  OBVIOUS
<1> HIDE DEF e1
<1>3. e2 = [stage |-> "settled", token |-> e.token, jar |-> e.jar,
            sends |-> e.sends, status |-> status, applied |-> e.applied,
            refused |-> e.refused, outcome |-> e.outcome]
  BY <1>1
<1> HIDE DEF e2
<1> QED
  BY <1>3, <1>2

LEMMA Refusing ==
    ASSUME NEW e \in CallType
    PROVE  Denied(e) = [stage |-> "answered", token |-> e.token, jar |-> e.jar,
                        sends |-> e.sends, status |-> 403, applied |-> e.applied,
                        refused |-> e.refused \cup {e.token}, outcome |-> e.outcome]
<1> DEFINE e1 == [e EXCEPT !.stage = "answered"]
           e2 == [e1 EXCEPT !.status = 403]
<1>1. e1 = [stage |-> "answered", token |-> e.token, jar |-> e.jar,
            sends |-> e.sends, status |-> e.status,
            applied |-> e.applied, refused |-> e.refused,
            outcome |-> e.outcome]
  BY DEF CallType
<1>2. Denied(e) = [e2 EXCEPT !.refused = e.refused \cup {e.token}]
  BY DEF Denied
<1> HIDE DEF e1
<1>3. e2 = [stage |-> "answered", token |-> e.token, jar |-> e.jar,
            sends |-> e.sends, status |-> 403, applied |-> e.applied,
            refused |-> e.refused, outcome |-> e.outcome]
  BY <1>1
<1> HIDE DEF e2
<1> QED
  BY <1>3, <1>2

LEMMA Answering ==
    ASSUME NEW e \in CallType, NEW status, NEW applied
    PROVE  Answered(e, status, applied) =
             [stage |-> "answered", token |-> e.token, jar |-> e.jar,
              sends |-> e.sends, status |-> status, applied |-> applied,
              refused |-> e.refused, outcome |-> e.outcome]
<1> DEFINE e1 == [e EXCEPT !.stage = "answered"]
           e2 == [e1 EXCEPT !.status = status]
<1>1. e1 = [stage |-> "answered", token |-> e.token, jar |-> e.jar,
            sends |-> e.sends, status |-> e.status,
            applied |-> e.applied, refused |-> e.refused,
            outcome |-> e.outcome]
  BY DEF CallType
<1>2. Answered(e, status, applied) = [e2 EXCEPT !.applied = applied]
  BY DEF Answered
<1> HIDE DEF e1
<1>3. e2 = [stage |-> "answered", token |-> e.token, jar |-> e.jar,
            sends |-> e.sends, status |-> status, applied |-> e.applied,
            refused |-> e.refused, outcome |-> e.outcome]
  BY <1>1
<1> HIDE DEF e2
<1> QED
  BY <1>3, <1>2

LEMMA Settling ==
    ASSUME NEW e \in CallType, NEW outcome
    PROVE  [e EXCEPT !.stage = "settled", !.outcome = outcome] =
             [stage |-> "settled", token |-> e.token, jar |-> e.jar,
              sends |-> e.sends, status |-> e.status,
              applied |-> e.applied, refused |-> e.refused,
              outcome |-> outcome]
<1> DEFINE e1 == [e EXCEPT !.stage = "settled"]
<1>1. e1 = [stage |-> "settled", token |-> e.token, jar |-> e.jar,
            sends |-> e.sends, status |-> e.status,
            applied |-> e.applied, refused |-> e.refused,
            outcome |-> e.outcome]
  BY DEF CallType
<1>2. [e EXCEPT !.stage = "settled", !.outcome = outcome] = [e1 EXCEPT !.outcome = outcome]
  OBVIOUS
<1> HIDE DEF e1
<1> QED
  BY <1>1, <1>2

-----------------------------------------------------------------------------
(* One step of every kind keeps the invariant. *)

LEMMA SendingIsFine ==
    ASSUME HttpInv, HttpClientAssumption, NEW c \in Calls, NEW token \in 0..MaxTokens,
           call' = [call EXCEPT ![c] = Sent(call[c], token)],
           UNCHANGED <<cookie, made>>, csrfToken' \in 0..cookie,
           token <= cookie, call[c].stage \in {"idle", "asked"},
           call[c].stage = "asked" => token = call[c].token
    PROVE  HttpInv'
<1> DEFINE old == call[c]
           e == [stage |-> "sent", token |-> token, jar |-> cookie, sends |-> old.sends + 1,
                 status |-> old.status, applied |-> old.applied, refused |-> old.refused,
                 outcome |-> old.outcome]
<1>1. /\ old \in CallType /\ CallInv(c, old, cookie)
      /\ cookie \in 0..MaxTokens /\ made = cookie /\ MaxTokens \in Nat
  BY HttpInvAt DEF HttpClientAssumption
<1>2. old.sends \in 0..1
  BY <1>1 DEF CallInv, SendsAreCounted, CallType
<1>3. Sent(old, token) = e
  BY <1>1, Sending DEF Sent
<1>4. e \in CallType
  BY <1>1, <1>2 DEF CallType, Stages
<1>5. Becomes(c, e)
  BY <1>1, <1>3 DEF Becomes
<1>6. CallInv(c, e, cookie')
  BY <1>1, <1>2 DEF CallInv, TokensAreOld, NotYetApplied, SendsAreCounted, RefusedIsOlder,
                    CallType, NoToken
<1> HIDE DEF e
<1> QED
  BY <1>4, <1>5, <1>6, StepKeepsInv

LEMMA AskingIsFine ==
    ASSUME HttpInv, HttpClientAssumption, NEW c \in Calls,
           call' = [call EXCEPT ![c] = LoadCsrfToken(call[c])],
           UNCHANGED <<csrfToken, cookie, made>>,
           \/ call[c].stage = "idle"
           \/ call[c].stage = "answered" /\ call[c].sends = 1 /\ call[c].status = 403
    PROVE  HttpInv'
<1> DEFINE old == call[c]
           e == [stage |-> "asking", token |-> old.token, jar |-> cookie, sends |-> old.sends,
                 status |-> old.status, applied |-> old.applied, refused |-> old.refused,
                 outcome |-> old.outcome]
<1>1. /\ old \in CallType /\ CallInv(c, old, cookie)
      /\ cookie \in 0..MaxTokens /\ made = cookie /\ MaxTokens \in Nat
      /\ csrfToken \in 0..MaxTokens /\ csrfToken <= cookie
  BY HttpInvAt DEF HttpClientAssumption
<1>2. LoadCsrfToken(old) = e
  BY <1>1, Asking DEF LoadCsrfToken
<1>3. e \in CallType
  BY <1>1 DEF CallType, Stages
<1>4. Becomes(c, e)
  BY <1>1, <1>2 DEF Becomes
<1>5. CallInv(c, e, cookie')
  BY <1>1 DEF CallInv, TokensAreOld, NotYetApplied, SendsAreCounted, RefusedIsOlder,
              CallType, NoToken
<1> HIDE DEF e
<1> QED
  BY <1>3, <1>4, <1>5, StepKeepsInv

LEMMA BeginKeepsInv ==
    ASSUME HttpInv, HttpClientAssumption, NEW c \in Calls, Begin(c)
    PROVE  HttpInv'
<1>1. CASE IsMutatingRequest(c) /\ HasNoToken
  BY <1>1, AskingIsFine DEF Begin
<1>2. CASE ~(IsMutatingRequest(c) /\ HasNoToken)
  <2> DEFINE token == IF IsMutatingRequest(c) THEN csrfToken ELSE NoToken
  <2>1. token \in 0..MaxTokens /\ token <= cookie /\ csrfToken' \in 0..cookie
    BY HttpInvAt DEF Begin, NoToken, HttpClientAssumption
  <2>2. call' = [call EXCEPT ![c] = Sent(call[c], token)]
    BY <1>2 DEF Begin
  <2> HIDE DEF token
  <2> QED
    BY <2>1, <2>2, SendingIsFine DEF Begin
<1> QED
  BY <1>1, <1>2

LEMMA TokenLoadedKeepsInv ==
    ASSUME HttpInv, HttpClientAssumption, NEW c \in Calls, TokenLoaded(c)
    PROVE  HttpInv'
<1>1. call[c].token \in 0..MaxTokens /\ call[c].token <= cookie /\ csrfToken' \in 0..cookie
  BY HttpInvAt DEF TokenLoaded, CallInv, TokensAreOld, CallType, HttpClientAssumption
<1> QED
  BY <1>1, SendingIsFine DEF TokenLoaded

LEMMA ResendKeepsInv ==
    ASSUME HttpInv, HttpClientAssumption, NEW c \in Calls, Resend(c)
    PROVE  HttpInv'
BY AskingIsFine DEF Resend, IsForbidden

LEMMA TokenServedKeepsInv ==
    ASSUME HttpInv, HttpClientAssumption, NEW c \in Calls, TokenServed(c)
    PROVE  HttpInv'
<1> DEFINE old == call[c]
           token == IF old.jar = NoToken THEN made + 1 ELSE old.jar
           e == [stage |-> "asked", token |-> token, jar |-> old.jar, sends |-> old.sends,
                 status |-> old.status, applied |-> old.applied, refused |-> old.refused,
                 outcome |-> old.outcome]
<1>1. /\ old \in CallType /\ CallInv(c, old, cookie)
      /\ cookie \in 0..MaxTokens /\ made = cookie /\ MaxTokens \in Nat
      /\ csrfToken \in 0..MaxTokens /\ csrfToken <= cookie
  BY HttpInvAt DEF HttpClientAssumption
<1>2. /\ token \in 1..MaxTokens /\ token <= cookie' /\ cookie' = made'
      /\ cookie' \in cookie..MaxTokens /\ csrfToken' \in 0..cookie'
  BY <1>1 DEF TokenServed, NoToken, CallType, CallInv, TokensAreOld
<1>3. \A r \in old.refused : r \in Nat /\ r < token
  BY <1>1 DEF TokenServed, CallInv, RefusedIsOlder, TokensAreOld, NoToken, CallType
<1>4. call' = [call EXCEPT ![c] = [old EXCEPT !.stage = "asked", !.token = token]]
  BY DEF TokenServed
<1>5. old.stage = "asking"
  BY DEF TokenServed
<1> HIDE DEF token
<1>6. [old EXCEPT !.stage = "asked", !.token = token] = e
  BY <1>1, Asked
<1>7. e \in CallType
  BY <1>1, <1>2 DEF CallType, Stages
<1>8. Becomes(c, e)
  BY <1>2, <1>4, <1>6 DEF Becomes
<1>9. CallInv(c, e, cookie')
  BY <1>1, <1>2, <1>3, <1>5
  DEF CallInv, TokensAreOld, NotYetApplied, SendsAreCounted, RefusedIsOlder, CallType, NoToken
<1> HIDE DEF e
<1> QED
  BY <1>7, <1>8, <1>9, StepKeepsInv

LEMMA FailedIs ==
    ASSUME NEW e \in CallType, NEW status
    PROVE  Failed(e, status) =
             [stage |-> "settled", token |-> e.token, jar |-> e.jar,
              sends |-> e.sends, status |-> status, applied |-> e.applied,
              refused |-> e.refused, outcome |-> HttpErrorOf(status)]
<1> DEFINE outcome == HttpErrorOf(status)
<1>1. Failed(e, status) =
        [e EXCEPT !.stage = "settled", !.status = status, !.outcome = outcome]
  BY Zenon DEF Failed
<1> HIDE DEF outcome
<1>2. Failed(e, status) =
        [stage |-> "settled", token |-> e.token, jar |-> e.jar,
         sends |-> e.sends, status |-> status, applied |-> e.applied,
         refused |-> e.refused, outcome |-> outcome]
  BY <1>1, Failing
<1> QED
  BY <1>2, Zenon DEF outcome

LEMMA TokenFailsKeepsInv ==
    ASSUME HttpInv, HttpClientAssumption, NEW c \in Calls,
           NEW status \in {NoAnswer, Cancelled, 500}, TokenFails(c, status)
    PROVE  HttpInv'
<1> DEFINE old == call[c]
           outcome == HttpErrorOf(status)
           e == [stage |-> "settled", token |-> old.token, jar |-> old.jar,
                 sends |-> old.sends, status |-> status, applied |-> old.applied,
                 refused |-> old.refused, outcome |-> outcome]
<1>1. /\ old \in CallType /\ CallInv(c, old, cookie) /\ old.stage = "asking"
      /\ cookie \in 0..MaxTokens /\ made = cookie /\ MaxTokens \in Nat
      /\ csrfToken \in 0..MaxTokens /\ csrfToken <= cookie
  BY HttpInvAt DEF HttpClientAssumption, TokenFails
<1>2. outcome \in {"none", "data", "cancelled"} \cup ErrorTypes
  BY ErrorsAreTyped
<1>3. Failed(old, status) = e
  BY <1>1, FailedIs
<1>4. cookie' = made' /\ cookie' \in cookie..MaxTokens /\ csrfToken' \in 0..cookie'
  BY <1>1 DEF TokenFails
<1> HIDE DEF outcome
<1>5. e \in CallType
  BY <1>1, <1>2 DEF CallType, Stages
<1>6. CallInv(c, e, cookie')
  BY <1>1 DEF TokenFails, CallInv, TokensAreOld, NotYetApplied, SendsAreCounted,
              RefusedIsOlder, CallType, NoToken, NoAnswer, Cancelled
<1>7. call' = [call EXCEPT ![c] = Failed(old, status)]
  BY Zenon DEF TokenFails
<1> HIDE DEF e
<1>8. Becomes(c, e)
  BY <1>3, <1>4, <1>7, Zenon DEF Becomes
<1> QED
  BY <1>5, <1>6, <1>8, StepKeepsInv

LEMMA RefusedKeepsInv ==
    ASSUME HttpInv, HttpClientAssumption, NEW c \in Calls, Refused(c)
    PROVE  HttpInv'
<1> DEFINE old == call[c]
           refused == old.refused \cup {old.token}
           e == [stage |-> "answered", token |-> old.token, jar |-> old.jar,
                 sends |-> old.sends, status |-> 403, applied |-> old.applied,
                 refused |-> refused, outcome |-> old.outcome]
<1>1. /\ old \in CallType /\ CallInv(c, old, cookie) /\ old.stage = "sent"
      /\ cookie \in 0..MaxTokens /\ made = cookie /\ MaxTokens \in Nat
      /\ csrfToken \in 0..MaxTokens /\ csrfToken <= cookie
      /\ old.token # old.jar \/ old.jar = NoToken
  BY HttpInvAt DEF HttpClientAssumption, Refused
<1>2. Denied(old) = e
  BY <1>1, Refusing
<1>3. cookie' = made' /\ cookie' \in cookie..MaxTokens /\ csrfToken' \in 0..cookie'
  BY <1>1 DEF Refused
<1>5. e \in CallType
  BY <1>1 DEF CallType, Stages
<1>6. CallInv(c, e, cookie')
  BY <1>1, <1>3 DEF CallInv, TokensAreOld, NotYetApplied, SendsAreCounted,
                    RefusedIsOlder, CallType, NoToken
<1>7. call' = [call EXCEPT ![c] = Denied(old)]
  BY DEF Refused
<1> HIDE DEF e
<1>4. Becomes(c, e)
  BY <1>2, <1>3, <1>7, Zenon DEF Becomes
<1> QED
  BY <1>4, <1>5, <1>6, StepKeepsInv

\* An answer by the server's own handlers, or none: what may have been done of it,
\* and it is not a refusal if it was.
Answers(c, status, applied) ==
    /\ call[c].stage = "sent"
    /\ status = 403 => applied = 0
    /\ c \in Mutating => call[c].token = call[c].jar \/ status # 403
    /\ call' = [call EXCEPT ![c] = Answered(call[c], status, applied)]
    /\ UNCHANGED <<csrfToken, cookie, made>>

LEMMA AnsweringIsFine ==
    ASSUME HttpInv, HttpClientAssumption, NEW c \in Calls,
           NEW status \in Statuses \cup {NoAnswer, Cancelled, Ok}, NEW applied \in 0..1,
           Answers(c, status, applied)
    PROVE  HttpInv'
<1> DEFINE old == call[c]
           e == [stage |-> "answered", token |-> old.token, jar |-> old.jar,
                 sends |-> old.sends, status |-> status, applied |-> applied,
                 refused |-> old.refused, outcome |-> old.outcome]
<1>1. /\ old \in CallType /\ CallInv(c, old, cookie) /\ old.stage = "sent"
      /\ cookie \in 0..MaxTokens /\ made = cookie /\ MaxTokens \in Nat
      /\ csrfToken \in 0..MaxTokens /\ csrfToken <= cookie
  BY HttpInvAt DEF HttpClientAssumption, Answers
<1>2. call' = [call EXCEPT ![c] = e]
  BY <1>1, Answering DEF Answers
<1>4. e \in CallType
  BY <1>1 DEF CallType, Stages
<1>5. CallInv(c, e, cookie')
  BY <1>1 DEF Answers, CallInv, TokensAreOld, NotYetApplied, SendsAreCounted,
              RefusedIsOlder, CallType, NoToken
<1>6. cookie' = made' /\ cookie' \in cookie..MaxTokens /\ csrfToken' \in 0..cookie'
  BY <1>1 DEF Answers
<1> HIDE DEF e
<1>3. Becomes(c, e)
  BY <1>2, <1>6, Zenon DEF Becomes
<1> QED
  BY <1>3, <1>4, <1>5, StepKeepsInv

LEMMA ServeKeepsInv ==
    ASSUME HttpInv, HttpClientAssumption, NEW c \in Calls, NEW status \in Statuses \cup {Ok},
           Serve(c, status)
    PROVE  HttpInv'
<1> DEFINE applied == IF status = Ok THEN call[c].applied + 1 ELSE call[c].applied
<1>1. call[c].applied = 0 /\ call[c].stage = "sent"
  BY HttpInvAt DEF Serve, CallInv, NotYetApplied
<1>2. applied \in 0..1 /\ (status = 403 => applied = 0)
  BY <1>1 DEF Ok
<1>3. call' = [call EXCEPT ![c] = Answered(call[c], status, applied)]
  BY DEF Serve
<1> HIDE DEF applied
<1>4. Answers(c, status, applied)
  BY <1>1, <1>2, <1>3 DEF Answers, Serve, IsMutatingRequest
<1> QED
  BY <1>2, <1>4, AnsweringIsFine

LEMMA LostKeepsInv ==
    ASSUME HttpInv, HttpClientAssumption, NEW c \in Calls, NEW how \in {NoAnswer, Cancelled},
           Lost(c, how)
    PROVE  HttpInv'
<1>1. call[c].applied = 0 /\ call[c].stage = "sent"
  BY HttpInvAt DEF Lost, CallInv, NotYetApplied
<1>2. \E applied \in {0, 1} : call' = [call EXCEPT ![c] = Answered(call[c], how, applied)]
  <2>1. \E done \in {0, 1} :
          call' = [call EXCEPT ![c] = Answered(call[c], how, call[c].applied + done)]
    BY DEF Lost
  <2>2. \A done \in {0, 1} : call[c].applied + done = done
    BY <1>1
  <2> QED
    BY <2>1, <2>2
<1>3. PICK applied \in {0, 1} : call' = [call EXCEPT ![c] = Answered(call[c], how, applied)]
  BY <1>2, Zenon
<1>4. how # 403
  BY DEF NoAnswer, Cancelled
<1>5. applied \in 0..1 /\ how \in Statuses \cup {NoAnswer, Cancelled, Ok}
  OBVIOUS
<1>6. UNCHANGED <<csrfToken, cookie, made>>
  BY DEF Lost
<1>7. Answers(c, how, applied)
  BY <1>1, <1>3, <1>4, <1>6, Zenon DEF Answers
<1> QED
  BY <1>5, <1>7, AnsweringIsFine

LEMMA SettleKeepsInv ==
    ASSUME HttpInv, HttpClientAssumption, NEW c \in Calls, Settle(c)
    PROVE  HttpInv'
<1> DEFINE old == call[c]
           outcome == IF old.status = Ok THEN "data" ELSE HttpErrorOf(old.status)
           e == [stage |-> "settled", token |-> old.token, jar |-> old.jar,
                 sends |-> old.sends, status |-> old.status, applied |-> old.applied,
                 refused |-> old.refused, outcome |-> outcome]
<1>1. /\ old \in CallType /\ CallInv(c, old, cookie) /\ old.stage = "answered"
      /\ cookie \in 0..MaxTokens /\ made = cookie /\ MaxTokens \in Nat
      /\ csrfToken \in 0..MaxTokens /\ csrfToken <= cookie
  BY HttpInvAt DEF HttpClientAssumption, Settle
<1>2. c \in Mutating /\ old.status = 403 => old.sends # 1
  BY InnerIsAsked DEF Settle, IsMutatingRequest, IsForbidden
<1>3. outcome \in {"none", "data", "cancelled"} \cup ErrorTypes
  BY ErrorsAreTyped
<1>4. call' = [call EXCEPT ![c] = [old EXCEPT !.stage = "settled", !.outcome = outcome]]
  BY DEF Settle
<1> HIDE DEF outcome
<1>5. call' = [call EXCEPT ![c] = e]
  BY <1>1, <1>4, Settling
<1>7. e \in CallType
  BY <1>1, <1>3 DEF CallType, Stages
<1>8. CallInv(c, e, cookie')
  BY <1>1, <1>2 DEF Settle, CallInv, TokensAreOld, NotYetApplied, SendsAreCounted,
                    RefusedIsOlder, CallType, NoToken
<1>9. cookie' = made' /\ cookie' \in cookie..MaxTokens /\ csrfToken' \in 0..cookie'
  BY <1>1 DEF Settle
<1> HIDE DEF e
<1>6. Becomes(c, e)
  BY <1>5, <1>9, Zenon DEF Becomes
<1> QED
  BY <1>6, <1>7, <1>8, StepKeepsInv

\* A login in another tab changes no call, and makes every token older.
LEMMA LoginElsewhereKeepsInv ==
    ASSUME HttpInv, HttpClientAssumption, LoginElsewhere
    PROVE  HttpInv'
<1>1. /\ TypeOK' /\ cookie' = made' /\ csrfToken' <= cookie' /\ cookie' >= cookie
      /\ cookie \in Nat /\ cookie' \in Nat /\ call' = call
  BY DEF HttpInv, TypeOK, LoginElsewhere, HttpClientAssumption
<1>2. ASSUME NEW c \in Calls
      PROVE  CallInv(c, call[c], cookie)'
  <2>1. CallInv(c, call[c], cookie) /\ call[c] \in CallType
    BY HttpInvAt
  <2> QED
    BY <1>1, <2>1
    DEF CallInv, TokensAreOld, NotYetApplied, SendsAreCounted, RefusedIsOlder, CallType
<1> QED
  BY <1>1, <1>2 DEF HttpInv

-----------------------------------------------------------------------------
(* The theorems *)

LEMMA InitIsFine == ASSUME HttpClientAssumption, Init PROVE HttpInv
<1>1. ASSUME NEW c \in Calls PROVE CallInv(c, call[c], cookie)
  <2>1. call[c] = NotSent /\ cookie \in {0, 1}
    BY DEF Init
  <2> QED
    BY <2>1 DEF NotSent, CallInv, TokensAreOld, NotYetApplied, SendsAreCounted,
                RefusedIsOlder, NoToken, Ok
<1>2. NotSent \in CallType
  BY DEF NotSent, CallType, Stages, NoToken, Ok, HttpClientAssumption
<1>3. TypeOK
  BY <1>2 DEF Init, TypeOK, CallType, NoToken, HttpClientAssumption
<1> QED
  BY <1>1, <1>3 DEF Init, HttpInv, NoToken

LEMMA NextKeepsInv == ASSUME HttpClientAssumption, HttpInv, [Next]_vars PROVE HttpInv'
<1>1. CASE UNCHANGED vars
  BY <1>1 DEF vars, HttpInv, TypeOK, CallInv, TokensAreOld, NotYetApplied, SendsAreCounted,
              RefusedIsOlder
<1>2. CASE LoginElsewhere
  BY <1>2, LoginElsewhereKeepsInv
<1>3. ASSUME NEW c \in Calls,
             \/ Begin(c) \/ TokenServed(c) \/ TokenLoaded(c) \/ Refused(c) \/ Resend(c)
             \/ Settle(c)
      PROVE  HttpInv'
  BY <1>3, BeginKeepsInv, TokenServedKeepsInv, TokenLoadedKeepsInv, RefusedKeepsInv,
     ResendKeepsInv, SettleKeepsInv
<1>4. ASSUME NEW c \in Calls, NEW s \in Statuses \cup {Ok}, Serve(c, s)
      PROVE  HttpInv'
  BY <1>4, ServeKeepsInv
<1>5. ASSUME NEW c \in Calls, NEW s \in {NoAnswer, Cancelled, 500}, TokenFails(c, s)
      PROVE  HttpInv'
  BY <1>5, TokenFailsKeepsInv
<1>6. ASSUME NEW c \in Calls, NEW s \in {NoAnswer, Cancelled}, Lost(c, s)
      PROVE  HttpInv'
  BY <1>6, LostKeepsInv
<1> QED
  BY <1>1, <1>2, <1>3, <1>4, <1>5, <1>6 DEF Next

THEOREM HttpInvariant == ASSUME HttpClientAssumption PROVE Spec => []HttpInv
<1>1. Init => HttpInv
  BY InitIsFine
<1>2. HttpInv /\ [Next]_vars => HttpInv'
  BY NextKeepsInv
<1> QED
  BY <1>1, <1>2, PTL DEF Spec

\* The variables of the client have their types: no call is sent more than twice.
THEOREM HttpTypeCorrect == ASSUME HttpClientAssumption PROVE Spec => []TypeOK
<1>1. HttpInv => TypeOK
  BY DEF HttpInv
<1> QED
  BY <1>1, HttpInvariant, PTL

\* However its calls fail, overlap and are sent again, none takes effect twice
\* (csrfInterceptor).
THEOREM AppliedOnceCorrect == ASSUME HttpClientAssumption PROVE Spec => []AppliedOnce
<1>1. HttpInv => AppliedOnce
  BY DEF HttpInv, CallInv, NotYetApplied, AppliedOnce, HttpClientAssumption
<1> QED
  BY <1>1, HttpInvariant, PTL

\* A call fails for its token only if the cookie changed while it was asking anew
\* (csrfInterceptor, inside httpErrorInterceptor).
THEOREM StaleTokenIsForgivenCorrect ==
    ASSUME HttpClientAssumption PROVE Spec => []StaleTokenIsForgiven
<1>1. HttpInv => StaleTokenIsForgiven
  BY DEF HttpInv, CallInv, SendsAreCounted, RefusedIsOlder, StaleTokenIsForgiven,
         HttpClientAssumption
<1> QED
  BY <1>1, HttpInvariant, PTL
=============================================================================
