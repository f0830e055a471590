--------------------------- MODULE FrontendProofs ---------------------------
(***************************************************************************)
(* Proofs about the parts of the frontend, for any addresses, storages,     *)
(* drafts and calls: a behaviour of the frontend is one of each part, which *)
(* moves or rests.  The HTTP client is proved alone, in a module of its own *)
(* whose definitions are first shown to be the frontend's; the dock and its  *)
(* hint, the card of Notion, the panels, the wait for documents, their       *)
(* viewer and the entry are proved here.                                     *)
(***************************************************************************)
EXTENDS Frontend, FiniteSetTheorems, SequenceTheorems, WellFoundedInduction, TLAPS

HttpProofs == INSTANCE HttpClientProofs WITH call <- httpCall

-----------------------------------------------------------------------------
(* Requests *)

\* They begin alike.
LEMMA HttpSameInit == Http!Init <=> HttpProofs!Init
BY DEF Http!NoToken, HttpProofs!NoToken, Http!Ok, HttpProofs!Ok, Http!NotSent,
       HttpProofs!NotSent, Http!Init, HttpProofs!Init

\* They take the same steps.
LEMMA HttpSameNext == Http!Next <=> HttpProofs!Next
BY DEF Http!NoToken, HttpProofs!NoToken, Http!NoAnswer, HttpProofs!NoAnswer, Http!Cancelled,
       HttpProofs!Cancelled, Http!Ok, HttpProofs!Ok, Http!StatusErrorType,
       HttpProofs!StatusErrorType, Http!ToErrorType, HttpProofs!ToErrorType, Http!Interceptors,
       HttpProofs!Interceptors, Http!Position, HttpProofs!Position, Http!SeesAxiosErrors,
       HttpProofs!SeesAxiosErrors, Http!HttpErrorOf, HttpProofs!HttpErrorOf, Http!IsMutatingRequest,
       HttpProofs!IsMutatingRequest, Http!Sent, HttpProofs!Sent, Http!LoadCsrfToken,
       HttpProofs!LoadCsrfToken, Http!HasNoToken, HttpProofs!HasNoToken, Http!Begin,
       HttpProofs!Begin, Http!TokenServed, HttpProofs!TokenServed, Http!TokenLoaded,
       HttpProofs!TokenLoaded, Http!Failed, HttpProofs!Failed, Http!TokenFails,
       HttpProofs!TokenFails, Http!Answered, HttpProofs!Answered, Http!Denied, HttpProofs!Denied,
       Http!Refused, HttpProofs!Refused, Http!Serve, HttpProofs!Serve, Http!Lost, HttpProofs!Lost,
       Http!IsForbidden, HttpProofs!IsForbidden, Http!Resend, HttpProofs!Resend, Http!Settle,
       HttpProofs!Settle, Http!LoginElsewhere, HttpProofs!LoginElsewhere, Http!Next, HttpProofs!Next

\* Their variables have the same types.
LEMMA HttpSameTypeOK == Http!TypeOK <=> HttpProofs!TypeOK
BY DEF Http!NoAnswer, HttpProofs!NoAnswer, Http!Cancelled, HttpProofs!Cancelled, Http!Ok,
       HttpProofs!Ok, Http!Stages, HttpProofs!Stages, Http!ClientErrorTypes,
       HttpProofs!ClientErrorTypes, Http!ErrorTypes, HttpProofs!ErrorTypes, Http!TypeOK,
       HttpProofs!TypeOK

\* The frontend's requests are the client's.
LEMMA FrontendIsHttpClient == Spec => HttpProofs!Spec
<1>1. Init => HttpProofs!Init
  BY HttpSameInit DEF Init, HttpRests
<1>2. [Next]_vars => [HttpProofs!Next]_(HttpProofs!vars)
  BY HttpSameNext DEF Next, Moves, vars, requestsVars, HttpProofs!vars
<1> QED
  BY <1>1, <1>2, PTL DEF Spec, HttpProofs!Spec

\* Beside whatever else the page does, a request takes effect once (httpClient's retry is
\* of refused requests), and fails for its CSRF token only if that changed under it.
THEOREM RequestsAreSafeCorrect == Spec => []RequestsAreSafe
<1>1. HttpProofs!HttpClientAssumption
  BY FrontendAssumption DEF Http!HttpClientAssumption, HttpProofs!HttpClientAssumption
<1>2. HttpProofs!Spec => []HttpProofs!TypeOK
  BY <1>1, HttpProofs!HttpTypeCorrect
<1>3. HttpProofs!Spec => []HttpProofs!AppliedOnce
  BY <1>1, HttpProofs!AppliedOnceCorrect
<1>4. HttpProofs!Spec => []HttpProofs!StaleTokenIsForgiven
  BY <1>1, HttpProofs!StaleTokenIsForgivenCorrect
<1>5. /\ HttpProofs!TypeOK
      /\ HttpProofs!AppliedOnce
      /\ HttpProofs!StaleTokenIsForgiven
      => RequestsAreSafe
  BY HttpSameTypeOK DEF RequestsAreSafe, AppliedOnce, StaleTokenIsForgiven, Http!AppliedOnce,
         HttpProofs!AppliedOnce, Http!StaleTokenIsForgiven, HttpProofs!StaleTokenIsForgiven
<1> QED
  BY <1>2, <1>3, <1>4, <1>5, FrontendIsHttpClient, PTL

-----------------------------------------------------------------------------
(* The dock *)

\* A question in the history has been asked, so that no draft is one.
DockQuestionsAreAsked ==
  \A i \in 1..Len(dockHistory): dockHistory[i].question # Dock!Empty =>
    fate[dockHistory[i].question] = "asked"

DockInv ==
  /\ Dock!TypeOK
  /\ Dock!KeptWhileWritten
  /\ Dock!AskedOnce
  /\ Dock!BackToWhereItWasAsked
  /\ DockQuestionsAreAsked

-----------------------------------------------------------------------------
\* The field

\* What the field may hold next, beside what it holds.
DockWritable == {Dock!Empty, Dock!Blank} \union Dock!NextDrafts

\* Where the field changes and the history does not.
DockWritten ==
  /\ message' \in Dock!Message
  /\ fate' \in [Dock!Drafts -> Dock!Fates]
  /\ \A d \in Dock!Drafts: fate'[d] = "writing" <=> message' = d
  /\ \A d \in Dock!Drafts: fate[d] = "asked" => fate'[d] = "asked"

\* A draft begun, kept or discarded leaves the asked ones as they are.
LEMMA DockHoldsWrites ==
  ASSUME DockInv, Dock!DockAssumption, NEW m \in DockWritable \union {message}, Dock!Holds(m)
  PROVE  DockWritten
<1>1. /\ message \in Dock!Message /\ fate \in [Dock!Drafts -> Dock!Fates]
      /\ \A d \in Dock!Drafts: fate[d] = "writing" <=> message = d
  BY DEF DockInv, Dock!TypeOK, Dock!KeptWhileWritten
<1>2. m \in Dock!Message
  BY <1>1 DEF DockWritable, Dock!NextDrafts, Dock!Message
<1>3. message' = m
  BY DEF Dock!Holds
<1>4. fate' = [d \in Dock!Drafts |->
         IF d = m THEN "writing" ELSE IF d = message THEN "discarded" ELSE fate[d]]
  BY DEF Dock!Holds
<1>5. ASSUME NEW d \in Dock!Drafts
      PROVE  /\ fate'[d] \in Dock!Fates
             /\ fate'[d] = "writing" <=> m = d
             /\ fate[d] = "asked" => fate'[d] = "asked"
  <2>1. fate'[d] = IF d = m THEN "writing" ELSE IF d = message THEN "discarded" ELSE fate[d]
    BY <1>4
  <2>2. fate[d] \in Dock!Fates
    BY <1>1
  <2>3. CASE d = m
    <3>1. fate[d] # "asked"
      <4>1. CASE m = message
        BY <4>1, <1>1, <2>3
      <4>2. CASE m \in Dock!NextDrafts
        BY <4>2, <2>3 DEF Dock!NextDrafts
      <4>3. CASE m \in {Dock!Empty, Dock!Blank}
        BY <4>3, <2>3 DEF Dock!DockAssumption, Dock!Drafts, Dock!Empty, Dock!Blank
      <4> QED
        BY <4>1, <4>2, <4>3 DEF DockWritable
    <3> QED
      BY <2>1, <2>3, <3>1 DEF Dock!Fates
  <2>4. CASE d # m /\ d = message
    BY <2>1, <2>4, <1>1 DEF Dock!Fates
  <2>5. CASE d # m /\ d # message
    BY <2>1, <2>2, <2>5, <1>1
  <2> QED
    BY <2>3, <2>4, <2>5
<1>6. fate' \in [Dock!Drafts -> Dock!Fates]
  BY <1>4, <1>5
<1> QED
  BY <1>2, <1>3, <1>5, <1>6 DEF DockWritten

LEMMA DockLetterWrites ==
  ASSUME DockInv, Dock!DockAssumption, Dock!AddsLetter
  PROVE  DockWritten
<1>1. CASE Dock!CanSubmit
  BY <1>1, DockHoldsWrites DEF Dock!AddsLetter
<1>2. CASE ~Dock!CanSubmit
  <2>1. PICK d \in Dock!NextDrafts: Dock!Holds(d)
    BY <1>2 DEF Dock!AddsLetter
  <2> QED
    BY <2>1, DockHoldsWrites DEF DockWritable
<1> QED
  BY <1>1, <1>2

LEMMA DockBlankWrites ==
  ASSUME DockInv, Dock!DockAssumption, Dock!AddsBlank
  PROVE  DockWritten
<1>1. (IF message = Dock!Empty THEN Dock!Blank ELSE message) \in DockWritable \union {message}
  BY DEF DockWritable
<1> QED
  BY <1>1, DockHoldsWrites DEF Dock!AddsBlank

LEMMA DockNothingWritten ==
  ASSUME DockInv, UNCHANGED <<message, fate>>
  PROVE  DockWritten
BY DEF DockInv, Dock!TypeOK, Dock!KeptWhileWritten, DockWritten

-----------------------------------------------------------------------------
\* The history

\* What the invariant says of the history alone.
DockHistoryOK(h, k) ==
  /\ h \in Seq(Dock!Entry)
  /\ Len(h) \in 1..MaxDockHistory
  /\ k \in 1..Len(h)
  /\ \A i, j \in 1..Len(h):
       h[i].question # Dock!Empty /\ h[i].question = h[j].question => i = j
  /\ \A i \in 1..Len(h): h[i].question # Dock!Empty =>
       /\ h[i].page = "chat"
       /\ i > 1
       /\ h[i - 1].page \notin Dock!ChatPages

DockAsked(h, f) == \A i \in 1..Len(h): h[i].question # Dock!Empty => f[h[i].question] = "asked"

LEMMA DockInvIs ==
  ASSUME DockInv
  PROVE  DockHistoryOK(dockHistory, dockAt) /\ DockAsked(dockHistory, fate)
BY DEF DockInv, Dock!TypeOK, Dock!AskedOnce, Dock!BackToWhereItWasAsked, DockQuestionsAreAsked,
       DockHistoryOK, DockAsked

\* Nothing in the field can be a question of the history.
LEMMA DockMakesDockInv ==
  ASSUME Dock!DockAssumption, DockHistoryOK(dockHistory', dockAt'), DockAsked(dockHistory',
         fate'),
         message' \in Dock!Message, fate' \in [Dock!Drafts -> Dock!Fates],
         \A d \in Dock!Drafts: fate'[d] = "writing" <=> message' = d,
         byUser' \in BOOLEAN, composing' \in BOOLEAN,
         dockFocus' \in {"page", "control", "field"}, taken' \in BOOLEAN
  PROVE  DockInv'
<1>1. Dock!TypeOK'
  BY DEF DockHistoryOK, Dock!TypeOK
<1>2. Dock!KeptWhileWritten'
  BY DEF Dock!KeptWhileWritten
<1>3. ASSUME NEW i \in 1..Len(dockHistory'), dockHistory'[i].question # Dock!Empty
      PROVE  dockHistory'[i].question # message'
  <2>1. dockHistory'[i] \in Dock!Entry
    BY ElementOfSeq DEF DockHistoryOK
  <2>2. dockHistory'[i].question \in Dock!Drafts
    BY <1>3, <2>1 DEF Dock!Entry
  <2>3. fate'[dockHistory'[i].question] = "asked"
    BY <1>3 DEF DockAsked
  <2> QED
    BY <2>2, <2>3
<1>4. Dock!AskedOnce'
  BY <1>3 DEF Dock!AskedOnce, DockHistoryOK
<1>5. Dock!BackToWhereItWasAsked'
  BY DEF Dock!BackToWhereItWasAsked, DockHistoryOK
<1>6. DockQuestionsAreAsked'
  BY DEF DockQuestionsAreAsked, DockAsked
<1> QED
  BY <1>1, <1>2, <1>4, <1>5, <1>6 DEF DockInv

\* What was asked stays asked: the questions of the history with it.
LEMMA DockStaysAsked ==
  ASSUME Dock!DockAssumption, NEW h \in Seq(Dock!Entry), DockAsked(h, fate), DockWritten
  PROVE  DockAsked(h, fate')
<1>1. ASSUME NEW i \in 1..Len(h), h[i].question # Dock!Empty
      PROVE  fate'[h[i].question] = "asked"
  <2>1. h[i] \in Dock!Entry
    BY ElementOfSeq
  <2>2. h[i].question \in Dock!Drafts
    BY <1>1, <2>1 DEF Dock!Entry
  <2> QED
    BY <1>1, <2>2 DEF DockAsked, DockWritten
<1> QED
  BY <1>1 DEF DockAsked

\* A step of the field or of the focus.
LEMMA DockFieldKeeps ==
  ASSUME DockInv, Dock!DockAssumption, DockWritten, UNCHANGED <<dockHistory, dockAt>>,
         byUser' \in BOOLEAN, composing' \in BOOLEAN,
         dockFocus' \in {"page", "control", "field"}, taken' \in BOOLEAN
  PROVE  DockInv'
<1>1. DockHistoryOK(dockHistory, dockAt) /\ DockAsked(dockHistory, fate)
  BY DockInvIs
<1>2. dockHistory \in Seq(Dock!Entry)
  BY <1>1 DEF DockHistoryOK
<1>3. DockHistoryOK(dockHistory', dockAt') /\ DockAsked(dockHistory', fate')
  BY <1>1, <1>2, DockStaysAsked
<1> QED
  BY <1>3, DockMakesDockInv DEF DockWritten

\* A new entry behind the one on screen, without what was ahead.
LEMMA DockPushIs ==
  ASSUME DockHistoryOK(dockHistory, dockAt), Dock!DockAssumption,
         NEW where \in Dock!Pages,
         NEW question \in {Dock!Empty} \union Dock!Drafts,
         Dock!Push(where, question)
  PROVE  /\ dockHistory' \in Seq(Dock!Entry)
         /\ Len(dockHistory') = dockAt + 1 /\ dockAt' = dockAt + 1 /\ dockAt + 1 <= MaxDockHistory
         /\ dockAt \in Nat \ {0} /\ dockAt <= Len(dockHistory) /\ Len(dockHistory) \in Nat
         /\ \A i \in 1..dockAt: dockHistory'[i] = dockHistory[i]
         /\ dockHistory'[dockAt + 1].question = question /\ dockHistory'[dockAt + 1].page = where
<1> DEFINE old == SubSeq(dockHistory, 1, dockAt)
           new == [page |-> where, question |-> question]
<1>1. dockHistory \in Seq(Dock!Entry) /\ dockAt \in 1..Len(dockHistory) /\ Len(dockHistory) \in Nat
  BY DEF DockHistoryOK
<1>2. \A i \in 1..dockAt: dockHistory[i] \in Dock!Entry
  BY <1>1, ElementOfSeq
<1>3. old \in Seq(Dock!Entry) /\ Len(old) = dockAt /\ \A i \in 1..dockAt: old[i] = dockHistory[i]
  BY <1>1, <1>2, SubSeqProperties
<1>4. new \in Dock!Entry
  BY DEF Dock!Entry
<1>5. dockHistory' = Append(old, new)
  BY DEF Dock!Push
<1>6. dockAt' = dockAt + 1 /\ dockAt < MaxDockHistory
  BY DEF Dock!Push
<1> HIDE DEF old, new
<1>7. /\ Append(old, new) \in Seq(Dock!Entry)
      /\ Len(Append(old, new)) = dockAt + 1
      /\ \A i \in 1..dockAt: Append(old, new)[i] = old[i]
      /\ Append(old, new)[dockAt + 1] = new
  BY <1>1, <1>3, <1>4, AppendProperties
<1>8. new.question = question /\ new.page = where
  BY DEF new
<1> QED
  BY <1>1, <1>3, <1>5, <1>6, <1>7, <1>8 DEF Dock!DockAssumption

LEMMA DockPushKeepsHistory ==
  ASSUME DockHistoryOK(dockHistory, dockAt), DockAsked(dockHistory, fate), Dock!DockAssumption,
         NEW where \in Dock!Pages,
         NEW question \in {Dock!Empty} \union Dock!Drafts,
         Dock!Push(where, question),
         question # Dock!Empty => /\ where = "chat"
                             /\ Dock!Page \notin Dock!ChatPages
                             /\ fate[question] # "asked"
  PROVE  DockHistoryOK(dockHistory', dockAt')
<1>1. /\ dockHistory' \in Seq(Dock!Entry)
      /\ Len(dockHistory') = dockAt + 1 /\ dockAt' = dockAt + 1 /\ dockAt + 1 <= MaxDockHistory
      /\ dockAt \in Nat \ {0} /\ dockAt <= Len(dockHistory) /\ Len(dockHistory) \in Nat
      /\ \A i \in 1..dockAt: dockHistory'[i] = dockHistory[i]
      /\ dockHistory'[dockAt + 1].question = question /\ dockHistory'[dockAt + 1].page = where
  BY DockPushIs
<1>2. ASSUME NEW i \in 1..dockAt, dockHistory[i].question # Dock!Empty
      PROVE  dockHistory[i].question # question
  <2>1. i \in 1..Len(dockHistory)
    BY <1>1
  <2>2. fate[dockHistory[i].question] = "asked"
    BY <1>2, <2>1 DEF DockAsked
  <2> QED
    BY <1>2, <2>2
<1>3. ASSUME NEW i \in 1..(dockAt + 1), NEW j \in 1..(dockAt + 1),
             dockHistory'[i].question # Dock!Empty,
             dockHistory'[i].question = dockHistory'[j].question
      PROVE  i = j
  <2>1. CASE i <= dockAt /\ j <= dockAt
    <3>1. /\ i \in 1..Len(dockHistory) /\ j \in 1..Len(dockHistory)
          /\ i \in 1..dockAt /\ j \in 1..dockAt
      BY <1>1, <2>1
    <3> QED
      BY <1>1, <1>3, <3>1 DEF DockHistoryOK
  <2>2. CASE i <= dockAt /\ j = dockAt + 1
    BY <1>1, <1>2, <1>3, <2>2
  <2>3. CASE i = dockAt + 1 /\ j <= dockAt
    BY <1>1, <1>2, <1>3, <2>3
  <2>4. CASE i = dockAt + 1 /\ j = dockAt + 1
    BY <2>4
  <2> QED
    BY <1>1, <2>1, <2>2, <2>3, <2>4
<1>4. ASSUME NEW i \in 1..(dockAt + 1), dockHistory'[i].question # Dock!Empty
      PROVE  /\ dockHistory'[i].page = "chat" /\ i > 1
             /\ dockHistory'[i - 1].page \notin Dock!ChatPages
  <2>1. CASE i <= dockAt
    <3>1. i \in 1..dockAt /\ i \in 1..Len(dockHistory) /\ dockHistory'[i] = dockHistory[i]
      BY <1>1, <2>1
    <3>2. dockHistory[i].page = "chat" /\ i > 1 /\ dockHistory[i - 1].page \notin Dock!ChatPages
      BY <1>4, <3>1 DEF DockHistoryOK
    <3>3. dockHistory'[i - 1] = dockHistory[i - 1]
      BY <1>1, <3>1, <3>2
    <3> QED
      BY <3>1, <3>2, <3>3
  <2>2. CASE i = dockAt + 1
    <3>1. dockHistory'[dockAt] = dockHistory[dockAt]
      BY <1>1
    <3>2. question # Dock!Empty
      BY <1>1, <1>4, <2>2
    <3> QED
      BY <1>1, <2>2, <3>1, <3>2 DEF Dock!Page
  <2> QED
    BY <1>1, <2>1, <2>2
<1>5. /\ Len(dockHistory') \in 1..MaxDockHistory /\ dockAt' \in 1..Len(dockHistory')
      /\ Len(dockHistory') = dockAt + 1
  BY <1>1 DEF Dock!DockAssumption
<1> HIDE DEF DockHistoryOK
<1> QED
  BY <1>1, <1>3, <1>4, <1>5 DEF DockHistoryOK

\* What was asked is still, and a new question is.
LEMMA DockPushKeepsAsked ==
  ASSUME DockHistoryOK(dockHistory, dockAt), DockAsked(dockHistory, fate), Dock!DockAssumption,
         NEW where \in Dock!Pages,
         NEW question \in {Dock!Empty} \union Dock!Drafts,
         Dock!Push(where, question),
         question # Dock!Empty => fate'[question] = "asked",
         \A d \in Dock!Drafts: fate[d] = "asked" => fate'[d] = "asked"
  PROVE  DockAsked(dockHistory', fate')
<1>1. /\ Len(dockHistory') = dockAt + 1
      /\ dockAt \in Nat \ {0} /\ dockAt <= Len(dockHistory) /\ Len(dockHistory) \in Nat
      /\ \A i \in 1..dockAt: dockHistory'[i] = dockHistory[i]
      /\ dockHistory'[dockAt + 1].question = question /\ dockHistory'[dockAt + 1].page = where
  BY DockPushIs
<1>2. ASSUME NEW i \in 1..(dockAt + 1), dockHistory'[i].question # Dock!Empty
      PROVE  fate'[dockHistory'[i].question] = "asked"
  <2>1. CASE i <= dockAt
    <3>1. i \in 1..Len(dockHistory) /\ dockHistory'[i] = dockHistory[i]
      BY <1>1, <2>1
    <3>2. dockHistory \in Seq(Dock!Entry)
      BY DEF DockHistoryOK
    <3>3. dockHistory[i] \in Dock!Entry
      BY <3>1, <3>2, ElementOfSeq
    <3>4. dockHistory[i].question \in Dock!Drafts /\ fate[dockHistory[i].question] = "asked"
      BY <1>2, <3>1, <3>3 DEF Dock!Entry, DockAsked
    <3> QED
      BY <3>1, <3>4
  <2>2. CASE i = dockAt + 1
    BY <1>1, <1>2, <2>2
  <2> QED
    BY <1>1, <2>1, <2>2
<1> QED
  BY <1>1, <1>2 DEF DockAsked

-----------------------------------------------------------------------------
\* The actions

LEMMA DockOpensIs ==
  ASSUME Dock!Opens
  PROVE  /\ byUser' \in BOOLEAN /\ composing' \in BOOLEAN
         /\ dockFocus' \in {"page", "control", "field"}
BY DEF Dock!Opens

LEMMA DockTypingKeeps ==
  ASSUME DockInv, Dock!DockAssumption,
         Dock!TypeLetter \/ Dock!TypeBlank \/ Dock!TypeComposed \/ Dock!Expand
  PROVE  DockInv'
<1>1. taken \in BOOLEAN
  BY DEF DockInv, Dock!TypeOK
<1>2. CASE Dock!TypeLetter
  BY <1>1, <1>2, DockLetterWrites, DockOpensIs, DockFieldKeeps DEF Dock!TypeLetter
<1>3. CASE Dock!TypeBlank
  <2>1. taken' \in BOOLEAN
    BY <1>1, <1>3, Zenon DEF Dock!TypeBlank
  <2> QED
    BY <1>3, <2>1, DockBlankWrites, DockOpensIs, DockFieldKeeps DEF Dock!TypeBlank
<1>4. CASE Dock!TypeComposed \/ Dock!Expand
  BY <1>1, <1>4, DockNothingWritten, DockOpensIs, DockFieldKeeps DEF Dock!TypeComposed,
         Dock!Expand
<1> QED
  BY <1>2, <1>3, <1>4

LEMMA DockMoveFocusKeeps ==
  ASSUME DockInv, Dock!DockAssumption, Dock!MoveFocus
  PROVE  DockInv'
<1>1. byUser \in BOOLEAN /\ taken \in BOOLEAN
  BY DEF DockInv, Dock!TypeOK
<1>2. dockFocus' \in {"page", "control", "field"}
  BY DEF Dock!MoveFocus
<1> QED
  BY <1>1, <1>2, DockNothingWritten, DockFieldKeeps DEF Dock!MoveFocus

LEMMA DockChangeKeeps ==
  ASSUME DockInv, Dock!DockAssumption, Dock!Change
  PROVE  DockInv'
<1>1. byUser \in BOOLEAN /\ taken \in BOOLEAN /\ dockFocus \in {"page", "control", "field"}
  BY DEF DockInv, Dock!TypeOK
<1>2. DockWritten
  <2>1. CASE Dock!AddsLetter
    BY <2>1, DockLetterWrites
  <2>2. CASE Dock!AddsBlank
    BY <2>2, DockBlankWrites
  <2>3. CASE \E m \in {Dock!Empty, Dock!Blank} \union Dock!NextDrafts: Dock!Holds(m)
    BY <2>3, DockHoldsWrites DEF DockWritable
  <2> QED
    BY <2>1, <2>2, <2>3 DEF Dock!Change
<1> QED
  BY <1>1, <1>2, DockFieldKeeps DEF Dock!Change

LEMMA DockPressOutsideKeeps ==
  ASSUME DockInv, Dock!DockAssumption, Dock!PressOutside
  PROVE  DockInv'
<1>1. taken \in BOOLEAN
  BY DEF DockInv, Dock!TypeOK
<1> QED
  BY <1>1, DockNothingWritten, DockFieldKeeps DEF Dock!PressOutside

LEMMA DockResetKeeps ==
  ASSUME DockInv, Dock!DockAssumption, Dock!Reset
  PROVE  DockInv'
<1>1. taken \in BOOLEAN
  BY DEF DockInv, Dock!TypeOK
<1>2. DockWritten
  BY DockHoldsWrites DEF Dock!Reset, DockWritable
<1>3. byUser' \in BOOLEAN /\ composing' \in BOOLEAN /\ dockFocus' \in {"page", "control",
"field"}
  BY DEF Dock!Reset
<1> QED
  BY <1>1, <1>2, <1>3, DockFieldKeeps DEF Dock!Reset

\* The draft in the field, submitted: no longer written, the others as before.
LEMMA DockSubmittedIs ==
  ASSUME DockInv, Dock!DockAssumption, Dock!Submits, NEW f \in {"asked", "emptied"},
         Dock!Becomes(f),
         message' = Dock!Empty
  PROVE  /\ message \in Dock!Drafts /\ fate[message] # "asked" /\ fate'[message] = f
         /\ DockWritten
<1>1. /\ fate \in [Dock!Drafts -> Dock!Fates]
      /\ \A d \in Dock!Drafts: fate[d] = "writing" <=> message = d
  BY DEF DockInv, Dock!TypeOK, Dock!KeptWhileWritten
<1>2. message \in Dock!Drafts /\ fate[message] = "writing"
  BY <1>1 DEF Dock!Submits, Dock!CanSubmit
<1>3. fate' = [fate EXCEPT ![message] = f]
  BY DEF Dock!Becomes
<1>4. \A d \in Dock!Drafts: d # Dock!Empty
  BY DEF Dock!DockAssumption, Dock!Drafts, Dock!Empty
<1>5. fate' \in [Dock!Drafts -> Dock!Fates]
  BY <1>1, <1>3 DEF Dock!Fates
<1>6. \A d \in Dock!Drafts: fate'[d] = "writing" <=> message' = d
  BY <1>1, <1>2, <1>3, <1>4
<1>7. \A d \in Dock!Drafts: fate[d] = "asked" => fate'[d] = "asked"
  BY <1>1, <1>2, <1>3
<1> QED
  BY <1>1, <1>2, <1>3, <1>5, <1>6, <1>7 DEF DockWritten, Dock!Message

LEMMA DockSubmitOnChatKeeps ==
  ASSUME DockInv, Dock!DockAssumption, Dock!SubmitOnChat
  PROVE  DockInv'
<1>1. byUser \in BOOLEAN /\ composing \in BOOLEAN /\ taken \in BOOLEAN
  BY DEF DockInv, Dock!TypeOK
<1>2. DockWritten
  BY DockSubmittedIs DEF Dock!SubmitOnChat
<1> QED
  BY <1>1, <1>2, DockFieldKeeps DEF Dock!SubmitOnChat

LEMMA DockSubmitElsewhereKeeps ==
  ASSUME DockInv, Dock!DockAssumption, Dock!SubmitElsewhere
  PROVE  DockInv'
<1>1. composing \in BOOLEAN /\ taken \in BOOLEAN /\ dockFocus \in {"page", "control", "field"}
  BY DEF DockInv, Dock!TypeOK
<1>2. DockHistoryOK(dockHistory, dockAt) /\ DockAsked(dockHistory, fate)
  BY DockInvIs
<1>3. /\ message \in Dock!Drafts /\ fate[message] # "asked" /\ fate'[message] = "asked"
      /\ DockWritten
  BY DockSubmittedIs DEF Dock!SubmitElsewhere
<1>4. Dock!Push("chat", message) /\ Dock!Page \notin Dock!ChatPages
  BY DEF Dock!SubmitElsewhere, Dock!IsChatActive
<1>5. "chat" \in Dock!Pages
  BY DEF Dock!Pages, Dock!ChatPages
<1>6. DockHistoryOK(dockHistory', dockAt')
  BY <1>2, <1>3, <1>4, <1>5, DockPushKeepsHistory
<1>7. DockAsked(dockHistory', fate')
  BY <1>2, <1>3, <1>4, <1>5, DockPushKeepsAsked DEF DockWritten
<1>8. byUser' \in BOOLEAN /\ UNCHANGED <<composing, dockFocus, taken>>
  BY DEF Dock!SubmitElsewhere
<1> QED
  BY <1>1, <1>3, <1>6, <1>7, <1>8, DockMakesDockInv DEF DockWritten

LEMMA DockArrivesIs ==
  ASSUME DockInv, NEW where, Dock!Arrives(where)
  PROVE  composing' \in BOOLEAN /\ dockFocus' \in {"page", "control", "field"}
BY DEF Dock!Arrives, DockInv, Dock!TypeOK

LEMMA DockNavigatePushKeeps ==
  ASSUME DockInv, Dock!DockAssumption, NEW where \in Dock!Pages,
         Dock!Push(where, Dock!Empty), Dock!Arrives(where), Dock!Stays, UNCHANGED taken
  PROVE  DockInv'
<1>1. byUser \in BOOLEAN /\ taken \in BOOLEAN
  BY DEF DockInv, Dock!TypeOK
<1>2. DockHistoryOK(dockHistory, dockAt) /\ DockAsked(dockHistory, fate)
  BY DockInvIs
<1>3. DockWritten
  BY DockNothingWritten DEF Dock!Stays
<1>4. DockHistoryOK(dockHistory', dockAt')
  BY <1>2, DockPushKeepsHistory
<1>5. DockAsked(dockHistory', fate')
  BY <1>2, <1>3, DockPushKeepsAsked DEF DockWritten
<1> QED
  BY <1>1, <1>3, <1>4, <1>5, DockArrivesIs, DockMakesDockInv DEF DockWritten, Dock!Stays

\* The chat that a new one takes the place of was asked no question behind it.
LEMMA DockNavigateToNewChatKeeps ==
  ASSUME DockInv, Dock!DockAssumption, Dock!NavigateToNewChat, UNCHANGED taken
  PROVE  DockInv'
<1> DEFINE new == [page |-> "chat", question |-> Dock!Empty]
<1>1. byUser \in BOOLEAN /\ taken \in BOOLEAN
  BY DEF DockInv, Dock!TypeOK
<1>2. DockHistoryOK(dockHistory, dockAt) /\ DockAsked(dockHistory, fate)
  BY DockInvIs
<1>3. /\ dockHistory \in Seq(Dock!Entry) /\ dockAt \in 1..Len(dockHistory)
      /\ Len(dockHistory) \in Nat /\ Len(dockHistory) \in 1..MaxDockHistory
  BY <1>2 DEF DockHistoryOK
<1>4. new \in Dock!Entry /\ new.question = Dock!Empty
  BY DEF Dock!Entry, Dock!Pages, Dock!ChatPages
<1>5. /\ dockHistory' = [dockHistory EXCEPT ![dockAt] = new] /\ dockAt' = dockAt
      /\ dockHistory[dockAt].page \in Dock!ChatPages
  BY DEF Dock!NavigateToNewChat, Dock!IsChatActive, Dock!Page
<1> HIDE DEF new
<1>6. /\ dockHistory' \in Seq(Dock!Entry) /\ Len(dockHistory') = Len(dockHistory)
      /\ \A j \in 1..Len(dockHistory): dockHistory'[j] = IF j = dockAt THEN new ELSE dockHistory[j]
  BY <1>3, <1>4, <1>5, ExceptSeq
<1>7. ASSUME NEW i \in 1..Len(dockHistory), dockHistory'[i].question # Dock!Empty
      PROVE  i # dockAt /\ dockHistory'[i] = dockHistory[i]
  BY <1>4, <1>6, <1>7
<1>8. ASSUME NEW i \in 1..Len(dockHistory), NEW j \in 1..Len(dockHistory),
             dockHistory'[i].question # Dock!Empty,
             dockHistory'[i].question = dockHistory'[j].question
      PROVE  i = j
  <2>1. dockHistory'[i] = dockHistory[i] /\ dockHistory'[j] = dockHistory[j]
    BY <1>7, <1>8
  <2> QED
    BY <1>2, <1>8, <2>1 DEF DockHistoryOK
<1>9. ASSUME NEW i \in 1..Len(dockHistory), dockHistory'[i].question # Dock!Empty
      PROVE  /\ dockHistory'[i].page = "chat" /\ i > 1
             /\ dockHistory'[i - 1].page \notin Dock!ChatPages
  <2>1. dockHistory'[i] = dockHistory[i]
    BY <1>7, <1>9
  <2>2. dockHistory[i].page = "chat" /\ i > 1 /\ dockHistory[i - 1].page \notin Dock!ChatPages
    BY <1>2, <1>9, <2>1 DEF DockHistoryOK
  <2>3. i - 1 # dockAt /\ i - 1 \in 1..Len(dockHistory)
    BY <1>3, <1>5, <2>2
  <2> QED
    BY <1>6, <2>1, <2>2, <2>3
<1>10. DockHistoryOK(dockHistory', dockAt')
  BY <1>3, <1>5, <1>6, <1>8, <1>9 DEF DockHistoryOK
<1>11. DockWritten
  BY DockNothingWritten DEF Dock!NavigateToNewChat, Dock!Stays
<1>12. \A i \in 1..Len(dockHistory): dockHistory'[i].question # Dock!Empty =>
         fate'[dockHistory'[i].question] = "asked"
  BY <1>2, <1>7 DEF DockAsked, Dock!NavigateToNewChat, Dock!Stays
<1>13. DockAsked(dockHistory', fate')
  BY <1>6, <1>12 DEF DockAsked
<1>14. Dock!Arrives("chat") /\ byUser' = byUser
  BY DEF Dock!NavigateToNewChat, Dock!Stays
<1> QED
  BY <1>1, <1>10, <1>11, <1>13, <1>14, DockArrivesIs, DockMakesDockInv DEF DockWritten

LEMMA DockTraverseKeeps ==
  ASSUME DockInv, Dock!DockAssumption, Dock!Traverse, UNCHANGED taken
  PROVE  DockInv'
<1>1. byUser \in BOOLEAN /\ taken \in BOOLEAN
  BY DEF DockInv, Dock!TypeOK
<1>2. DockHistoryOK(dockHistory, dockAt) /\ DockAsked(dockHistory, fate)
  BY DockInvIs
<1>3. DockWritten
  BY DockNothingWritten DEF Dock!Traverse, Dock!Stays
<1>4. /\ dockHistory' = dockHistory /\ dockAt' \in 1..Len(dockHistory)
      /\ fate' = fate /\ byUser' = byUser
  BY DEF Dock!Traverse, Dock!Stays
<1>5. DockHistoryOK(dockHistory', dockAt') /\ DockAsked(dockHistory', fate')
  BY <1>2, <1>4 DEF DockHistoryOK
<1>6. composing' \in BOOLEAN /\ dockFocus' \in {"page", "control", "field"}
  BY DockArrivesIs DEF Dock!Traverse
<1> QED
  BY <1>1, <1>3, <1>4, <1>5, <1>6, DockMakesDockInv DEF DockWritten

LEMMA DockReloadKeeps ==
  ASSUME DockInv, Dock!DockAssumption, Dock!Reload
  PROVE  DockInv'
<1>1. taken \in BOOLEAN
  BY DEF DockInv, Dock!TypeOK
<1>2. DockWritten
  BY DockHoldsWrites DEF Dock!Reload, DockWritable
<1> QED
  BY <1>1, <1>2, DockFieldKeeps DEF Dock!Reload

LEMMA DockNavigateKeeps ==
  ASSUME DockInv, Dock!DockAssumption, Dock!Navigate
  PROVE  DockInv'
<1> /\ Dock!Pages = {"chat", "session", "home", "other"}
    /\ Dock!Navigate => UNCHANGED taken
  BY DEF Dock!Pages, Dock!ChatPages, Dock!Navigate, Dock!NavigateToHome,
         Dock!NavigateToExplore, Dock!NavigateToChatSession,
         Dock!NavigateToOther, Dock!NavigateToNewChat, Dock!Traverse, Dock!Reload, Dock!Stays
<1>1. CASE Dock!NavigateToHome
  BY <1>1, DockNavigatePushKeeps DEF Dock!NavigateToHome
<1>2. CASE Dock!NavigateToExplore
  BY <1>2, DockNavigatePushKeeps DEF Dock!NavigateToExplore
<1>3. CASE Dock!NavigateToChatSession
  BY <1>3, DockNavigatePushKeeps DEF Dock!NavigateToChatSession
<1>4. CASE Dock!NavigateToOther
  BY <1>4, DockNavigatePushKeeps DEF Dock!NavigateToOther
<1>5. CASE Dock!NavigateToNewChat
  BY <1>5, DockNavigateToNewChatKeeps
<1>6. CASE Dock!Traverse
  BY <1>6, DockTraverseKeeps
<1>7. CASE Dock!Reload
  BY <1>7, DockReloadKeeps
<1> QED
  BY <1>1, <1>2, <1>3, <1>4, <1>5, <1>6, <1>7 DEF Dock!Navigate

-----------------------------------------------------------------------------
\* The theorems

LEMMA DockInitIsFine ==
  ASSUME Dock!Init, Dock!DockAssumption
  PROVE  DockInv
<1>1. PICK where \in Dock!Pages: dockHistory = <<[page |-> where, question |-> Dock!Empty]>>
  BY DEF Dock!Init
<1>2. [page |-> where, question |-> Dock!Empty] \in Dock!Entry
  BY DEF Dock!Entry
<1>3. /\ dockHistory \in Seq(Dock!Entry) /\ Len(dockHistory) = 1
      /\ dockHistory[1].question = Dock!Empty
  BY <1>1, <1>2
<1>4. \A i \in 1..Len(dockHistory): i = 1
  BY <1>3
<1>5. fate \in [Dock!Drafts -> Dock!Fates] /\ \A d \in Dock!Drafts: fate[d] = "none" /\ message # d
  BY DEF Dock!DockAssumption, Dock!Init, Dock!Fates, Dock!Drafts, Dock!Empty
<1>6. Dock!TypeOK
  <2>1. Len(dockHistory) \in 1..MaxDockHistory /\ dockAt \in 1..Len(dockHistory)
    BY <1>3 DEF Dock!DockAssumption, Dock!Init
  <2>2. byUser \in BOOLEAN /\ composing \in BOOLEAN /\ taken \in BOOLEAN
    BY DEF Dock!Init
  <2>3. message \in Dock!Message /\ dockFocus \in {"page", "control", "field"}
    BY DEF Dock!Init, Dock!Message
  <2> QED
    BY <1>3, <1>5, <2>1, <2>2, <2>3 DEF Dock!TypeOK
<1>7. Dock!KeptWhileWritten
  BY <1>5 DEF Dock!KeptWhileWritten
<1>8. Dock!AskedOnce /\ Dock!BackToWhereItWasAsked /\ DockQuestionsAreAsked
  BY <1>3, <1>4 DEF Dock!AskedOnce, Dock!BackToWhereItWasAsked, DockQuestionsAreAsked
<1> QED
  BY <1>6, <1>7, <1>8 DEF DockInv

LEMMA DockNextKeepsInv ==
  ASSUME DockInv, Dock!DockAssumption, [Dock!Next]_(Dock!vars)
  PROVE  DockInv'
<1>1. CASE Dock!TypeLetter \/ Dock!TypeBlank \/ Dock!TypeComposed \/ Dock!Expand
  BY <1>1, DockTypingKeeps
<1>2. CASE Dock!MoveFocus
  BY <1>2, DockMoveFocusKeeps
<1>3. CASE Dock!Change
  BY <1>3, DockChangeKeeps
<1>4. CASE Dock!PressOutside
  BY <1>4, DockPressOutsideKeeps
<1>5. CASE Dock!Reset
  BY <1>5, DockResetKeeps
<1>6. CASE Dock!SubmitOnChat
  BY <1>6, DockSubmitOnChatKeeps
<1>7. CASE Dock!SubmitElsewhere
  BY <1>7, DockSubmitElsewhereKeeps
<1>8. CASE Dock!Navigate
  BY <1>8, DockNavigateKeeps
<1>9. CASE UNCHANGED Dock!vars
  BY <1>9 DEF Dock!vars, DockInv, Dock!TypeOK, Dock!KeptWhileWritten, Dock!AskedOnce,
              Dock!BackToWhereItWasAsked, DockQuestionsAreAsked, Dock!Page, Dock!IsChatActive
<1> QED
  BY <1>1, <1>2, <1>3, <1>4, <1>5, <1>6, <1>7, <1>8, <1>9 DEF Dock!Next

\* Beside whatever else the page does, the dock keeps what is written, asks a question
\* once, and Back leads from it to where it was asked (useWorkspaceDock), however its keys,
\* presses, screens and Back follow each other.
THEOREM DockIsSafeCorrect == Spec => []DockIsSafe
<1>1. Dock!DockAssumption
  BY FrontendAssumption
<1>2. Init => DockInv
  BY <1>1, DockInitIsFine DEF Init, DockRests
<1>3. DockInv /\ [Next]_vars => DockInv'
  <2>1. [Next]_vars => [Dock!Next]_(Dock!vars)
    BY DEF Next, Moves, vars, dockVars, Dock!vars
  <2> QED
    BY <1>1, <2>1, DockNextKeepsInv
<1>4. DockInv => DockIsSafe
  BY DEF DockInv, DockIsSafe, KeptWhileWritten, AskedOnce, BackToWhereItWasAsked
<1> QED
  BY <1>2, <1>3, <1>4, PTL DEF Spec

-----------------------------------------------------------------------------
(* The card of Notion *)

SyncInv ==
    /\ Sync!TypeOK
    /\ \A r \in Sync!Runs : importCache[r].data \in Sync!Ended => imports[r] = importCache[r].data
    /\ start.state = "answered" => start.id \in Sync!Runs
    /\ Sync!ResultHasItsTimer

\* A step of the frontend is one of the card, or leaves it alone.
LEMMA SyncStep == [Next]_vars => [Sync!Next]_(Sync!vars)
BY DEF Next, Moves, vars, syncVars, Sync!vars

\* How many imports there may be, and how many may fail.
LEMMA SyncBounds == MaxImports \in Nat /\ MaxImportFailures \in Nat
BY FrontendAssumption DEF Sync!SyncAssumption

\* It begins so.
LEMMA SyncInit == Init => SyncInv
<1>1. Init => Sync!Init
  BY DEF Init, SyncRests
<1> QED
  <2> SUFFICES ASSUME Sync!Init PROVE SyncInv
    BY <1>1
  <2> USE DEF Sync!Init, Sync!Runs, Sync!NoRun,
      Sync!RunStates, Sync!NoStart, Sync!Starts, Sync!Query, Sync!Ended
  <2>0. start \in Sync!Starts
    OBVIOUS
  <2>3. importCache \in [Sync!Runs -> Sync!Query]
    OBVIOUS
  <2>4. failures \in 0..MaxImportFailures
    BY SyncBounds
  <2>5. /\ importRunId \in Sync!Runs \union {Sync!NoRun}
        /\ accepted \in Sync!Runs \union {Sync!NoRun}
        /\ imports \in [Sync!Runs -> Sync!RunStates]
        /\ fetching \subseteq Sync!Runs
    OBVIOUS
  <2>6. mounted \in BOOLEAN /\ isStartFailed \in BOOLEAN /\ resetTimer \in BOOLEAN
    OBVIOUS
  <2>1. Sync!TypeOK
    BY <2>0, <2>3, <2>4, <2>5, <2>6, Zenon DEF Sync!TypeOK
  <2>2. Sync!ResultHasItsTimer
    BY DEF Sync!ResultHasItsTimer, Sync!HasResult, Sync!IsStatusError, Sync!Status
  <2> QED
    BY <2>1, <2>2 DEF SyncInv

\* After the card's effects, what has a result has its timer.
LEMMA SyncEffects ==
    ASSUME SyncInv, Sync!Effects, resetTimer \in BOOLEAN
    PROVE  Sync!ResultHasItsTimer' /\ resetTimer' \in BOOLEAN
<1>1. Sync!HasResult' \in BOOLEAN
  BY DEF Sync!HasResult
<1>2. CASE Sync!Dependencies' = Sync!Dependencies
  <2>1. Sync!HasResult' = Sync!HasResult
    BY <1>2 DEF Sync!Dependencies, Sync!HasResult
  <2> QED
    BY <1>2, <2>1 DEF SyncInv, Sync!Effects, Sync!ResultHasItsTimer
<1>3. CASE Sync!Dependencies' # Sync!Dependencies
  BY <1>1, <1>3 DEF Sync!Effects, Sync!ResultHasItsTimer
<1> QED
  BY <1>2, <1>3

\* Every step of the card keeps it.
LEMMA SyncNext ==
    ASSUME SyncInv, Sync!Next
    PROVE  SyncInv'
<1> USE SyncBounds DEF Sync!Runs, Sync!NoRun,
      Sync!RunStates, Sync!NoStart, Sync!Starts, Sync!Query, Sync!Ended
<1>t. Sync!TypeOK /\ resetTimer \in BOOLEAN
  BY DEF SyncInv, Sync!TypeOK
<1>1. CASE Sync!StartSync
  BY <1>1, <1>t, SyncEffects DEF SyncInv, Sync!TypeOK, Sync!StartSync, Sync!serverVars
<1>2. CASE Sync!ServerStarts
  <2>1. Sync!ResultHasItsTimer'
    BY <1>2 DEF SyncInv, Sync!ServerStarts, Sync!ResultHasItsTimer, Sync!HasResult,
       Sync!IsStatusError, Sync!Status
  <2> QED
    BY <1>2, <2>1 DEF SyncInv, Sync!TypeOK, Sync!ServerStarts, Sync!Running, Sync!New,
       Sync!StartedOr
<1>3. CASE Sync!StartSucceeds
  BY <1>3, <1>t, SyncEffects DEF SyncInv, Sync!TypeOK, Sync!StartSucceeds, Sync!Asks,
     Sync!serverVars
<1>4. CASE Sync!StartFails
  BY <1>4, <1>t, SyncEffects DEF SyncInv, Sync!TypeOK, Sync!StartFails, Sync!HasNoMoreRuns,
     Sync!IsStarting
<1>5. CASE Sync!Poll
  BY <1>5 DEF SyncInv, Sync!TypeOK, Sync!Poll, Sync!serverVars, Sync!ResultHasItsTimer,
     Sync!HasResult, Sync!IsStatusError, Sync!Status
<1>6. CASE Sync!Focus
  BY <1>6 DEF SyncInv, Sync!TypeOK, Sync!Focus, Sync!serverVars, Sync!ResultHasItsTimer,
     Sync!HasResult, Sync!IsStatusError, Sync!Status
<1>7. ASSUME NEW r \in Sync!Runs, Sync!FetchSucceeds(r)
      PROVE  SyncInv'
  BY <1>7, <1>t, SyncEffects DEF SyncInv, Sync!TypeOK, Sync!FetchSucceeds, Sync!Shows,
     Sync!serverVars
<1>8. ASSUME NEW r \in Sync!Runs, Sync!FetchFails(r)
      PROVE  SyncInv'
  BY <1>8, <1>t, SyncEffects DEF SyncInv, Sync!TypeOK, Sync!FetchFails, Sync!Shows
<1>9. ASSUME NEW r \in Sync!Runs, Sync!RunEnds(r)
      PROVE  SyncInv'
  BY <1>9 DEF SyncInv, Sync!TypeOK, Sync!RunEnds, Sync!ResultHasItsTimer, Sync!HasResult,
     Sync!IsStatusError, Sync!Status
<1>10. CASE Sync!ResetResult
  BY <1>10, <1>t, SyncEffects DEF SyncInv, Sync!TypeOK, Sync!ResetResult, Sync!serverVars
<1>11. CASE Sync!Unmount
  <2>1. Sync!ResultHasItsTimer'
    <3>1. importRunId' = 0 /\ isStartFailed' = FALSE
      BY <1>11 DEF Sync!Unmount
    <3> QED
      BY <3>1 DEF Sync!ResultHasItsTimer, Sync!HasResult, Sync!IsStatusError, Sync!Status
  <2> QED
    <3>1. \/ imports' = imports
          \/ \E r \in Sync!Runs : imports[r] = "none" /\ imports' = [imports EXCEPT ![r] = "running"]
      BY <1>11 DEF Sync!Unmount, Sync!New, Sync!StartedOr
    <3>2. start' \in Sync!Starts /\ start'.state = "none"
      BY <1>11 DEF Sync!Unmount
    <3>3. mounted' \in BOOLEAN /\ isStartFailed' \in BOOLEAN /\ resetTimer' \in BOOLEAN
      BY <1>11, Zenon DEF Sync!Unmount
    <3> QED
      BY <1>11, <2>1, <3>1, <3>2, <3>3 DEF SyncInv, Sync!TypeOK, Sync!Unmount
<1>12. CASE Sync!Mount
  BY <1>12 DEF SyncInv, Sync!TypeOK, Sync!Mount, Sync!serverVars, Sync!ResultHasItsTimer,
     Sync!HasResult, Sync!IsStatusError, Sync!Status
<1> QED
  BY <1>1, <1>2, <1>3, <1>4, <1>5, <1>6, <1>7, <1>8, <1>9, <1>10, <1>11, <1>12 DEF Sync!Next

\* The card tells the truth about the import that it asked for, and whatever result it shows
\* has the timer that takes it away (useNotionSync), beside the rest of the page.
THEOREM SyncIsSafeCorrect == Spec => []SyncIsSafe
<1>1. SyncInv /\ [Next]_vars => SyncInv'
  <2>1. ASSUME SyncInv, UNCHANGED Sync!vars PROVE SyncInv'
    BY <2>1 DEF SyncInv, Sync!vars, Sync!TypeOK, Sync!ResultHasItsTimer, Sync!HasResult,
                Sync!IsStatusError, Sync!Status
  <2> QED
    BY <2>1, SyncNext, SyncStep
<1>2. SyncInv => Sync!ResultIsTrue
  BY DEF SyncInv, Sync!TypeOK, Sync!ResultIsTrue, Sync!IsSynced, Sync!Status, Sync!Query,
         Sync!Runs, Sync!NoRun, Sync!RunStates, Sync!Ended
<1>3. SyncInv => SyncIsSafe
  BY <1>2 DEF SyncInv, SyncIsSafe, ResultIsTrue, ResultHasItsTimer
<1> QED
  BY <1>1, <1>3, SyncInit, PTL DEF Spec

-----------------------------------------------------------------------------
(* The hint of the dock *)

\* Its bounds and storages.
LEMMA HintBounds ==
    /\ MaxSeen \in Nat /\ MaxVisits \in Nat
    /\ Storages \subseteq {"works", "full", "blocked"}
BY FrontendAssumption DEF Hint!HintAssumption

\* What holds of a tab by itself.
HintTabInv(d) ==
    /\ d \in Hint!Tab
    /\ d.phase = "closed" => d = Hint!Closed
    /\ d.phase = "write" =>
          /\ storage # "blocked" /\ d.count < MaxSeen
          /\ ~raced => d.count = seen
          /\ d.decision = "none" /\ d.decided /\ ~Hint!IsExpanded(d)
    /\ d.phase = "idle" /\ d.hint => ~Hint!IsExpanded(d)
    /\ IF storage = "works"
       THEN /\ d.saw <=> d.decision = "shown"
            /\ d.counted = IF d.saw THEN 1 ELSE 0
       ELSE d.counted = 0 /\ d.decision = "none"

\* The tabs whose visit has not shown the hint yet.
Unseen == {t \in Tabs : tab[t].phase # "closed" /\ ~tab[t].saw}

HintInv ==
    /\ storage \in Storages
    /\ seen \in 0..MaxSeen /\ visits \in 0..MaxVisits /\ hinted \in Nat /\ raced \in BOOLEAN
    /\ tab \in [Tabs -> Hint!Tab]
    /\ \A t \in Tabs : HintTabInv(tab[t])
    /\ ~raced => \A t, u \in Tabs :
                    tab[t].phase = "write" /\ tab[u].phase = "write" => t = u
    /\ IsFiniteSet(Unseen) /\ hinted + Cardinality(Unseen) <= visits
    /\ \A t \in Tabs : tab[t].phase # "closed" => visits >= 1
    /\ storage = "works" /\ ~raced => hinted = seen
    /\ storage = "blocked" => hinted = 0

\* A step of the frontend is one of the hint, or leaves it alone.
LEMMA HintStep == [Next]_vars => [Hint!Next]_(Hint!vars)
BY DEF Next, Moves, vars, hintVars, Hint!vars

\* It begins so.
LEMMA HintInit == Init => HintInv
<1> SUFFICES ASSUME Hint!Init PROVE HintInv
  BY DEF Init, HintRests
<1>1. Hint!Closed \in Hint!Tab
  BY HintBounds DEF Hint!Closed, Hint!Tab, Hint!Phases, Hint!Decisions
<1>2. \A t \in Tabs : HintTabInv(tab[t])
  BY <1>1, HintBounds DEF Hint!Init, HintTabInv, Hint!Closed
<1>3. Unseen = {}
  BY DEF Unseen, Hint!Init, Hint!Closed
<1>4. tab \in [Tabs -> Hint!Tab] /\ \A t \in Tabs : tab[t].phase = "closed"
  BY <1>1 DEF Hint!Init, Hint!Closed
<1>5. \A t \in Tabs : tab[t].phase # "write"
  BY <1>4
<1>6. /\ storage \in Storages /\ seen = 0 /\ visits = 0 /\ hinted = 0 /\ raced = FALSE
      /\ IsFiniteSet(Unseen) /\ Cardinality(Unseen) = 0
  BY <1>3, FS_EmptySet DEF Hint!Init
<1>7. /\ seen \in 0..MaxSeen /\ visits \in 0..MaxVisits /\ hinted \in Nat /\ raced \in BOOLEAN
      /\ hinted + Cardinality(Unseen) <= visits
  <2>1. seen \in 0..MaxSeen /\ visits \in 0..MaxVisits /\ hinted \in Nat
    BY <1>6, HintBounds
  <2>2. raced \in BOOLEAN
    BY <1>6
  <2>3. hinted + Cardinality(Unseen) <= visits
    <3> HIDE DEF Unseen
    <3> QED
      BY <1>6
  <2> QED
    BY <2>1, <2>2, <2>3
<1>8. /\ storage = "works" /\ ~raced => hinted = seen
      /\ storage = "blocked" => hinted = 0
      /\ \A t \in Tabs : tab[t].phase # "closed" => visits >= 1
  BY <1>4, <1>6
<1> QED
  BY <1>2, <1>4, <1>5, <1>6, <1>7, <1>8, Zenon DEF HintInv

\* What is counted anew is visited anew.
LEMMA HintCount ==
    ASSUME NEW h \in Nat, NEW v \in Nat, NEW hh \in Nat, NEW vv \in Nat, NEW n \in Int,
           NEW m \in Int, h + n <= v, hh - h + m - n <= vv - v
    PROVE  hh + m <= vv
OBVIOUS

\* A step in which one tab changes, to d.
HintBecomes(t, d) ==
    /\ tab' = [tab EXCEPT ![t] = d]
    /\ storage' = storage
    /\ HintTabInv(d)'
    /\ raced' \in BOOLEAN /\ (raced => raced')
    /\ seen' = seen \/ tab[t].phase = "write"
    /\ d.phase = "write" /\ ~raced' => \A u \in Tabs \ {t} : tab[u].phase # "write"
    /\ seen' \in 0..MaxSeen /\ visits' \in 0..MaxVisits /\ visits' >= visits
    /\ hinted' \in Nat
    /\ d.phase # "closed" => visits' >= 1
    /\ storage = "works" /\ ~raced' => hinted' = seen'
    /\ storage = "blocked" => hinted' = 0
    /\ hinted' - hinted + (IF d.phase # "closed" /\ ~d.saw THEN 1 ELSE 0)
         - (IF t \in Unseen THEN 1 ELSE 0) <= visits' - visits

\* It is enough to look at that tab, and at the counts.
LEMMA HintOneTab ==
    ASSUME HintInv, NEW t \in Tabs, NEW d, HintBecomes(t, d)
    PROVE  HintInv'
<1> USE DEF HintBecomes
<1>1. d \in Hint!Tab
  BY DEF HintTabInv
<1>2. /\ tab' \in [Tabs -> Hint!Tab] /\ tab'[t] = d
      /\ \A u \in Tabs \ {t} : tab'[u] = tab[u]
  BY <1>1 DEF HintInv
<1>3. \A u \in Tabs : HintTabInv(tab[u])'
  <2> SUFFICES ASSUME NEW u \in Tabs, u # t PROVE HintTabInv(tab[u])'
    BY <1>2
  <2>1. tab[u].phase = "write" /\ ~raced' => seen' = seen
    BY DEF HintInv
  <2> QED
    BY <1>2, <2>1 DEF HintInv, HintTabInv
<1>4. Unseen' = IF d.phase # "closed" /\ ~d.saw THEN Unseen \cup {t} ELSE Unseen \ {t}
  BY <1>2 DEF Unseen
<1>5. IsFiniteSet(Unseen') /\ hinted' + Cardinality(Unseen') <= visits'
  <2>1. IsFiniteSet(Unseen) /\ Cardinality(Unseen) \in Nat
    BY FS_CardinalityType DEF HintInv
  <2>2. /\ IsFiniteSet(Unseen \cup {t})
        /\ Cardinality(Unseen \cup {t}) =
             IF t \in Unseen THEN Cardinality(Unseen) ELSE Cardinality(Unseen) + 1
    BY <2>1, FS_AddElement
  <2>3. /\ IsFiniteSet(Unseen \ {t})
        /\ Cardinality(Unseen \ {t}) =
             IF t \in Unseen THEN Cardinality(Unseen) - 1 ELSE Cardinality(Unseen)
    BY <2>1, FS_RemoveElement
  <2>4. hinted \in Nat /\ visits \in Nat /\ hinted + Cardinality(Unseen) <= visits
    BY DEF HintInv
  <2>5. hinted' \in Nat /\ visits' \in Nat
    OBVIOUS
  <2>6. IsFiniteSet(Unseen') /\ Cardinality(Unseen') \in Int
    BY <1>4, <2>2, <2>3, FS_CardinalityType
  <2>7. hinted' - hinted + Cardinality(Unseen') - Cardinality(Unseen) <= visits' - visits
    <3>1. Cardinality(Unseen') - Cardinality(Unseen) =
            (IF d.phase # "closed" /\ ~d.saw THEN 1 ELSE 0) - (IF t \in Unseen THEN 1 ELSE 0)
      BY <1>4, <2>1, <2>2, <2>3
    <3> QED
      BY <2>1, <2>4, <2>5, <2>6, <3>1
  <2> QED
    BY <2>1, <2>4, <2>5, <2>6, <2>7, HintCount
<1>6. ~raced' =>
        \A u, v \in Tabs : tab'[u].phase = "write" /\ tab'[v].phase = "write" => u = v
  BY <1>2 DEF HintInv
<1>7. \A u \in Tabs : tab'[u].phase # "closed" => visits' >= 1
  <2> SUFFICES ASSUME NEW u \in Tabs, tab'[u].phase # "closed" PROVE visits' >= 1
    OBVIOUS
  <2>1. CASE u = t
    BY <1>2, <2>1
  <2>2. CASE u # t
    BY <1>2, <2>2 DEF HintInv
  <2> QED
    BY <2>1, <2>2
<1> QED
  BY <1>2, <1>3, <1>5, <1>6, <1>7 DEF HintInv

\* The fields of a tab are as they should be.
LEMMA HintFields ==
    ASSUME HintInv, NEW t \in Tabs
    PROVE  /\ tab[t] \in Hint!Tab /\ HintTabInv(tab[t])
           /\ tab[t].phase \in Hint!Phases /\ tab[t].decision \in Hint!Decisions
           /\ tab[t].onChat \in BOOLEAN /\ tab[t].byUser \in BOOLEAN /\ tab[t].hint \in BOOLEAN
           /\ tab[t].decided \in BOOLEAN /\ tab[t].count \in 0..MaxSeen
           /\ tab[t].counted \in 0..MaxVisits /\ tab[t].saw \in BOOLEAN
           /\ tab[t].opened \in BOOLEAN
           /\ storage \in {"works", "full", "blocked"}
           /\ seen \in 0..MaxSeen /\ visits \in 0..MaxVisits /\ hinted \in Nat
           /\ raced \in BOOLEAN
           /\ storage = "works" /\ ~raced => hinted = seen
           /\ storage = "blocked" => hinted = 0
           /\ tab[t].phase # "closed" => visits >= 1
           /\ t \in Unseen <=> tab[t].phase # "closed" /\ ~tab[t].saw
<1>1. tab[t] \in Hint!Tab /\ HintTabInv(tab[t])
  BY DEF HintInv
<1> QED
  BY <1>1, HintBounds DEF HintInv, Unseen, Hint!Tab

\* A tab opens.
LEMMA HintOpens ==
    ASSUME HintInv, NEW t \in Tabs, NEW onChat \in BOOLEAN, Hint!Open(t, onChat)
    PROVE  HintInv'
<1>1. PICK d : d = Hint!Mounted(Hint!Closed, onChat) /\ tab' = [tab EXCEPT ![t] = d]
  BY DEF Hint!Open
<1>2. d = [phase |-> "effect", decision |-> "none", onChat |-> onChat, byUser |-> FALSE,
           hint |-> FALSE, decided |-> FALSE, count |-> 0,
           counted |-> 0, saw |-> FALSE, opened |-> FALSE]
  BY <1>1 DEF Hint!Mounted, Hint!Closed
<1>3. d \in Hint!Tab
  BY <1>2, HintBounds DEF Hint!Tab, Hint!Phases, Hint!Decisions
<1>4. HintTabInv(d)'
  BY <1>2, <1>3, HintFields DEF HintTabInv, Hint!Open
<1>5. t \notin Unseen
  BY HintFields DEF Hint!Open
<1>6. /\ storage' = storage /\ seen' = seen /\ hinted' = hinted /\ visits' = visits + 1
      /\ visits < MaxVisits /\ raced' = raced
  BY DEF Hint!Open
<1>7. visits' \in 0..MaxVisits /\ visits' >= 1
  BY <1>6, HintFields, HintBounds
<1>8. HintBecomes(t, d)
  BY <1>1, <1>2, <1>4, <1>5, <1>6, <1>7, HintFields DEF HintBecomes
<1> QED
  BY <1>8, HintOneTab

\* A tab closes.
LEMMA HintCloses ==
    ASSUME HintInv, NEW t \in Tabs, Hint!Close(t)
    PROVE  HintInv'
<1>1. PICK d : d = Hint!Closed /\ tab' = [tab EXCEPT ![t] = d]
  BY DEF Hint!Close
<1>2. d \in Hint!Tab
  BY <1>1, HintBounds DEF Hint!Closed, Hint!Tab, Hint!Phases, Hint!Decisions
<1>3. HintTabInv(d)'
  BY <1>1, <1>2, HintFields DEF HintTabInv, Hint!Closed, Hint!Close
<1>4. d.phase = "closed"
  BY <1>1 DEF Hint!Closed
<1>5. /\ storage' = storage /\ seen' = seen /\ hinted' = hinted /\ visits' = visits
      /\ raced' = raced
  BY DEF Hint!Close
<1>6. HintBecomes(t, d)
  BY <1>1, <1>3, <1>4, <1>5, HintFields DEF HintBecomes
<1> QED
  BY <1>6, HintOneTab

\* A tab that stays open, and neither is counted nor shows the hint for the first time.
HintKeepsCounts(t, d) ==
    /\ tab[t].phase # "closed"
    /\ tab' = [tab EXCEPT ![t] = d]
    /\ UNCHANGED <<storage, seen, visits, hinted, raced>>
    /\ HintTabInv(d)
    /\ d.saw = tab[t].saw
    /\ d.phase \in {"effect", "idle"}

\* What changes nothing but the tabs leaves the counts.
LEMMA HintSameCounts ==
    ASSUME HintInv, NEW t \in Tabs, NEW d, HintKeepsCounts(t, d)
    PROVE  HintInv'
<1>1. HintTabInv(d)'
  BY DEF HintTabInv, HintKeepsCounts
<1>2. (IF d.phase # "closed" /\ ~d.saw THEN 1 ELSE 0) = IF t \in Unseen THEN 1 ELSE 0
  BY HintFields DEF HintKeepsCounts
<1>3. hinted' - hinted + (IF d.phase # "closed" /\ ~d.saw THEN 1 ELSE 0)
        - (IF t \in Unseen THEN 1 ELSE 0) <= visits' - visits
  BY <1>2, HintFields DEF HintKeepsCounts
<1>4. HintBecomes(t, d)
  BY <1>1, <1>3, HintFields DEF HintBecomes, HintKeepsCounts
<1> QED
  BY <1>4, HintOneTab

\* The dock mounts again.
LEMMA HintRemounts ==
    ASSUME HintInv, NEW t \in Tabs, NEW onChat \in BOOLEAN, Hint!Remount(t, onChat)
    PROVE  HintInv'
<1>1. PICK d : d = Hint!Mounted(tab[t], onChat) /\ tab' = [tab EXCEPT ![t] = d]
  BY DEF Hint!Remount
<1>2. /\ d \in Hint!Tab /\ d.phase = "effect" /\ d.decision = tab[t].decision
      /\ d.counted = tab[t].counted /\ d.saw = tab[t].saw
  BY <1>1, HintFields DEF Hint!Mounted, Hint!Tab, Hint!Phases
<1>3. HintTabInv(d)
  BY <1>2, HintFields DEF HintTabInv
<1>4. HintKeepsCounts(t, d)
  BY <1>1, <1>2, <1>3 DEF HintKeepsCounts, Hint!Remount, Hint!Idle
<1> QED
  BY <1>4, HintSameCounts

\* The page changes.
LEMMA HintNavigates ==
    ASSUME HintInv, NEW t \in Tabs, Hint!Navigate(t)
    PROVE  HintInv'
<1>1. PICK d : /\ d = [tab[t] EXCEPT !.onChat = ~tab[t].onChat, !.phase = "effect"]
               /\ tab' = [tab EXCEPT ![t] = d]
  BY DEF Hint!Navigate, HintInv
<1>2. /\ d \in Hint!Tab /\ d.phase = "effect" /\ d.decision = tab[t].decision
      /\ d.counted = tab[t].counted /\ d.saw = tab[t].saw
  BY <1>1, HintFields DEF Hint!Tab, Hint!Phases
<1>3. HintTabInv(d)
  BY <1>2, HintFields DEF HintTabInv
<1>4. HintKeepsCounts(t, d)
  BY <1>1, <1>2, <1>3 DEF HintKeepsCounts, Hint!Navigate, Hint!Idle
<1> QED
  BY <1>4, HintSameCounts

\* The dock is turned on or off.
LEMMA HintToggles ==
    ASSUME HintInv, NEW t \in Tabs, Hint!Toggle(t)
    PROVE  HintInv'
<1>1. PICK d : /\ d = [tab[t] EXCEPT !.byUser = ~tab[t].byUser, !.phase = "effect",
                                     !.opened = tab[t].opened \/ ~tab[t].byUser]
               /\ tab' = [tab EXCEPT ![t] = d]
  BY DEF Hint!Toggle, HintInv
<1>2. /\ d \in Hint!Tab /\ d.phase = "effect" /\ d.decision = tab[t].decision
      /\ d.counted = tab[t].counted /\ d.saw = tab[t].saw
  BY <1>1, HintFields DEF Hint!Tab, Hint!Phases
<1>3. HintTabInv(d)
  BY <1>2, HintFields DEF HintTabInv
<1>4. HintKeepsCounts(t, d)
  BY <1>1, <1>2, <1>3 DEF HintKeepsCounts, Hint!Toggle, Hint!Idle
<1> QED
  BY <1>4, HintSameCounts

\* The hint goes without being counted.
LEMMA HintDecidesNothing ==
    ASSUME HintInv, NEW t \in Tabs, Hint!DecideNothing(t)
    PROVE  HintInv'
<1>1. PICK d : /\ d = [tab[t] EXCEPT !.phase = "idle",
                                     !.hint = tab[t].hint /\ ~Hint!IsExpanded(tab[t])]
               /\ tab' = [tab EXCEPT ![t] = d]
  BY DEF Hint!DecideNothing, HintInv
<1>2. /\ d \in Hint!Tab /\ d.phase = "idle" /\ d.decision = tab[t].decision
      /\ d.counted = tab[t].counted /\ d.saw = tab[t].saw
      /\ d.hint => ~Hint!IsExpanded(d)
  BY <1>1, HintFields DEF Hint!Tab, Hint!Phases, Hint!IsExpanded
<1>3. HintTabInv(d)
  BY <1>2, HintFields DEF HintTabInv
<1>4. HintKeepsCounts(t, d)
  BY <1>1, <1>2, <1>3 DEF HintKeepsCounts, Hint!DecideNothing
<1> QED
  BY <1>4, HintSameCounts

\* What the visit has decided has been followed before: the hint was shown.
LEMMA HintFollows ==
    ASSUME HintInv, NEW t \in Tabs, Hint!FollowDecision(t)
    PROVE  HintInv'
<1> DEFINE hint == Hint!ReadVisitDecision(tab[t]) = "shown"
<1>1. PICK d : /\ d = [tab[t] EXCEPT !.phase = "idle", !.decided = TRUE, !.hint = hint,
                                     !.saw = tab[t].saw \/ hint]
               /\ tab' = [tab EXCEPT ![t] = d]
  BY DEF Hint!FollowDecision, HintInv
<1>2. ~Hint!IsExpanded(tab[t]) /\ tab[t].phase = "effect"
  BY DEF Hint!FollowDecision, Hint!Deciding
<1>3. hint => tab[t].saw
  BY HintFields DEF HintTabInv, Hint!ReadVisitDecision
<1>4. /\ d \in Hint!Tab /\ d.phase = "idle" /\ d.decision = tab[t].decision
      /\ d.counted = tab[t].counted /\ d.saw = tab[t].saw
      /\ ~Hint!IsExpanded(d)
  BY <1>1, <1>2, <1>3, HintFields DEF Hint!Tab, Hint!Phases, Hint!IsExpanded
<1>5. HintTabInv(d)
  BY <1>4, HintFields DEF HintTabInv
<1>6. hinted' = hinted
  BY <1>3, HintFields DEF Hint!FollowDecision, Hint!Seen
<1>7. HintKeepsCounts(t, d)
  BY <1>1, <1>2, <1>4, <1>5, <1>6 DEF HintKeepsCounts, Hint!FollowDecision
<1> QED
  BY <1>7, HintSameCounts

\* It was seen often enough.
LEMMA HintSeenEnough ==
    ASSUME HintInv, NEW t \in Tabs, Hint!HasSeenEnough(t)
    PROVE  HintInv'
<1>1. PICK d : /\ d = [tab[t] EXCEPT !.phase = "idle", !.decided = TRUE,
                                     !.decision = Hint!Decided(tab[t], "hidden")]
               /\ tab' = [tab EXCEPT ![t] = d]
  BY DEF Hint!HasSeenEnough, HintInv
<1>2. ~Hint!IsExpanded(tab[t]) /\ tab[t].phase = "effect"
  BY DEF Hint!HasSeenEnough, Hint!Deciding
<1>3. storage = "works" => tab[t].decision = "none"
  BY DEF Hint!HasSeenEnough, Hint!ReadVisitDecision
<1>4. /\ d \in Hint!Tab /\ d.phase = "idle"
      /\ d.decision = IF storage = "works" THEN "hidden" ELSE tab[t].decision
      /\ d.counted = tab[t].counted /\ d.saw = tab[t].saw
      /\ ~Hint!IsExpanded(d)
  BY <1>1, <1>2, HintFields DEF Hint!Tab, Hint!Phases, Hint!Decisions, Hint!Decided, Hint!IsExpanded
<1>5. HintTabInv(d)
  BY <1>3, <1>4, HintFields DEF HintTabInv
<1>6. HintKeepsCounts(t, d)
  BY <1>1, <1>2, <1>4, <1>5 DEF HintKeepsCounts, Hint!HasSeenEnough
<1> QED
  BY <1>6, HintSameCounts

\* The effect reads the count, and writes it.
LEMMA HintReads ==
    ASSUME HintInv, NEW t \in Tabs, Hint!ReadCount(t)
    PROVE  HintInv'
<1>1. PICK d : /\ d = [tab[t] EXCEPT !.phase = "write", !.decided = TRUE,
                                     !.count = Hint!ReadSeenCount]
               /\ tab' = [tab EXCEPT ![t] = d]
  BY DEF Hint!ReadCount, HintInv
<1>2. ~Hint!IsExpanded(tab[t]) /\ tab[t].phase = "effect"
  BY DEF Hint!ReadCount, Hint!Deciding
<1>3. /\ storage # "blocked" /\ Hint!ReadSeenCount = seen /\ seen < MaxSeen
      /\ tab[t].decision = "none"
  BY HintBounds DEF Hint!ReadCount, Hint!ReadSeenCount, Hint!ReadVisitDecision
<1>4. /\ d \in Hint!Tab /\ d.phase = "write" /\ d.decision = "none"
      /\ d.counted = tab[t].counted /\ d.saw = tab[t].saw
      /\ d.decided /\ d.count = seen /\ ~Hint!IsExpanded(d)
  BY <1>1, <1>2, <1>3, HintFields DEF Hint!Tab, Hint!Phases, Hint!IsExpanded
<1>5. /\ UNCHANGED <<storage, seen, visits, hinted>>
      /\ raced' \in BOOLEAN /\ (raced => raced')
      /\ ~raced' => \A u \in Tabs \ {t} : tab[u].phase # "write"
  BY HintFields DEF Hint!ReadCount
<1>6. HintTabInv(d)'
  BY <1>3, <1>4, <1>5, HintFields DEF HintTabInv
<1>8. hinted' - hinted + (IF d.phase # "closed" /\ ~d.saw THEN 1 ELSE 0)
        - (IF t \in Unseen THEN 1 ELSE 0) <= visits' - visits
  <2>1. (IF d.phase # "closed" /\ ~d.saw THEN 1 ELSE 0) = IF t \in Unseen THEN 1 ELSE 0
    BY <1>2, <1>4, HintFields
  <2> QED
    BY <1>5, <2>1, HintFields
<1>9. HintBecomes(t, d)
  BY <1>1, <1>2, <1>5, <1>6, <1>8, HintFields DEF HintBecomes
<1> QED
  BY <1>9, HintOneTab

\* The count that is written is the one read, and the visit had not shown the hint.
LEMMA HintCounts ==
    ASSUME HintInv, NEW t \in Tabs, Hint!CountVisit(t)
    PROVE  HintInv'
<1>1. PICK d : /\ d = [tab[t] EXCEPT !.phase = "idle", !.count = 0,
                         !.decision = Hint!Decided(tab[t], "shown"), !.hint = TRUE, !.saw = TRUE,
                         !.counted = IF storage = "works" THEN tab[t].counted + 1
                                     ELSE tab[t].counted]
               /\ tab' = [tab EXCEPT ![t] = d]
  BY DEF Hint!CountVisit
<1>2. /\ tab[t].phase = "write" /\ storage # "blocked" /\ (~raced => tab[t].count = seen)
      /\ tab[t].count \in Nat /\ tab[t].count < MaxSeen
      /\ tab[t].decision = "none" /\ ~Hint!IsExpanded(tab[t])
      /\ tab[t].counted = 0 /\ visits >= 1 /\ visits \in 0..MaxVisits
      /\ storage = "works" => ~tab[t].saw
  BY HintFields DEF Hint!CountVisit, HintTabInv
<1> DEFINE decision == Hint!Decided(tab[t], "shown")
           counted == IF storage = "works" THEN tab[t].counted + 1 ELSE tab[t].counted
<1>a. /\ decision = IF storage = "works" THEN "shown" ELSE "none"
      /\ counted = IF storage = "works" THEN 1 ELSE 0
  BY <1>2 DEF Hint!Decided
<1>b. decision \in Hint!Decisions /\ counted \in 0..MaxVisits
  BY <1>2, <1>a, HintFields, HintBounds DEF Hint!Decisions
<1>c. d = [phase |-> "idle", decision |-> decision, onChat |-> tab[t].onChat,
           byUser |-> tab[t].byUser, hint |-> TRUE, decided |-> tab[t].decided, count |-> 0,
           counted |-> counted, saw |-> TRUE, opened |-> tab[t].opened]
  <2> HIDE DEF decision, counted
  <2>1. d = [tab[t] EXCEPT !.phase = "idle", !.count = 0, !.decision = decision,
                           !.hint = TRUE, !.saw = TRUE, !.counted = counted]
    BY <1>1 DEF decision, counted
  <2> QED
    BY <2>1, HintFields DEF Hint!Tab
<1> HIDE DEF decision, counted
<1>d. d \in Hint!Tab
  BY <1>b, <1>c, HintFields, HintBounds DEF Hint!Tab, Hint!Phases
<1>3. /\ d \in Hint!Tab /\ d.phase = "idle" /\ d.saw /\ ~Hint!IsExpanded(d)
      /\ d.decision = IF storage = "works" THEN "shown" ELSE "none"
      /\ d.counted = IF storage = "works" THEN 1 ELSE 0
  BY <1>2, <1>a, <1>c, <1>d DEF Hint!IsExpanded
<1>4. /\ storage' = storage /\ visits' = visits /\ raced' = raced
      /\ seen' = IF storage = "works" THEN tab[t].count + 1 ELSE seen
      /\ hinted' = IF tab[t].saw THEN hinted ELSE hinted + 1
  BY <1>2 DEF Hint!CountVisit, Hint!WrittenCount, Hint!Seen
<1>5. HintTabInv(d)'
  BY <1>3, <1>4 DEF HintTabInv
<1>6. hinted' - hinted + (IF d.phase # "closed" /\ ~d.saw THEN 1 ELSE 0)
        - (IF t \in Unseen THEN 1 ELSE 0) <= visits' - visits
  <2>1. (IF d.phase # "closed" /\ ~d.saw THEN 1 ELSE 0) = 0
    BY <1>3
  <2>2. hinted' = hinted + (IF t \in Unseen THEN 1 ELSE 0)
    BY <1>2, <1>4, HintFields
  <2>3. (IF t \in Unseen THEN 1 ELSE 0) \in Int
    OBVIOUS
  <2> QED
    BY <1>4, <2>1, <2>2, <2>3, HintFields
<1>7. /\ seen' \in 0..MaxSeen /\ hinted' \in Nat
      /\ storage = "works" /\ ~raced => hinted' = seen'
  BY <1>2, <1>4, HintFields, HintBounds
<1>8. HintBecomes(t, d)
  BY <1>1, <1>2, <1>3, <1>4, <1>5, <1>6, <1>7, HintFields DEF HintBecomes
<1> QED
  BY <1>8, HintOneTab

\* Every step of the hint keeps it.
LEMMA HintNext ==
    ASSUME HintInv, [Hint!Next]_(Hint!vars)
    PROVE  HintInv'
<1>1. CASE UNCHANGED Hint!vars
  BY <1>1 DEF HintInv, HintTabInv, Unseen, Hint!vars
<1>2. CASE Hint!Next
  BY <1>2, HintOpens, HintRemounts, HintCloses, HintNavigates, HintToggles, HintDecidesNothing,
     HintFollows, HintSeenEnough, HintReads, HintCounts DEF Hint!Next
<1> QED
  BY <1>1, <1>2

\* What the frontend's runs check of the hint, whichever storage the browser has.
LEMMA HintIsTrue ==
    ASSUME HintInv
    PROVE  Hint!TypeOK /\ Hint!CountedOnce /\ Hint!HintGoes
<1>1. IsFiniteSet(Unseen) /\ Cardinality(Unseen) \in Nat
  BY FS_CardinalityType DEF HintInv
<1>2. hinted \in 0..MaxVisits
  BY <1>1, HintBounds DEF HintInv
<1>3. \A t \in Tabs : HintTabInv(tab[t])
  BY DEF HintInv
<1>4. \A t \in Tabs : tab[t].counted <= 1
  <2> SUFFICES ASSUME NEW t \in Tabs PROVE tab[t].counted <= 1
    OBVIOUS
  <2>1. tab[t].counted \in {0, 1}
    BY <1>3 DEF HintTabInv
  <2> QED
    BY <2>1
<1>5. \A t \in Tabs : tab[t].phase = "write" => tab[t].count < MaxSeen
  BY <1>3 DEF HintTabInv
<1>6. Hint!HintGoes
  BY <1>3 DEF HintTabInv, Hint!HintGoes, Hint!Idle
<1> QED
  BY <1>2, <1>4, <1>5, <1>6 DEF HintInv, Hint!TypeOK, Hint!CountedOnce

\* In a step the hint appears in no tab that has decided, save the one that counts its visit.
HintAppears ==
    \A t \in Tabs : tab'[t].hint /\ ~tab[t].hint /\ tab[t].decided => tab[t].phase = "write"

\* Whatever shows the hint has counted it.
LEMMA HintAppearsOnce ==
    ASSUME HintInv, [Hint!Next]_(Hint!vars)
    PROVE  HintAppears
<1>1. CASE UNCHANGED Hint!vars
  BY <1>1 DEF HintAppears, Hint!vars
<1>2. CASE Hint!Next
  <2> PICK u \in Tabs :
        \/ \E onChat \in BOOLEAN : Hint!Open(u, onChat) \/ Hint!Remount(u, onChat)
        \/ Hint!Close(u) \/ Hint!Navigate(u) \/ Hint!Toggle(u) \/ Hint!DecideNothing(u)
        \/ Hint!FollowDecision(u) \/ Hint!HasSeenEnough(u) \/ Hint!ReadCount(u)
        \/ Hint!CountVisit(u)
    BY <1>2 DEF Hint!Next
  <2> SUFFICES ASSUME NEW t \in Tabs, tab'[t].hint, ~tab[t].hint, tab[t].decided
               PROVE  tab[t].phase = "write"
    BY DEF HintAppears
  <2>0. tab \in [Tabs -> Hint!Tab] /\ tab[t] \in Hint!Tab
    BY DEF HintInv
  <2>1. ASSUME NEW onChat \in BOOLEAN, Hint!Open(u, onChat) \/ Hint!Remount(u, onChat) PROVE FALSE
    <3>1. PICK d : (d = Hint!Closed \/ d = tab[u]) /\ tab' = [tab EXCEPT ![u] = Hint!Mounted(d, onChat)]
      BY <2>1 DEF Hint!Open, Hint!Remount
    <3>2. ~Hint!Mounted(d, onChat).hint
      BY <2>0, <3>1 DEF Hint!Mounted, Hint!Closed, Hint!Tab
    <3> QED
      BY <2>0, <3>1, <3>2
  <2>2. ASSUME Hint!Close(u) PROVE FALSE
    BY <2>0, <2>2 DEF Hint!Close, Hint!Closed
  <2>3. ASSUME Hint!Navigate(u) \/ Hint!Toggle(u) PROVE FALSE
    BY <2>0, <2>3 DEF Hint!Navigate, Hint!Toggle, Hint!Tab
  <2>4. ASSUME Hint!DecideNothing(u) PROVE FALSE
    BY <2>0, <2>4 DEF Hint!DecideNothing, Hint!Tab
  <2>5. ASSUME Hint!FollowDecision(u) PROVE FALSE
    BY <2>0, <2>5 DEF Hint!FollowDecision, Hint!Deciding
  <2>6. ASSUME Hint!HasSeenEnough(u) \/ Hint!ReadCount(u) PROVE FALSE
    BY <2>0, <2>6 DEF Hint!HasSeenEnough, Hint!ReadCount, Hint!Tab
  <2>7. CASE Hint!CountVisit(u)
    BY <2>0, <2>7 DEF Hint!CountVisit
  <2> QED
    BY <2>1, <2>2, <2>3, <2>4, <2>5, <2>6, <2>7
<1> QED
  BY <1>1, <1>2

\* Tabs that decide at the same moment and full storages included, the types hold, a visit is counted once, the hint
\* never stands above an open dock, and it does not come back while the dock is mounted.
THEOREM HintBehaves ==
    Spec => /\ [](Hint!TypeOK /\ Hint!CountedOnce /\ Hint!HintGoes)
            /\ StaysGone
<1>1. HintInv /\ [Next]_vars => HintInv' /\ [HintAppears]_(Hint!vars)
  BY HintStep, HintNext, HintAppearsOnce
<1>2. HintInv => Hint!TypeOK /\ Hint!CountedOnce /\ Hint!HintGoes
  BY HintIsTrue
<1>3. Spec => [][HintAppears]_(Hint!vars)
  BY <1>1, HintInit, PTL DEF Spec
<1>4. StaysGone <=> [][HintAppears]_(Hint!vars)
  BY DEF StaysGone, Hint!StaysGone, HintAppears
<1> QED
  BY <1>1, <1>2, <1>3, <1>4, HintInit, PTL DEF Spec

\* In any number of tabs, however their effects are interleaved, and whatever the storage does:
\* the hint is on screen in no more visits than it may be (MAX_SEEN of useDockHint), as long as
\* what is written stays and no tab reads a count that another is about to write; and the rest
\* of HintIsSafe holds even then.
THEOREM HintIsSafeCorrect == Spec => HintIsSafe
<1>1. HintInv => Hint!HintLimit
  BY HintBounds DEF HintInv, Hint!HintLimit
<1>2. Spec => []HintInv
  BY HintStep, HintNext, HintInit, PTL DEF Spec
<1>3. /\ Hint!HintLimit /\ Hint!TypeOK /\ Hint!CountedOnce /\ Hint!HintGoes
      => /\ part = "hint" => Hint!TypeOK
         /\ HintLimit /\ CountedOnce /\ HintGoes
  BY DEF HintLimit, CountedOnce, HintGoes
<1> QED
  BY <1>1, <1>2, <1>3, HintBehaves, PTL DEF HintIsSafe

-----------------------------------------------------------------------------
(* The panels beside a workspace's screens *)

\* The messages of an example chat, as the data of useSearchMessages is.
LEMMA PanelsBounds ==
    /\ Panels!Home \notin Sessions /\ Panels!NewChat \notin Sessions
    /\ AddressIds \subseteq Int
    /\ Messages \in Seq(Panels!Message)
    /\ \A i, j \in 1..Len(Messages) : Messages[i].id = Messages[j].id => i = j
    /\ \A i \in 1..Len(Messages) :
          Messages[i].role = "ASSISTANT" /\ Messages[i].evidences > 0 =>
            /\ Messages[i].id \in AddressIds
            /\ i > 1 /\ Messages[i - 1].role = "USER"
    /\ MaxPanelHistory \in Nat \ {0}
BY FrontendAssumption DEF Panels!PanelsAssumption

\* A panel that is open, floating or not, was left by somebody who has its timer running.
PanelsInv ==
    /\ Panels!TypeOK
    /\ \A p \in Panels!Panels : peek[p] => panelTimer[p] \/ p \in {pointer, panelFocus}

\* A step of the frontend is one of the panels, or leaves them alone.
LEMMA PanelsStep == [Next]_vars => [Panels!Next]_(Panels!vars)
BY DEF Next, Moves, vars, panelsVars, Panels!vars

\* They begin so.
LEMMA PanelsInit == Init => PanelsInv
<1> SUFFICES ASSUME Panels!Init PROVE PanelsInv
  BY DEF Init, PanelsRest
<1>1. PICK e \in Panels!Entry : panelHistory = <<e>>
  BY DEF Panels!Init
<1>2. panelHistory \in Seq(Panels!Entry) /\ Len(panelHistory) = 1
  BY <1>1
<1>3. Len(panelHistory) \in 1..MaxPanelHistory /\ panelAt \in 1..Len(panelHistory)
  BY <1>2, PanelsBounds DEF Panels!Init
<1> QED
  BY <1>2, <1>3 DEF PanelsInv, Panels!TypeOK, Panels!Init, Panels!Panels, Panels!None

\* What is on screen at an entry of the history.
LEMMA PanelsEntry ==
    ASSUME Panels!TypeOK
    PROVE  /\ panelHistory[panelAt] \in Panels!Entry
           /\ Panels!Place \in Panels!Places
           /\ panelHistory[panelAt].messageId \in Int
           /\ Panels!OpenedMessageId \in Nat
           /\ \A i \in 1..Len(panelHistory) : panelHistory[i] \in Panels!Entry
           /\ Len(panelHistory) \in Nat /\ panelAt \in Nat
<1>1. /\ \A i \in 1..Len(panelHistory) : panelHistory[i] \in Panels!Entry
      /\ Len(panelHistory) \in Nat
  BY ElementOfSeq DEF Panels!TypeOK
<1>2. panelHistory[panelAt] \in Panels!Entry
  BY <1>1 DEF Panels!TypeOK
<1>3. panelHistory[panelAt].messageId \in Int
  <2>1. panelHistory[panelAt].messageId \in {Panels!NoId} \cup AddressIds
    BY <1>2 DEF Panels!Entry
  <2>2. AddressIds \subseteq Int /\ Panels!NoId \in Int
    BY PanelsBounds DEF Panels!NoId
  <2> QED
    BY <2>1, <2>2
<1> QED
  BY <1>1, <1>2, <1>3 DEF Panels!Entry, Panels!Place, Panels!OpenedMessageId, Panels!NoId,
     Panels!TypeOK

\* The left side: a panel floats for a reason, whoever moves.
PanelsLeft ==
    /\ picked \in Panels!Panels \cup {Panels!None}
    /\ peek \in [Panels!Panels -> BOOLEAN] /\ panelTimer \in [Panels!Panels -> BOOLEAN]
    /\ pointer \in Panels!Panels \cup {Panels!None}
    /\ panelFocus \in Panels!Panels \cup {Panels!None}
    /\ \A p \in Panels!Panels : peek[p] => panelTimer[p] \/ p \in {pointer, panelFocus}

\* The right side: the addresses of the tab's history.
PanelsRight ==
    /\ panelHistory \in Seq(Panels!Entry)
    /\ Len(panelHistory) \in 1..MaxPanelHistory
    /\ panelAt \in 1..Len(panelHistory)

\* The invariant, side by side.
LEMMA PanelsSides == PanelsInv <=> PanelsLeft /\ PanelsRight /\ expanded \subseteq Folders
BY DEF PanelsInv, PanelsLeft, PanelsRight, Panels!TypeOK

\* The tree keeps to its folders.
LEMMA PanelsTree ==
    ASSUME expanded \subseteq Folders, Panels!KeepsTree
    PROVE  expanded' \subseteq Folders
BY DEF Panels!KeepsTree

\* No panel is not a panel.
LEMMA PanelsNone == Panels!None \notin Panels!Panels
BY DEF Panels!None, Panels!Panels

\* The pointer enters a panel.
LEMMA PointerEnterKeeps ==
    ASSUME PanelsLeft, NEW p \in Panels!Panels, Panels!PointerEnter(p)
    PROVE  PanelsLeft'
<1>1. peek' \in [Panels!Panels -> BOOLEAN]
  BY DEF PanelsLeft, Panels!PointerEnter
<1>2. panelTimer' = [q \in Panels!Panels |-> IF q = p THEN FALSE ELSE panelTimer[q] \/ pointer = q]
  BY DEF Panels!PointerEnter
<1>3. panelTimer' \in [Panels!Panels -> BOOLEAN]
  BY <1>2 DEF PanelsLeft
<1> QED
  BY <1>1, <1>2, <1>3 DEF PanelsLeft, Panels!PointerEnter

\* The pointer leaves.
LEMMA PointerLeaveKeeps ==
    ASSUME PanelsLeft, Panels!PointerLeave
    PROVE  PanelsLeft'
<1>1. panelTimer' \in [Panels!Panels -> BOOLEAN]
  BY DEF PanelsLeft, Panels!PointerLeave
<1> QED
  BY <1>1 DEF PanelsLeft, Panels!PointerLeave

\* The timer that closes a panel fires.
LEMMA CloseTimerKeeps ==
    ASSUME PanelsLeft, NEW p \in Panels!Panels, Panels!CloseTimer(p)
    PROVE  PanelsLeft'
<1>1. peek' \in [Panels!Panels -> BOOLEAN] /\ panelTimer' \in [Panels!Panels -> BOOLEAN]
  BY DEF PanelsLeft, Panels!CloseTimer
<1> QED
  BY <1>1 DEF PanelsLeft, Panels!CloseTimer

\* The focus moves.
LEMMA MoveFocusKeeps ==
    ASSUME PanelsLeft, NEW p \in Panels!Panels \cup {Panels!None}, Panels!MoveFocus(p)
    PROVE  PanelsLeft'
<1>1. /\ peek' = [q \in Panels!Panels |-> q = p \/ (peek[q] /\ q # panelFocus)]
      /\ panelTimer' = [q \in Panels!Panels |-> panelTimer[q] /\ q # panelFocus /\ q # p]
      /\ panelFocus' = p /\ pointer' = pointer /\ picked' = picked
  BY DEF Panels!MoveFocus
<1>2. peek' \in [Panels!Panels -> BOOLEAN] /\ panelTimer' \in [Panels!Panels -> BOOLEAN]
  BY <1>1
<1> QED
  BY <1>1, <1>2, Zenon DEF PanelsLeft

\* Escape is pressed.
LEMMA EscapeKeeps ==
    ASSUME PanelsLeft, Panels!Escape
    PROVE  PanelsLeft'
<1>1. peek' \in [Panels!Panels -> BOOLEAN] /\ panelTimer' \in [Panels!Panels -> BOOLEAN]
  BY DEF PanelsLeft, Panels!Escape
<1> QED
  BY <1>1 DEF PanelsLeft, Panels!Escape

\* The dock is turned on or off.
LEMMA ToggleDockKeeps ==
    ASSUME PanelsLeft, NEW p \in Panels!Panels, Panels!ToggleDock(p)
    PROVE  PanelsLeft'
<1>1. /\ peek' = [q \in Panels!Panels |-> peek[q] /\ q # p /\ q # panelFocus]
      /\ panelTimer' = [q \in Panels!Panels |-> panelTimer[q] /\ q # p /\ q # panelFocus]
      /\ panelFocus' = p
  BY DEF Panels!ToggleDock
<1>2. peek' \in [Panels!Panels -> BOOLEAN] /\ panelTimer' \in [Panels!Panels -> BOOLEAN]
  BY <1>1
<1>3. picked' \in Panels!Panels \cup {Panels!None}
  BY DEF Panels!ToggleDock
<1>4. pointer' = pointer \/ (pointer = p /\ pointer' = Panels!None)
  BY DEF Panels!ToggleDock
<1>5. ASSUME NEW q \in Panels!Panels, peek'[q]
      PROVE  panelTimer'[q] \/ q \in {pointer', panelFocus'}
  <2>1. peek[q] /\ q # p /\ q # panelFocus
    BY <1>1, <1>5
  <2>2. panelTimer[q] \/ q = pointer
    BY <2>1 DEF PanelsLeft
  <2>3. panelTimer'[q] <=> panelTimer[q]
    BY <1>1, <2>1
  <2> QED
    BY <1>4, <2>1, <2>2, <2>3
<1>6. pointer' \in Panels!Panels \cup {Panels!None}
  BY <1>4 DEF PanelsLeft
<1> QED
  BY <1>1, <1>2, <1>3, <1>5, <1>6 DEF PanelsLeft

\* The panels unmount.
LEMMA UnmountsKeeps ==
    ASSUME PanelsLeft, Panels!Unmounts
    PROVE  PanelsLeft'
<1> DEFINE goes == panelHistory'[panelAt'].place = Panels!Home
           Left(q) == goes /\ q = "chatList"
<1>1. /\ peek' = [q \in Panels!Panels |-> peek[q] /\ ~Left(q)]
      /\ panelTimer' = [q \in Panels!Panels |-> panelTimer[q] /\ ~Left(q)]
      /\ pointer' = IF Left(pointer) THEN Panels!None ELSE pointer
      /\ panelFocus' = IF Left(panelFocus) THEN Panels!None ELSE panelFocus
      /\ picked' = picked
  BY DEF Panels!Unmounts
<1>2. peek' \in [Panels!Panels -> BOOLEAN] /\ panelTimer' \in [Panels!Panels -> BOOLEAN]
  BY <1>1
<1>3. ASSUME NEW q \in Panels!Panels, peek'[q]
      PROVE  panelTimer'[q] \/ q \in {pointer', panelFocus'}
  <2>1. peek[q] /\ ~Left(q)
    BY <1>1, <1>3
  <2>2. panelTimer[q] \/ q = pointer \/ q = panelFocus
    BY <2>1 DEF PanelsLeft
  <2>3. panelTimer'[q] <=> panelTimer[q]
    BY <1>1, <2>1
  <2> QED
    BY <1>1, <2>1, <2>2, <2>3
<1>4. /\ pointer' \in Panels!Panels \cup {Panels!None}
      /\ panelFocus' \in Panels!Panels \cup {Panels!None}
  BY <1>1 DEF PanelsLeft
<1> QED
  BY <1>1, <1>2, <1>3, <1>4 DEF PanelsLeft

-----------------------------------------------------------------------------
\* The history after the address has named another message, or another screen was pushed.
LEMMA SetMessageIdKeeps ==
    ASSUME PanelsRight, NEW id \in {Panels!NoId} \cup AddressIds, Panels!SetMessageId(id),
           panelAt' = panelAt
    PROVE  /\ PanelsRight'
           /\ panelHistory'[panelAt] = [panelHistory[panelAt] EXCEPT !.messageId = id]
<1> DEFINE e == [panelHistory[panelAt] EXCEPT !.messageId = id]
<1>1. panelHistory[panelAt] \in Panels!Entry
  BY ElementOfSeq DEF PanelsRight
<1>2. e \in Panels!Entry
  BY <1>1 DEF Panels!Entry
<1>3. panelHistory' = [panelHistory EXCEPT ![panelAt] = e]
  BY DEF Panels!SetMessageId
<1> HIDE DEF e
<1>4. /\ panelHistory' \in Seq(Panels!Entry) /\ Len(panelHistory') = Len(panelHistory)
      /\ panelHistory'[panelAt] = e
  BY <1>2, <1>3, ExceptSeq DEF PanelsRight
<1> QED
  BY <1>4 DEF PanelsRight, e

\* The address changes.
LEMMA PushKeeps ==
    ASSUME PanelsRight, NEW there \in Panels!Places, Panels!Push(there)
    PROVE  /\ PanelsRight'
           /\ panelHistory'[panelAt'] = Panels!At(there)
           /\ \A i \in 1..panelAt : panelHistory'[i] = panelHistory[i]
<1> DEFINE before == SubSeq(panelHistory, 1, panelAt)
<1>0. /\ panelAt \in Nat /\ Len(panelHistory) \in Nat /\ 1 <= panelAt
      /\ panelAt <= Len(panelHistory) /\ panelAt < MaxPanelHistory
      /\ panelAt' = panelAt + 1 /\ MaxPanelHistory \in Nat
  BY PanelsBounds DEF PanelsRight, Panels!Push
<1>1. \A i \in 1..panelAt : panelHistory[i] \in Panels!Entry
  BY <1>0, ElementOfSeq DEF PanelsRight
<1>2. /\ before \in Seq(Panels!Entry) /\ Len(before) = panelAt
      /\ \A i \in 1..panelAt : before[i] = panelHistory[i]
  BY <1>0, <1>1, SubSeqProperties
<1>3. Panels!At(there) \in Panels!Entry
  BY DEF Panels!At, Panels!Entry
<1>4. panelHistory' = Append(before, Panels!At(there))
  BY DEF Panels!Push
<1> HIDE DEF before
<1>5. /\ panelHistory' \in Seq(Panels!Entry) /\ Len(panelHistory') = panelAt + 1
      /\ panelHistory'[panelAt + 1] = Panels!At(there)
      /\ \A i \in 1..panelAt : panelHistory'[i] = before[i]
  BY <1>0, <1>2, <1>3, <1>4, AppendProperties
<1> QED
  BY <1>0, <1>2, <1>5 DEF PanelsRight

\* The latest answer with evidence is one.
LEMMA LatestAnswerIsOne ==
    ASSUME Panels!WithEvidence # {}
    PROVE  Panels!LatestAnswer \in Panels!WithEvidence
<1> DEFINE n == Len(Panels!ConversationMessages)
           mirrored == {n - i : i \in Panels!WithEvidence}
<1>1. n \in Nat
  BY PanelsBounds, LenProperties DEF Panels!ConversationMessages
<1>2. Panels!WithEvidence \subseteq 1..n
  BY DEF Panels!WithEvidence, Panels!Ids
<1> HIDE DEF n
<1>3. mirrored \subseteq Nat /\ mirrored # {}
  <2>1. \A i \in 1..n : n - i \in Nat
    BY <1>1
  <2> QED
    BY <1>2, <2>1
<1>4. PICK x \in mirrored : \A y \in mirrored : ~(<<y, x>> \in OpToRel(<, Nat))
  BY <1>3, NatLessThanWellFounded, WFMin
<1>5. PICK i \in Panels!WithEvidence : x = n - i
  OBVIOUS
<1>6. \A j \in Panels!WithEvidence : j <= i
  <2> SUFFICES ASSUME NEW j \in Panels!WithEvidence, ~(j <= i) PROVE FALSE
    OBVIOUS
  <2>1. n - j \in mirrored /\ n - j < x /\ n - j \in Nat /\ x \in Nat
    BY <1>1, <1>2, <1>5
  <2> QED
    BY <1>4, <2>1 DEF OpToRel
<1> QED
  BY <1>6 DEF Panels!LatestAnswer

-----------------------------------------------------------------------------
\* Each message has a number of its own, which is positive; and an answer with evidence is
\* drawn, below the question that it answers.
LEMMA ConversationIsChat ==
    /\ Panels!Ids \subseteq Nat
    /\ \A i \in Panels!Ids :
          /\ Panels!Place \in Sessions /\ Panels!IsChatActive
          /\ Panels!ConversationMessages = Messages
          /\ i \in 1..Len(Messages)
          /\ Messages[i].id \in Nat \ {0} /\ Messages[i].evidences \in Nat
    /\ \A i, j \in Panels!Ids :
          Panels!ConversationMessages[i].id = Panels!ConversationMessages[j].id => i = j
<1>0. Len(<<>>) = 0
  OBVIOUS
<1>1. Panels!Ids \subseteq Nat
  BY PanelsBounds, LenProperties DEF Panels!Ids, Panels!ConversationMessages
<1>2. ASSUME NEW i \in Panels!Ids
      PROVE  /\ Panels!Place \in Sessions /\ Panels!ConversationMessages = Messages
             /\ i \in 1..Len(Messages)
  BY <1>0, <1>2 DEF Panels!Ids, Panels!ConversationMessages
<1>3. ASSUME NEW i \in 1..Len(Messages)
      PROVE  Messages[i].id \in Nat \ {0} /\ Messages[i].evidences \in Nat
  <2>1. Messages[i] \in Panels!Message
    BY PanelsBounds, ElementOfSeq
  <2> QED
    BY <2>1 DEF Panels!Message, Panels!NoId
<1>4. Panels!Place \in Sessions => Panels!IsChatActive
  BY PanelsBounds DEF Panels!IsChatActive
<1> QED
  BY <1>1, <1>2, <1>3, <1>4, PanelsBounds

\* The buttons drawn are those of the answers with evidence.
LEMMA EvidenceIsDrawn == Panels!EvidenceButtons = Panels!WithEvidence
<1>1. Panels!EvidenceButtons \subseteq Panels!WithEvidence
  BY DEF Panels!EvidenceButtons, Panels!WithEvidence, Panels!DrawnAnswers, Panels!AnswersTo
<1>2. ASSUME NEW i \in Panels!WithEvidence PROVE i \in Panels!EvidenceButtons
  <2>1. i \in Panels!Ids /\ Panels!HasEvidence(i) /\ Panels!IsAnswer(i)
    BY DEF Panels!WithEvidence, Panels!HasEvidence
  <2>2. /\ Panels!ConversationMessages = Messages /\ i \in 1..Len(Messages) /\ Len(Messages) \in Nat
        /\ Panels!Ids = 1..Len(Messages)
    BY <2>1, ConversationIsChat, PanelsBounds, LenProperties DEF Panels!Ids
  <2>3. i > 1 /\ Messages[i - 1].role = "USER"
    BY <2>1, <2>2, PanelsBounds DEF Panels!HasEvidence, Panels!IsAnswer
  <2>4. i - 1 \in Panels!Questions
    BY <2>2, <2>3 DEF Panels!Questions, Panels!IsAnswer
  <2>5. i \in Panels!AnswersTo(i - 1)
    BY <2>1, <2>2 DEF Panels!AnswersTo
  <2> QED
    BY <2>1, <2>4, <2>5 DEF Panels!EvidenceButtons, Panels!DrawnAnswers
<1> QED
  BY <1>1, <1>2

\* The rail on the right is open if the address names an answer with evidence.
RailIsOf(i) == i \in Panels!WithEvidence /\ Panels!ButtonIsOpen(i)

\* The rail shows the evidence of one answer, or is closed.
LEMMA RailIsOfOne ==
    /\ Panels!EvidenceRailIsOpen <=> \E i \in Panels!Ids : RailIsOf(i)
    /\ Panels!OpenedEvidences > 0 <=> \E i \in Panels!Ids : RailIsOf(i)
    /\ \A i, j \in Panels!Ids : RailIsOf(i) /\ RailIsOf(j) => i = j
<1> DEFINE opened == {i \in Panels!Ids : Panels!IsAnswer(i)
                        /\ Panels!ConversationMessages[i].id = Panels!OpenedMessageId}
<1>1. CASE opened = {}
  <2>1. Panels!OpenedEvidences = 0
    BY <1>1 DEF Panels!OpenedEvidences
  <2>2. \A i \in Panels!Ids : ~RailIsOf(i)
    BY <1>1 DEF RailIsOf, Panels!WithEvidence, Panels!HasEvidence, Panels!ButtonIsOpen
  <2> QED
    BY <2>1, <2>2 DEF Panels!EvidenceRailIsOpen
<1>2. CASE opened # {}
  <2> DEFINE k == CHOOSE i \in opened : TRUE
  <2>1. k \in opened
    BY <1>2
  <2>2. Panels!OpenedEvidences = Panels!ConversationMessages[k].evidences
    BY <1>2 DEF Panels!OpenedEvidences
  <2> HIDE DEF k
  <2>3. /\ k \in Panels!Ids /\ Panels!IsAnswer(k)
        /\ Panels!ConversationMessages[k].id = Panels!OpenedMessageId
    BY <2>1
  <2>4. \A i \in Panels!Ids : Panels!ButtonIsOpen(i) => i = k
    BY <2>3, ConversationIsChat DEF Panels!ButtonIsOpen
  <2>5. RailIsOf(k) <=> Panels!OpenedEvidences > 0
    BY <2>2, <2>3 DEF RailIsOf, Panels!WithEvidence, Panels!HasEvidence, Panels!ButtonIsOpen
  <2>6. \A i \in Panels!Ids : RailIsOf(i) => i = k
    BY <2>4 DEF RailIsOf
  <2>7. Panels!IsChatActive
    BY <2>3, ConversationIsChat
  <2> QED
    BY <2>3, <2>5, <2>6, <2>7 DEF Panels!EvidenceRailIsOpen
<1> QED
  BY <1>1, <1>2

\* Cardinality is the library's.
LEMMA PanelsCardinality == ASSUME NEW S PROVE Panels!Cardinality(S) = Cardinality(S)
BY DEF Panels!Cardinality, Cardinality

\* At most one button is open, and it is on screen.
LEMMA OneButtonIsOpen == Panels!OpenedIsOnScreen
<1> DEFINE open == {i \in Panels!EvidenceButtons : Panels!ButtonIsOpen(i)}
<1>1. open = {i \in Panels!Ids : RailIsOf(i)}
  BY EvidenceIsDrawn DEF RailIsOf, Panels!WithEvidence
<1>2. CASE Panels!EvidenceRailIsOpen
  <2>1. PICK k \in Panels!Ids : RailIsOf(k)
    BY <1>2, RailIsOfOne
  <2>2. open = {k}
    BY <1>1, <2>1, RailIsOfOne
  <2> QED
    BY <1>2, <2>2, FS_Singleton, PanelsCardinality DEF Panels!OpenedIsOnScreen
<1>3. CASE ~Panels!EvidenceRailIsOpen
  <2>1. open = {}
    BY <1>1, <1>3, RailIsOfOne
  <2> QED
    BY <1>3, <2>1, FS_EmptySet, PanelsCardinality DEF Panels!OpenedIsOnScreen
<1> QED
  BY <1>2, <1>3

-----------------------------------------------------------------------------
(* The steps *)

\* An answer's evidence is opened.
LEMMA OpenEvidenceKeeps ==
    ASSUME PanelsRight, NEW i \in Panels!Ids, Panels!OpenEvidence(i)
    PROVE  PanelsRight'
<1>1. i \in Panels!WithEvidence
  BY EvidenceIsDrawn DEF Panels!OpenEvidence
<1>2. Panels!ConversationMessages[i].id \in AddressIds
  BY <1>1, ConversationIsChat, PanelsBounds DEF Panels!WithEvidence, Panels!HasEvidence,
     Panels!IsAnswer
<1>3. PICK id \in {Panels!NoId} \cup AddressIds : Panels!SetMessageId(id)
  BY <1>2 DEF Panels!OpenEvidence
<1> QED
  BY <1>3, SetMessageIdKeeps DEF Panels!OpenEvidence

\* The button in the bar closes the rail, or opens it at the latest answer with evidence.
LEMMA PressToggleNames ==
    ASSUME Panels!PressToggle
    PROVE  \E id \in {Panels!NoId} \cup AddressIds :
              /\ Panels!SetMessageId(id)
              /\ IF Panels!ToggleIsOpen THEN id = 0
                 ELSE \E i \in Panels!WithEvidence : id = Messages[i].id
<1>1. CASE Panels!ToggleIsOpen
  BY <1>1 DEF Panels!PressToggle, Panels!NoId
<1>2. CASE ~Panels!ToggleIsOpen
  <2>1. Panels!LatestAnswer \in Panels!WithEvidence
    BY LatestAnswerIsOne DEF Panels!PressToggle, Panels!ToggleIsShown
  <2>2. PICK i \in Panels!WithEvidence : i = Panels!LatestAnswer
    BY <2>1
  <2>3. /\ Panels!ConversationMessages[i].id \in AddressIds
        /\ Panels!ConversationMessages = Messages
    BY ConversationIsChat, PanelsBounds DEF Panels!WithEvidence, Panels!HasEvidence, Panels!IsAnswer
  <2>4. Panels!SetMessageId(Messages[i].id)
    BY <1>2, <2>2, <2>3 DEF Panels!PressToggle
  <2> QED
    BY <1>2, <2>3, <2>4
<1> QED
  BY <1>1, <1>2

\* Every step of the panels keeps it.
LEMMA PanelsNext ==
    ASSUME PanelsInv, [Panels!Next]_(Panels!vars)
    PROVE  PanelsInv'
<1>0. PanelsLeft /\ PanelsRight /\ expanded \subseteq Folders
  BY PanelsSides
<1> SUFFICES PanelsLeft' /\ PanelsRight' /\ expanded' \subseteq Folders
  BY DEF PanelsInv, PanelsLeft, PanelsRight, Panels!TypeOK
<1>u. ASSUME UNCHANGED <<panelHistory, panelAt>> PROVE PanelsRight'
  BY <1>0, <1>u DEF PanelsRight
<1>l. ASSUME UNCHANGED Panels!panelVars PROVE PanelsLeft'
  BY <1>0, <1>l DEF PanelsLeft, Panels!panelVars
<1>1. CASE UNCHANGED Panels!vars
  BY <1>0, <1>1, <1>u, <1>l DEF Panels!vars, Panels!panelVars
<1>2. ASSUME NEW p \in Panels!Panels, Panels!PointerEnter(p)
      PROVE  PanelsLeft' /\ PanelsRight' /\ expanded' \subseteq Folders
  BY <1>0, <1>2, <1>u, PointerEnterKeeps, PanelsTree DEF Panels!PointerEnter
<1>3. ASSUME NEW p \in Panels!Panels, Panels!CloseTimer(p)
      PROVE  PanelsLeft' /\ PanelsRight' /\ expanded' \subseteq Folders
  BY <1>0, <1>3, <1>u, CloseTimerKeeps, PanelsTree DEF Panels!CloseTimer
<1>4. ASSUME NEW p \in Panels!Panels, Panels!ToggleDock(p)
      PROVE  PanelsLeft' /\ PanelsRight' /\ expanded' \subseteq Folders
  BY <1>0, <1>4, <1>u, ToggleDockKeeps, PanelsTree DEF Panels!ToggleDock
<1>5. ASSUME NEW p \in Panels!Panels \cup {Panels!None}, Panels!MoveFocus(p)
      PROVE  PanelsLeft' /\ PanelsRight' /\ expanded' \subseteq Folders
  BY <1>0, <1>5, <1>u, MoveFocusKeeps, PanelsTree DEF Panels!MoveFocus
<1>6. CASE Panels!PointerLeave
  BY <1>0, <1>6, <1>u, PointerLeaveKeeps DEF Panels!PointerLeave
<1>7. CASE Panels!Escape
  BY <1>0, <1>7, <1>u, EscapeKeeps, PanelsTree DEF Panels!Escape
<1>8. ASSUME NEW f \in Folders, Panels!ToggleFolder(f)
      PROVE  PanelsLeft' /\ PanelsRight' /\ expanded' \subseteq Folders
  BY <1>0, <1>8, <1>u, <1>l DEF Panels!ToggleFolder
<1>9. ASSUME NEW i \in Panels!Ids, Panels!OpenEvidence(i)
      PROVE  PanelsLeft' /\ PanelsRight' /\ expanded' \subseteq Folders
  BY <1>0, <1>9, <1>l, OpenEvidenceKeeps DEF Panels!OpenEvidence
<1>10. CASE Panels!PressToggle
  <2>1. PanelsRight'
    BY <1>0, <1>10, PressToggleNames, SetMessageIdKeeps DEF Panels!PressToggle
  <2> QED
    BY <1>0, <1>10, <2>1, <1>l DEF Panels!PressToggle
<1>11. ASSUME NEW there \in Panels!Places, Panels!Push(there), Panels!Unmounts
       PROVE  PanelsLeft' /\ PanelsRight' /\ expanded' \subseteq Folders
  BY <1>0, <1>11, PushKeeps, UnmountsKeeps, PanelsTree DEF Panels!Unmounts
<1>12. CASE Panels!NavigateToHome \/ Panels!NavigateToExplore \/ Panels!NavigateToChatSession
  BY <1>11, <1>12 DEF Panels!NavigateToHome, Panels!NavigateToExplore,
     Panels!NavigateToChatSession, Panels!Places
<1>13. CASE Panels!NavigateToNewChat
  <2>1. Panels!At(Panels!NewChat) \in Panels!Entry
    BY DEF Panels!At, Panels!Entry, Panels!Places
  <2>2. PanelsRight'
    BY <1>0, <1>13, <2>1, ExceptSeq DEF PanelsRight, Panels!NavigateToNewChat
  <2> QED
    BY <1>0, <1>13, <2>2, UnmountsKeeps, PanelsTree DEF Panels!NavigateToNewChat, Panels!Unmounts
<1>14. CASE Panels!Traverse
  <2>1. PanelsRight'
    BY <1>0, <1>14 DEF PanelsRight, Panels!Traverse
  <2> QED
    BY <1>0, <1>14, <2>1, UnmountsKeeps, PanelsTree DEF Panels!Traverse, Panels!Unmounts
<1> QED
  BY <1>1, <1>2, <1>3, <1>4, <1>5, <1>6, <1>7, <1>8, <1>9, <1>10, <1>12, <1>13, <1>14
  DEF Panels!Next

-----------------------------------------------------------------------------
(* What a step may not do to the rail of records *)

\* The answers on screen are those of the place.
LEMMA SameConversation ==
    ASSUME Panels!Place' = Panels!Place
    PROVE  /\ Panels!ConversationMessages' = Panels!ConversationMessages
           /\ Panels!Ids' = Panels!Ids /\ Panels!WithEvidence' = Panels!WithEvidence
           /\ Panels!IsChatActive' <=> Panels!IsChatActive
BY DEF Panels!ConversationMessages, Panels!Ids, Panels!WithEvidence, Panels!HasEvidence,
       Panels!IsAnswer, Panels!IsChatActive

\* The same of the rail after a step.
LEMMA RailAfter ==
    Panels!EvidenceRailIsOpen' <=>
      \E i \in Panels!Ids' : i \in Panels!WithEvidence'
         /\ Panels!OpenedMessageId' = Panels!ConversationMessages'[i].id
<1>1. (Panels!EvidenceRailIsOpen <=> \E i \in Panels!Ids : RailIsOf(i))'
  BY RailIsOfOne, PTL
<1> QED
  BY <1>1 DEF RailIsOf, Panels!ButtonIsOpen

\* The toggle opens a closed rail and closes an open one.
LEMMA ToggleTurns ==
    ASSUME PanelsInv, Panels!PressToggle
    PROVE  Panels!EvidenceRailIsOpen' # Panels!EvidenceRailIsOpen
<1>1. PICK id \in {Panels!NoId} \cup AddressIds :
              /\ Panels!SetMessageId(id)
              /\ IF Panels!ToggleIsOpen THEN id = 0
                 ELSE \E i \in Panels!WithEvidence : id = Messages[i].id
  BY PressToggleNames
<1>2. panelHistory'[panelAt] = [panelHistory[panelAt] EXCEPT !.messageId = id] /\ panelAt' = panelAt
  BY <1>1, SetMessageIdKeeps, PanelsSides DEF Panels!PressToggle
<1>3. panelHistory[panelAt] \in Panels!Entry
  BY PanelsEntry DEF PanelsInv
<1>4. panelHistory'[panelAt'].messageId = id /\ Panels!Place' = Panels!Place
  BY <1>2, <1>3 DEF Panels!Entry, Panels!Place
<1>5. \A i \in Panels!Ids : Messages[i].id \in Nat \ {0} /\ Panels!ConversationMessages = Messages
  BY ConversationIsChat
<1>6. Panels!WithEvidence \subseteq Panels!Ids
  BY DEF Panels!WithEvidence
<1>7. CASE Panels!ToggleIsOpen
  <2>1. Panels!EvidenceRailIsOpen
    BY <1>7 DEF Panels!EvidenceRailIsOpen, Panels!ToggleIsOpen, Panels!PressToggle,
       Panels!ToggleIsShown
  <2>2. Panels!OpenedMessageId' = 0
    BY <1>1, <1>4, <1>7 DEF Panels!OpenedMessageId, Panels!NoId
  <2>3. ~Panels!EvidenceRailIsOpen'
    BY <1>4, <1>5, <2>2, RailAfter, SameConversation
  <2> QED
    BY <2>1, <2>3
<1>8. CASE ~Panels!ToggleIsOpen
  <2>1. ~Panels!EvidenceRailIsOpen
    BY <1>8 DEF Panels!EvidenceRailIsOpen, Panels!ToggleIsOpen
  <2>2. PICK i \in Panels!WithEvidence : id = Messages[i].id
    BY <1>1, <1>8
  <2>3. id \in Nat \ {0}
    BY <1>5, <1>6, <2>2
  <2>4. Panels!OpenedMessageId' = id
    BY <1>4, <2>3 DEF Panels!OpenedMessageId, Panels!NoId
  <2>5. Panels!EvidenceRailIsOpen'
    BY <1>4, <1>5, <1>6, <2>2, <2>4, RailAfter, SameConversation
  <2> QED
    BY <2>1, <2>5
<1> QED
  BY <1>7, <1>8

\* An open rail can be closed.
LEMMA RailHasItsToggle == Panels!EvidenceRailIsOpen => Panels!ToggleIsShown
BY RailIsOfOne DEF Panels!EvidenceRailIsOpen, Panels!ToggleIsShown, RailIsOf

\* The ids of messages are positive.
LEMMA MessagesAreNumbered ==
    \A i \in Panels!Ids : Panels!ConversationMessages[i].id \in Nat \ {0}
BY ConversationIsChat

\* The tab goes to another entry of its history.
EntryIsKept ==
    panelAt' # panelAt =>
      /\ panelHistory' # panelHistory => ~Panels!EvidenceRailIsOpen'
      /\ \A i \in 1..panelAt : panelHistory'[i] = panelHistory[i]

\* Whoever goes to another entry finds what it was.
LEMMA EntryKept ==
    ASSUME PanelsInv, [Panels!Next]_(Panels!vars)
    PROVE  EntryIsKept
<1>0. PanelsRight
  BY PanelsSides
<1>1. ASSUME NEW there \in Panels!Places, Panels!Push(there) PROVE EntryIsKept
  <2>1. /\ panelHistory'[panelAt'] = Panels!At(there)
        /\ \A i \in 1..panelAt : panelHistory'[i] = panelHistory[i]
    BY <1>0, <1>1, PushKeeps
  <2>2. Panels!OpenedMessageId' = 0
    BY <2>1 DEF Panels!OpenedMessageId, Panels!At, Panels!NoId
  <2>3. (\A i \in Panels!Ids : Panels!ConversationMessages[i].id \in Nat \ {0})'
    BY MessagesAreNumbered, PTL
  <2>4. ~Panels!EvidenceRailIsOpen'
    BY <2>2, <2>3, RailAfter
  <2> QED
    BY <2>1, <2>4 DEF EntryIsKept
<1>2. ASSUME UNCHANGED panelHistory \/ UNCHANGED panelAt PROVE EntryIsKept
  BY <1>2 DEF EntryIsKept
<1>3. CASE UNCHANGED Panels!vars
  BY <1>2, <1>3 DEF Panels!vars
<1>4. CASE Panels!Next
  <2>1. \/ UNCHANGED panelHistory \/ UNCHANGED panelAt
        \/ \E there \in Panels!Places : Panels!Push(there)
    BY <1>4 DEF Panels!Next, Panels!PointerEnter, Panels!CloseTimer, Panels!ToggleDock,
       Panels!MoveFocus, Panels!PointerLeave, Panels!Escape, Panels!ToggleFolder,
       Panels!OpenEvidence, Panels!PressToggle, Panels!NavigateToHome,
       Panels!NavigateToExplore, Panels!NavigateToChatSession, Panels!NavigateToNewChat,
       Panels!Traverse, Panels!Places
  <2> QED
    BY <1>1, <1>2, <2>1
<1> QED
  BY <1>3, <1>4

\* Beside the rest of the page, however pointer, keyboard, timers and Back are interleaved: no
\* panel floats that was left alone (useDockablePanel), the rail of records is of one answer on
\* screen, the button in the bar turns it, and it stays with its entry of the history.
THEOREM PanelsAreSafeCorrect == Spec => PanelsAreSafe
<1>1. PanelsInv /\ [Next]_vars => PanelsInv'
  BY PanelsStep, PanelsNext
<1>2. PanelsInv =>
        /\ part = "panels" => Panels!TypeOK
        /\ FloatsForAReason /\ OpenedIsOnScreen
  BY OneButtonIsOpen DEF PanelsInv, FloatsForAReason, OpenedIsOnScreen,
     Panels!FloatsForAReason, Panels!Floats
<1> DEFINE Turns == Panels!PressToggle => Panels!EvidenceRailIsOpen' # Panels!EvidenceRailIsOpen
<1>3. PanelsInv /\ [Next]_vars => [Turns]_(Panels!vars) /\ [EntryIsKept]_(Panels!vars)
  BY ToggleTurns, EntryKept, PanelsStep
<1>4. ToggleTurnsTheRail <=>
        /\ [][Turns]_(Panels!vars)
        /\ [](Panels!EvidenceRailIsOpen => Panels!ToggleIsShown)
  BY DEF ToggleTurnsTheRail, Panels!ToggleTurnsTheRail
<1>5. RecordsStayWithTheirEntry <=> [][EntryIsKept]_(Panels!vars)
  BY DEF RecordsStayWithTheirEntry, Panels!RecordsStayWithTheirEntry, EntryIsKept
<1> HIDE DEF Turns
<1> QED
  BY <1>1, <1>2, <1>3, <1>4, <1>5, PanelsInit, RailHasItsToggle, PTL DEF Spec, PanelsAreSafe

-----------------------------------------------------------------------------
(* The wait for the documents of a recording *)

\* What the screen has of the list is the recording's documents, which are made once; a
\* recording is completed for good, so that the list is asked for only when it is final; and a
\* timer asks only for a recording that was known.
OrganizingInv ==
    /\ Organizing!TypeOK
    /\ (detail.by = "timer" => detail.known) /\ (list.by = "timer" => list.known)
    /\ detail.known /\ detail.data.status = "COMPLETED" => recording.status = "COMPLETED"
    /\ detail.fetch = "read" /\ detail.got # Organizing!Unknown /\ detail.got.status = "COMPLETED"
         => recording.status = "COMPLETED"
    /\ list.fetch # "idle" \/ list.known => recording.status = "COMPLETED"
    /\ list.fetch = "read" => list.got = documents
    /\ list.known => list.data = documents

\* What a query's entry is made of.
LEMMA OrganizingEntry ==
    ASSUME NEW D
    PROVE  \E B, R, F, S, G :
              /\ B = BOOLEAN /\ R = Organizing!Errors /\ F = {"idle", "sent", "read"}
              /\ S = {"screen", "timer"} /\ G = D \cup {Organizing!Unknown}
              /\ Organizing!EntryOf(D) = [known: B, data: G, error: R, fetch: F, got: G, by: S]
BY Zenon DEF Organizing!EntryOf

\* What may become of an entry.
LEMMA OrganizingStart ==
    ASSUME NEW D, NEW e \in Organizing!EntryOf(D)
    PROVE  /\ Organizing!Start(e) \in Organizing!EntryOf(D)
           /\ Organizing!Start(e).known = e.known /\ Organizing!Start(e).data = e.data
           /\ Organizing!Start(e).fetch = "sent" /\ Organizing!Start(e).by = e.by
<1>1. PICK B, R, F, S, G :
         /\ B = BOOLEAN /\ R = Organizing!Errors /\ F = {"idle", "sent", "read"}
         /\ S = {"screen", "timer"} /\ G = D \cup {Organizing!Unknown}
         /\ Organizing!EntryOf(D) = [known: B, data: G, error: R, fetch: F, got: G, by: S]
  BY OrganizingEntry
<1>2. /\ Organizing!EntryOf(D) = [known: B, data: G, error: R, fetch: F, got: G, by: S]
      /\ "none" \in R /\ "sent" \in F /\ Organizing!Unknown \in G
  BY <1>1 DEF Organizing!Errors
<1>3. e \in Organizing!EntryOf(D)
  OBVIOUS
<1>4. PICK x \in R : x = IF e.known THEN e.error ELSE "none"
  BY <1>2, <1>3
<1>5. PICK u \in G : u = Organizing!Unknown
  BY <1>2
<1>6. Organizing!Start(e) = [e EXCEPT !.fetch = "sent", !.got = u, !.error = x]
  BY <1>4, <1>5 DEF Organizing!Start
<1>7. Organizing!Start(e) \in Organizing!EntryOf(D)
  <2>1. e \in [known: B, data: G, error: R, fetch: F, got: G, by: S]
    BY <1>2, <1>3, Zenon
  <2>2. Organizing!Start(e) \in [known: B, data: G, error: R, fetch: F, got: G, by: S]
    BY <1>2, <1>6, <2>1
  <2> QED
    BY <1>2, <2>2, Zenon
<1>8. /\ Organizing!Start(e).known = e.known /\ Organizing!Start(e).data = e.data
      /\ Organizing!Start(e).fetch = "sent" /\ Organizing!Start(e).by = e.by
  BY <1>2, <1>3 DEF Organizing!Start
<1> QED
  BY <1>7, <1>8

\* What else may become of an entry: it is asked for, and has its answer.
OrganizingMoves(D, e) ==
    /\ \A f \in {Organizing!Asked(e), Organizing!Refetched(e)} :
         /\ f \in Organizing!EntryOf(D) /\ f.known = e.known /\ f.data = e.data
         /\ f.fetch # "idle" /\ (f.by = "timer" => f.known)
         /\ f.fetch = "read" => f = e
    /\ e.known => LET f == Organizing!ByTimer(e) IN
         /\ f \in Organizing!EntryOf(D) /\ f.known /\ f.data = e.data /\ f.fetch = "sent"
    /\ \A r \in Organizing!Errors : LET f == Organizing!Failed(e, r) IN
         /\ f \in Organizing!EntryOf(D) /\ f.known = e.known /\ f.data = e.data
         /\ f.fetch = "idle" /\ f.by = "screen" /\ f.error = r
    /\ LET f == Organizing!Succeeded(e) IN
         /\ f \in Organizing!EntryOf(D) /\ f.known /\ f.data = e.got
         /\ f.fetch = "idle" /\ f.by = "screen" /\ f.error = "none"

LEMMA OrganizingEntries ==
    ASSUME NEW D, NEW e \in Organizing!EntryOf(D), e.by = "timer" => e.known
    PROVE  OrganizingMoves(D, e)
<1>1. PICK B, R, F, S, G :
         /\ B = BOOLEAN /\ R = Organizing!Errors /\ F = {"idle", "sent", "read"}
         /\ S = {"screen", "timer"} /\ G = D \cup {Organizing!Unknown}
         /\ Organizing!EntryOf(D) = [known: B, data: G, error: R, fetch: F, got: G, by: S]
  BY OrganizingEntry
<1>2. /\ Organizing!EntryOf(D) = [known: B, data: G, error: R, fetch: F, got: G, by: S]
      /\ "none" \in R /\ "idle" \in F /\ Organizing!Unknown \in G /\ TRUE \in B /\ FALSE \in B
      /\ "screen" \in S /\ "timer" \in S
  BY <1>1 DEF Organizing!Errors
<1>3. e \in Organizing!EntryOf(D)
  OBVIOUS
<1>4. /\ Organizing!EntryOf(D) = [known: B, data: G, error: R, fetch: F, got: G, by: S]
      /\ "idle" \in F /\ "screen" \in S
  BY <1>2
<1>5. PICK t \in B : t = TRUE
  BY <1>2
<1>6. PICK i \in F, s \in S : i = "idle" /\ s = "screen"
  BY <1>2
<1>7. e.got \in G /\ e.data \in G /\ e.known \in B /\ e.fetch \in F
  BY <1>2, <1>3
<1>8. /\ Organizing!Start(e) \in Organizing!EntryOf(D)
      /\ Organizing!Start(e).known = e.known /\ Organizing!Start(e).data = e.data
      /\ Organizing!Start(e).fetch = "sent" /\ Organizing!Start(e).by = e.by
  BY <1>3, OrganizingStart
<1>9. PICK b, u, m :
         b = Organizing!Start(e) /\ u = Organizing!Unknown /\ m = Organizing!Empty
  OBVIOUS
<1>10. /\ b \in Organizing!EntryOf(D) /\ b.known = e.known /\ b.data = e.data
      /\ b.fetch = "sent" /\ b.by = e.by
  BY <1>9, <1>8
<1>11. ASSUME NEW by \in S, NEW f, f = [b EXCEPT !.by = by]
      PROVE  /\ f \in Organizing!EntryOf(D) /\ f.known = e.known /\ f.data = e.data
             /\ f.fetch = "sent" /\ f.by = by
  BY <1>2, <1>10, <1>11
<1>12. ASSUME NEW f \in {Organizing!Asked(e), Organizing!Refetched(e)}
      PROVE  /\ f \in Organizing!EntryOf(D) /\ f.known = e.known /\ f.data = e.data
             /\ f.fetch # "idle" /\ (f.by = "timer" => f.known)
             /\ f.fetch = "read" => f = e
  <2>1. (f = e /\ e.fetch # "idle") \/ f = b \/ f = [b EXCEPT !.by = "screen"]
    BY <1>9 DEF Organizing!Asked, Organizing!Refetched
  <2>2. CASE f = e /\ e.fetch # "idle"
    BY <1>3, <2>2
  <2>3. CASE f = b
    BY <1>10, <2>3
  <2>4. CASE f = [b EXCEPT !.by = "screen"]
    BY <1>2, <1>11, <2>4
  <2> QED
    BY <2>1, <2>2, <2>3, <2>4
<1>13. ASSUME e.known, NEW f, f = Organizing!ByTimer(e)
      PROVE  f \in Organizing!EntryOf(D) /\ f.known /\ f.data = e.data /\ f.fetch = "sent"
  <2>1. f = [b EXCEPT !.by = "timer"]
    BY <1>9, <1>13 DEF Organizing!ByTimer
  <2>2. /\ f \in Organizing!EntryOf(D) /\ f.known = e.known /\ f.data = e.data
        /\ f.fetch = "sent"
    BY <1>2, <1>11, <2>1
  <2> QED
    BY <1>13, <2>2
<1>14. ASSUME NEW r \in Organizing!Errors, NEW f, f = Organizing!Failed(e, r)
      PROVE  /\ f \in Organizing!EntryOf(D) /\ f.known = e.known /\ f.data = e.data
             /\ f.fetch = "idle" /\ f.by = "screen" /\ f.error = r
  <2>1. r \in R
    BY <1>1
  <2>2. f = [e EXCEPT !.error = r, !.fetch = i, !.got = u, !.by = s]
    BY <1>9, <1>14, <1>6 DEF Organizing!Failed
  <2>3. u \in G
    BY <1>2, <1>9
  <2>4. e \in [known: B, data: G, error: R, fetch: F, got: G, by: S]
    BY <1>4, <1>3
  <2>6. [e EXCEPT !.error = r, !.fetch = i, !.got = u, !.by = s]
          \in [known: B, data: G, error: R, fetch: F, got: G, by: S]
    BY <2>4, <2>1, <2>3
  <2>7. f \in Organizing!EntryOf(D)
    BY <2>2, <2>6, <1>4
  <2>8. f.known = e.known /\ f.data = e.data /\ f.fetch = i /\ f.by = s /\ f.error = r
    BY <2>2, <2>4
  <2> QED
    BY <1>6, <2>7, <2>8
<1>15. m \in Organizing!EntryOf(D) /\ m.fetch = "idle" /\ m.by = "screen" /\ m.error = "none"
  <2>1. u \in G
    BY <1>2, <1>9
  <2>2. m = [known |-> FALSE, data |-> u, error |-> "none", fetch |-> "idle", got |-> u,
             by |-> "screen"]
    BY <1>9 DEF Organizing!Empty
  <2> QED
    BY <1>2, <2>1, <2>2
<1>16. ASSUME NEW f, f = Organizing!Succeeded(e)
      PROVE  /\ f \in Organizing!EntryOf(D) /\ f.known /\ f.data = e.got
             /\ f.fetch = "idle" /\ f.by = "screen" /\ f.error = "none"
  <2>0. PICK g \in G : g = e.got
    BY <1>7
  <2>1. f = [m EXCEPT !.known = t, !.data = g]
    BY <1>9, <1>16, <2>0, <1>5 DEF Organizing!Succeeded
  <2>2. m \in [known: B, data: G, error: R, fetch: F, got: G, by: S]
    BY <1>15, <1>4
  <2>5. [m EXCEPT !.known = t, !.data = g]
          \in [known: B, data: G, error: R, fetch: F, got: G, by: S]
    BY <2>2
  <2>3. f \in Organizing!EntryOf(D)
    BY <2>1, <2>5, <1>4
  <2>4. f.known = t /\ f.data = g /\ f.fetch = m.fetch /\ f.by = m.by /\ f.error = m.error
    BY <2>1, <2>2
  <2> QED
    BY <1>15, <1>5, <2>0, <2>3, <2>4
<1> QED
  BY <1>12, <1>13, <1>14, <1>16 DEF OrganizingMoves

\* The parts of the invariant, by what they are about.
OrganizingPlaces ==
    [at: {"recording documents", "recording", "document", "home", "login"}, document: Nat]
OrganizingRetry(r) ==
    /\ r \in [stage: {"idle", "sent", "handled", "refreshing", "checking"},
              outcome: {"none", "ok", "conflict", "unauthorized"},
              error: {"none", "conflict", "missing", "unauthorized", "other"}]
    /\ r.stage = "checking" => r.error = "conflict"
OrganizingRest ==
    /\ recording \in Organizing!Recordings /\ documents \in Made \cup {<<>>}
    /\ organizingSession \in BOOLEAN /\ behind \in BOOLEAN /\ recorder \in {"idle", "recording"}
    /\ place \in OrganizingPlaces /\ OrganizingRetry(retry)
    /\ generations \in 0..MaxGenerations /\ organizingFaults \in 0..MaxOrganizingFaults
OrganizingDetail ==
    /\ detail \in Organizing!EntryOf(Organizing!Recordings)
    /\ (detail.known => detail.data # Organizing!Unknown)
    /\ detail.by = "timer" => detail.known
    /\ detail.known /\ detail.data.status = "COMPLETED" => recording.status = "COMPLETED"
    /\ detail.fetch = "read" /\ detail.got # Organizing!Unknown /\ detail.got.status = "COMPLETED"
         => recording.status = "COMPLETED"
OrganizingList ==
    /\ list \in Organizing!EntryOf(Made)
    /\ list.by = "timer" => list.known
    /\ list.fetch # "idle" \/ list.known => recording.status = "COMPLETED"
    /\ list.fetch = "read" => list.got = documents
    /\ list.known => list.data = documents

LEMMA OrganizingParts == OrganizingInv <=> OrganizingRest /\ OrganizingDetail /\ OrganizingList
BY DEF OrganizingInv, OrganizingRest, OrganizingDetail, OrganizingList, OrganizingPlaces,
   OrganizingRetry, Organizing!TypeOK

\* What is completed stays so, and keeps its documents.
LEMMA OrganizingCompleted ==
    ASSUME OrganizingRest, Organizing!Next, recording.status = "COMPLETED"
    PROVE  recording' = recording /\ documents' = documents
<1>1. CASE Organizing!Ends
  BY <1>1 DEF Organizing!Ends
<1>2. CASE Organizing!Starts
  BY <1>2 DEF Organizing!Starts
<1>3. CASE Organizing!Finish
  BY <1>3 DEF Organizing!Finish, Organizing!Finishes
<1>4. CASE Organizing!RetriedElsewhere
  BY <1>4 DEF Organizing!RetriedElsewhere, Organizing!CanRetry
<1>5. CASE Organizing!ServerRetries
  BY <1>5 DEF Organizing!ServerRetries, Organizing!CanRetry
<1>6. CASE ~(Organizing!Ends \/ Organizing!Starts \/ Organizing!Finish
             \/ Organizing!RetriedElsewhere \/ Organizing!ServerRetries)
  BY <1>6 DEF Organizing!Next, Organizing!SessionEnds, Organizing!DetailRead,
     Organizing!ListRead, Organizing!DetailAnswered, Organizing!ListAnswered,
     Organizing!DetailLost, Organizing!DetailFails, Organizing!ListLost, Organizing!ListFails,
     Organizing!Poll, Organizing!Focus, Organizing!RetryLoad, Organizing!RetryGeneration,
     Organizing!RetryAnswered, Organizing!RetryFails, Organizing!GoHome, Organizing!Redirect,
     Organizing!OpenRecording, Organizing!StopRecording, Organizing!Back, Organizing!server
<1> QED
  BY <1>1, <1>2, <1>3, <1>4, <1>5, <1>6

\* Where the effects send a screen is a place.
LEMMA OrganizingSends ==
    ASSUME OrganizingInv, NEW p \in Organizing!Sends(place)
    PROVE  p \in OrganizingPlaces
<1>1. \/ p \in {Organizing!Login, Organizing!Home, Organizing!Recording}
      \/ list.known /\ list.data # <<>> /\ p = Organizing!Document(Head(list.data))
  <2>1. p \in Organizing!ToLogin \/ p \in Organizing!Onwards
        \/ p \in Organizing!RecordingEntryGuard
    BY DEF Organizing!Sends
  <2>2. CASE p \in Organizing!ToLogin
    BY <2>2 DEF Organizing!ToLogin
  <2>3. CASE p \in Organizing!RecordingEntryGuard
    BY <2>3 DEF Organizing!RecordingEntryGuard
  <2>4. CASE p \in Organizing!Onwards
    BY <2>4 DEF Organizing!Onwards
  <2> QED
    BY <2>1, <2>2, <2>3, <2>4
<1>2. CASE p \in {Organizing!Login, Organizing!Home, Organizing!Recording}
  <2>1. PICK a \in {"login", "home", "recording"} : p = Organizing!At(a)
    BY <1>2 DEF Organizing!Login, Organizing!Home, Organizing!Recording
  <2>2. PICK z \in Nat : z = 0
    OBVIOUS
  <2>3. p = [at |-> a, document |-> z]
    BY <2>1, <2>2 DEF Organizing!At
  <2>4. a \in {"recording documents", "recording", "document", "home", "login"}
    BY <2>1
  <2> QED
    BY <2>2, <2>3, <2>4 DEF OrganizingPlaces
<1>3. CASE list.known /\ list.data # <<>> /\ p = Organizing!Document(Head(list.data))
  <2>1. list.data \in Seq(Nat \ {0})
    <3>1. list.data \in Made \cup {Organizing!Unknown}
      BY DEF OrganizingInv, Organizing!TypeOK, Organizing!EntryOf
    <3> QED
      BY <1>3, <3>1, FrontendAssumption DEF Organizing!Unknown,
         Organizing!RecordingDocumentsAssumption
  <2>2. Head(list.data) \in Nat
    BY <1>3, <2>1
  <2> QED
    BY <1>3, <2>2 DEF Organizing!Document, OrganizingPlaces
<1> QED
  BY <1>1, <1>2, <1>3

\* How often the documents are generated and requests are lost.
LEMMA OrganizingBounds == MaxGenerations \in Nat /\ MaxOrganizingFaults \in Nat
BY FrontendAssumption DEF Organizing!RecordingDocumentsAssumption

\* An address without a document is a place.
LEMMA OrganizingAt ==
    \A a \in {"recording documents", "recording", "home", "login"} :
        Organizing!At(a) \in OrganizingPlaces
<1> SUFFICES ASSUME NEW a \in {"recording documents", "recording", "home", "login"},
                    NEW p, p = Organizing!At(a)
             PROVE  p \in OrganizingPlaces
  OBVIOUS
<1>1. PICK z \in Nat : z = 0
  OBVIOUS
<1>2. p = [at |-> a, document |-> z]
  BY <1>1 DEF Organizing!At
<1>3. a \in {"recording documents", "recording", "document", "home", "login"}
  OBVIOUS
<1> QED
  BY ONLY z \in Nat, <1>2, <1>3 DEF OrganizingPlaces

\* What may become of a retry.
LEMMA OrganizingRetries ==
    /\ OrganizingRetry(Organizing!NoRetry)
    /\ OrganizingRetry([Organizing!NoRetry EXCEPT !.stage = "sent"])
    /\ OrganizingRetry([Organizing!NoRetry EXCEPT !.stage = "refreshing"])
    /\ OrganizingRetry([Organizing!NoRetry EXCEPT !.stage = "checking", !.error = "conflict"])
    /\ \A e \in {"none", "conflict", "missing", "unauthorized", "other"} :
          OrganizingRetry([Organizing!NoRetry EXCEPT !.error = e])
    /\ \A r : OrganizingRetry(r) =>
          /\ r.outcome \in {"none", "ok", "conflict", "unauthorized"}
          /\ OrganizingRetry([r EXCEPT !.stage = "idle"])
          /\ \A o \in {"ok", "conflict", "unauthorized"} :
                OrganizingRetry([r EXCEPT !.stage = "handled", !.outcome = o])
BY DEF OrganizingRetry, Organizing!NoRetry

\* The recording goes through its statuses.
LEMMA OrganizingServer ==
    ASSUME OrganizingInv, Organizing!Next
    PROVE  recording' \in Organizing!Recordings /\ documents' \in Made \cup {<<>>}
           /\ generations' \in 0..MaxGenerations
<1>1. OrganizingRest
  BY OrganizingParts
<1>2. CASE Organizing!Ends
  BY <1>1, <1>2 DEF OrganizingRest, Organizing!Ends, Organizing!Recordings
<1>3. CASE Organizing!Starts
  BY <1>1, <1>3 DEF OrganizingRest, Organizing!Starts, Organizing!Recordings
<1>4. CASE Organizing!Finish
  BY <1>1, <1>4 DEF OrganizingRest, Organizing!Finish, Organizing!Finishes,
     Organizing!Recordings
<1>5. CASE Organizing!RetriedElsewhere
  BY <1>1, <1>5, OrganizingBounds DEF OrganizingRest, Organizing!RetriedElsewhere,
     Organizing!CanRetry, Organizing!Restarts, Organizing!Recordings, Organizing!Stages,
     Organizing!NoStage
<1>6. CASE Organizing!ServerRetries
  BY <1>1, <1>6, OrganizingBounds DEF OrganizingRest, Organizing!ServerRetries,
     Organizing!CanRetry, Organizing!Restarts, Organizing!Recordings, Organizing!Stages,
     Organizing!NoStage
<1>7. CASE ~(Organizing!Ends \/ Organizing!Starts \/ Organizing!Finish
             \/ Organizing!RetriedElsewhere \/ Organizing!ServerRetries)
  BY <1>1, <1>7 DEF OrganizingRest, Organizing!Next, Organizing!server, Organizing!SessionEnds,
     Organizing!DetailRead, Organizing!ListRead, Organizing!DetailAnswered,
     Organizing!Received, Organizing!ListAnswered, Organizing!DetailLost,
     Organizing!DetailFails, Organizing!ListLost, Organizing!ListFails, Organizing!Poll,
     Organizing!Focus, Organizing!RetryLoad, Organizing!RetryGeneration,
     Organizing!RetryAnswered, Organizing!RetryFails, Organizing!GoHome, Organizing!GoTo,
     Organizing!Redirect, Organizing!OpenRecording, Organizing!StopRecording, Organizing!Back
<1> QED
  BY <1>2, <1>3, <1>4, <1>5, <1>6, <1>7

\* The cookies, the history, the recorder and the faults.
LEMMA OrganizingPage ==
    ASSUME OrganizingInv, Organizing!Next
    PROVE  organizingSession' \in BOOLEAN /\ behind' \in BOOLEAN
           /\ recorder' \in {"idle", "recording"} /\ organizingFaults' \in 0..MaxOrganizingFaults
<1>1. OrganizingRest
  BY OrganizingParts
<1>2. CASE Organizing!SessionEnds
  <2>1. organizingSession' \in BOOLEAN /\ behind' = behind /\ recorder' = recorder
    BY <1>2, Zenon DEF Organizing!SessionEnds
  <2>2. organizingFaults < MaxOrganizingFaults /\ organizingFaults' = organizingFaults + 1
    BY <1>2 DEF Organizing!SessionEnds
  <2>3. organizingFaults' \in 0..MaxOrganizingFaults
    BY <1>1, <2>2, OrganizingBounds DEF OrganizingRest
  <2> QED
    BY <1>1, <2>1, <2>3 DEF OrganizingRest
<1>3. CASE Organizing!DetailLost
  BY <1>1, <1>3, OrganizingBounds DEF OrganizingRest, Organizing!DetailLost,
     Organizing!DetailFails, Organizing!server
<1>4. CASE Organizing!ListLost
  BY <1>1, <1>4, OrganizingBounds DEF OrganizingRest, Organizing!ListLost,
     Organizing!ListFails, Organizing!server
<1>5. CASE Organizing!RetryFails
  BY <1>1, <1>5, OrganizingBounds DEF OrganizingRest, Organizing!RetryFails, Organizing!server
<1>6. CASE Organizing!GoHome
  BY <1>1, <1>6 DEF OrganizingRest, Organizing!GoHome, Organizing!server
<1>7. CASE Organizing!OpenRecording
  BY <1>1, <1>7 DEF OrganizingRest, Organizing!OpenRecording, Organizing!server
<1>8. CASE Organizing!StopRecording
  BY <1>1, <1>8 DEF OrganizingRest, Organizing!StopRecording, Organizing!server
<1>9. CASE Organizing!Back
  BY <1>1, <1>9 DEF OrganizingRest, Organizing!Back, Organizing!server
<1>10. CASE ~(Organizing!SessionEnds \/ Organizing!DetailLost \/ Organizing!ListLost
              \/ Organizing!RetryFails \/ Organizing!GoHome \/ Organizing!OpenRecording
              \/ Organizing!StopRecording \/ Organizing!Back)
  BY <1>1, <1>10 DEF OrganizingRest, Organizing!Next, Organizing!server, Organizing!Ends,
     Organizing!Starts, Organizing!Finish, Organizing!Finishes, Organizing!RetriedElsewhere,
     Organizing!DetailRead, Organizing!ListRead, Organizing!DetailAnswered,
     Organizing!Received, Organizing!ListAnswered, Organizing!Poll, Organizing!Focus,
     Organizing!RetryLoad, Organizing!RetryGeneration, Organizing!ServerRetries,
     Organizing!RetryAnswered, Organizing!Redirect, Organizing!GoTo
<1> QED
  BY <1>2, <1>3, <1>4, <1>5, <1>6, <1>7, <1>8, <1>9, <1>10

\* The screen at the address.
LEMMA OrganizingPlace ==
    ASSUME OrganizingInv, Organizing!Next
    PROVE  place' \in OrganizingPlaces
<1>1. OrganizingRest
  BY OrganizingParts
<1>2. CASE Organizing!GoHome
  BY <1>2, OrganizingAt DEF Organizing!GoHome, Organizing!GoTo, Organizing!Home
<1>3. CASE Organizing!Redirect
  BY <1>3, OrganizingSends DEF Organizing!Redirect, Organizing!GoTo
<1>4. CASE Organizing!OpenRecording
  BY <1>4, OrganizingAt DEF Organizing!OpenRecording, Organizing!GoTo, Organizing!Recording
<1>5. CASE Organizing!Back
  BY <1>5, OrganizingAt DEF Organizing!Back, Organizing!GoTo, Organizing!RecordingDocumentsOf
<1>6. CASE ~(Organizing!GoHome \/ Organizing!Redirect \/ Organizing!OpenRecording
             \/ Organizing!Back)
  BY <1>1, <1>6 DEF OrganizingRest, Organizing!Next, Organizing!server, Organizing!Ends,
     Organizing!Starts, Organizing!Finish, Organizing!Finishes, Organizing!RetriedElsewhere,
     Organizing!SessionEnds, Organizing!DetailRead, Organizing!ListRead,
     Organizing!DetailAnswered, Organizing!Received, Organizing!ListAnswered,
     Organizing!DetailLost, Organizing!DetailFails, Organizing!ListLost, Organizing!ListFails,
     Organizing!Poll, Organizing!Focus, Organizing!RetryLoad, Organizing!RetryGeneration,
     Organizing!ServerRetries, Organizing!RetryAnswered, Organizing!RetryFails,
     Organizing!StopRecording
<1> QED
  BY <1>2, <1>3, <1>4, <1>5, <1>6

\* The retry of a generation.
LEMMA OrganizingRetryNext ==
    ASSUME OrganizingInv, Organizing!Next
    PROVE  OrganizingRetry(retry')
<1>1. OrganizingRest
  BY OrganizingParts
<1>a. ASSUME NEW e, retry' = Organizing!Awaited(e)
      PROVE  OrganizingRetry(retry')
  <2>1. OrganizingRetry(retry)
    BY <1>1 DEF OrganizingRest
  <2> QED
    BY <1>a, <2>1, OrganizingRetries DEF Organizing!Awaited, Organizing!Checked
<1>2. CASE Organizing!DetailAnswered
  BY <1>a, <1>2 DEF Organizing!DetailAnswered, Organizing!Received
<1>3. CASE Organizing!DetailLost
  BY <1>a, <1>3 DEF Organizing!DetailLost, Organizing!DetailFails, Organizing!Received
<1>4. CASE Organizing!RetryGeneration
  BY <1>4, OrganizingRetries DEF Organizing!RetryGeneration
<1>5. CASE Organizing!ServerRetries
  <2>1. PICK o \in {"ok", "conflict", "unauthorized"} :
           retry' = [retry EXCEPT !.stage = "handled", !.outcome = o]
    BY <1>5, Zenon DEF Organizing!ServerRetries
  <2> QED
    BY <1>1, <2>1, OrganizingRetries, Zenon DEF OrganizingRest
<1>6. CASE Organizing!RetryAnswered
  BY <1>1, <1>6, OrganizingRetries DEF OrganizingRest, Organizing!RetryAnswered
<1>7. CASE Organizing!RetryFails
  BY <1>7, OrganizingRetries DEF Organizing!RetryFails
<1>8. CASE Organizing!GoHome
  BY <1>8, OrganizingRetries DEF Organizing!GoHome, Organizing!GoTo
<1>9. CASE Organizing!Redirect
  BY <1>9, OrganizingRetries DEF Organizing!Redirect, Organizing!GoTo
<1>10. CASE Organizing!OpenRecording
  BY <1>10, OrganizingRetries DEF Organizing!OpenRecording, Organizing!GoTo
<1>11. CASE Organizing!Back
  BY <1>11, OrganizingRetries DEF Organizing!Back, Organizing!GoTo
<1>12. CASE ~(Organizing!DetailAnswered \/ Organizing!DetailLost \/ Organizing!RetryGeneration
              \/ Organizing!ServerRetries \/ Organizing!RetryAnswered \/ Organizing!RetryFails
              \/ Organizing!GoHome \/ Organizing!Redirect \/ Organizing!OpenRecording
              \/ Organizing!Back)
  BY <1>1, <1>12 DEF OrganizingRest, Organizing!Next, Organizing!server, Organizing!Ends,
     Organizing!Starts, Organizing!Finish, Organizing!Finishes, Organizing!RetriedElsewhere,
     Organizing!SessionEnds, Organizing!DetailRead, Organizing!ListRead,
     Organizing!ListAnswered, Organizing!ListLost, Organizing!ListFails, Organizing!Poll,
     Organizing!Focus, Organizing!RetryLoad, Organizing!StopRecording
<1> QED
  BY <1>2, <1>3, <1>4, <1>5, <1>6, <1>7, <1>8, <1>9, <1>10, <1>11, <1>12

\* A screen that waits for documents, the rest of it: each step keeps it.
LEMMA OrganizingRestNext ==
    ASSUME OrganizingInv, Organizing!Next
    PROVE  OrganizingRest'
BY OrganizingServer, OrganizingPage, OrganizingPlace, OrganizingRetryNext DEF OrganizingRest

\* A recording is shown as completed when it is.
LEMMA OrganizingStatus ==
    ASSUME NEW r \in Organizing!Recordings,
           Organizing!ViewStatusByRecordingStatus[r.status] = "completed"
    PROVE  r.status = "COMPLETED"
<1>1. PICK s : s = r.status
  OBVIOUS
<1>2. s \in {"RECORDING", "PAUSED", "ENDED", "PROCESSING", "COMPLETED", "NO_CONTENT", "FAILED"}
  <2>1. Results \subseteq {"COMPLETED", "NO_CONTENT", "FAILED"}
    BY FrontendAssumption DEF Organizing!RecordingDocumentsAssumption
  <2> QED
    BY <1>1, <2>1 DEF Organizing!Recordings
<1>3. Organizing!ViewStatusByRecordingStatus[s] = "completed"
  BY <1>1
<1> QED
  BY <1>1, <1>2, <1>3 DEF Organizing!ViewStatusByRecordingStatus

\* What the screen takes for completed is.
LEMMA OrganizingViews ==
    ASSUME OrganizingInv
    PROVE  /\ Organizing!ViewStatus = "completed" =>
                 /\ recording.status = "COMPLETED" /\ detail.known
           /\ detail.known => detail.data \in Organizing!Recordings
           /\ detail.got # Organizing!Unknown => detail.got \in Organizing!Recordings
<1>1. OrganizingDetail
  BY OrganizingParts
<1>2. /\ detail.data \in Organizing!Recordings \cup {Organizing!Unknown}
      /\ detail.got \in Organizing!Recordings \cup {Organizing!Unknown}
  BY <1>1 DEF OrganizingDetail, Organizing!EntryOf
<1>3. detail.known => detail.data \in Organizing!Recordings
  BY <1>1, <1>2 DEF OrganizingDetail
<1>4. ASSUME Organizing!ViewStatus = "completed"
      PROVE  recording.status = "COMPLETED" /\ detail.known
  <2>1. detail.known /\ Organizing!ViewStatusByRecordingStatus[detail.data.status] = "completed"
    BY <1>4 DEF Organizing!ViewStatus
  <2>2. detail.data.status = "COMPLETED"
    BY <1>3, <2>1, OrganizingStatus
  <2> QED
    BY <1>1, <2>1, <2>2 DEF OrganizingDetail
<1> QED
  BY <1>2, <1>3, <1>4

\* The cached recording is asked for anew, or it stays.
OrganizingAsks ==
    /\ detail' \in Organizing!EntryOf(Organizing!Recordings)
    /\ detail'.known = detail.known /\ detail'.data = detail.data
    /\ detail'.by = "timer" => detail'.known
    /\ detail'.fetch = "read" => detail' = detail

LEMMA OrganizingAsked ==
    ASSUME OrganizingInv, Organizing!Next, OrganizingAsks
    PROVE  OrganizingDetail'
<1>1. OrganizingDetail /\ OrganizingRest
  BY OrganizingParts
<1>2. recording.status = "COMPLETED" => recording' = recording
  BY <1>1, OrganizingCompleted
<1> QED
  BY <1>1, <1>2 DEF OrganizingDetail, OrganizingAsks, Organizing!EntryOf

\* The cached recording: each step keeps what is said of it.
LEMMA OrganizingDetailNext ==
    ASSUME OrganizingInv, Organizing!Next
    PROVE  OrganizingDetail'
<1>1. OrganizingDetail /\ OrganizingRest
  BY OrganizingParts
<1>2. recording.status = "COMPLETED" => recording' = recording
  BY <1>1, OrganizingCompleted
<1>3. PICK e \in Organizing!EntryOf(Organizing!Recordings) :
         e = detail /\ (e.by = "timer" => e.known)
  BY <1>1 DEF OrganizingDetail
<1>4. OrganizingMoves(Organizing!Recordings, e)
  <2>1. e.by = "timer" => e.known
    BY <1>3
  <2> QED
    BY <2>1, OrganizingEntries
<1>5. /\ Organizing!Start(e) \in Organizing!EntryOf(Organizing!Recordings)
      /\ Organizing!Start(e).known = e.known /\ Organizing!Start(e).data = e.data
      /\ Organizing!Start(e).fetch = "sent" /\ Organizing!Start(e).by = e.by
  BY OrganizingStart
<1>6. CASE \/ detail' = detail \/ detail' = Organizing!Start(detail)
           \/ detail' \in {Organizing!Asked(detail), Organizing!Refetched(detail)}
           \/ detail.known /\ detail' = Organizing!ByTimer(detail)
           \/ \E r \in Organizing!Errors : detail' = Organizing!Failed(detail, r)
  <2>1. CASE detail' = detail
    BY <1>3, <2>1, OrganizingAsked DEF OrganizingAsks
  <2>2. CASE detail' = Organizing!Start(detail)
    BY <1>3, <1>5, <2>2, OrganizingAsked DEF OrganizingAsks
  <2>3. CASE detail' \in {Organizing!Asked(detail), Organizing!Refetched(detail)}
    BY <1>3, <1>4, <2>3, OrganizingAsked DEF OrganizingAsks, OrganizingMoves
  <2>4. CASE detail.known /\ detail' = Organizing!ByTimer(detail)
    BY <1>3, <1>4, <2>4, OrganizingAsked DEF OrganizingAsks, OrganizingMoves
  <2>5. ASSUME NEW r \in Organizing!Errors, detail' = Organizing!Failed(detail, r)
        PROVE  OrganizingDetail'
    BY <1>3, <1>4, <2>5, OrganizingAsked DEF OrganizingAsks, OrganizingMoves
  <2> QED
    BY <1>6, <2>1, <2>2, <2>3, <2>4, <2>5
<1>7. CASE Organizing!DetailRead
  <2>1. PICK g : g = IF organizingSession THEN recording ELSE Organizing!Unknown
    OBVIOUS
  <2>2. detail' = [e EXCEPT !.fetch = "read", !.got = g] /\ recording' = recording
    BY <1>3, <1>7, <2>1 DEF Organizing!DetailRead, Organizing!server
  <2>3. g = recording \/ g = Organizing!Unknown
    BY <2>1
  <2>4. recording \in Organizing!Recordings
    BY <1>1 DEF OrganizingRest
  <2>5. /\ detail' \in Organizing!EntryOf(Organizing!Recordings)
        /\ detail'.known = e.known /\ detail'.data = e.data /\ detail'.by = e.by
        /\ detail'.got = g
    BY <2>2, <2>3, <2>4 DEF Organizing!EntryOf
  <2> QED
    BY <1>1, <1>3, <2>2, <2>3, <2>5 DEF OrganizingDetail
<1>8. CASE Organizing!DetailAnswered
  <2>1. CASE detail.got = Organizing!Unknown
    <3>1. detail' = Organizing!Failed(detail, "unauthorized")
      BY <1>8, <2>1 DEF Organizing!DetailAnswered, Organizing!Received
    <3> QED
      BY <1>6, <3>1 DEF Organizing!Errors
  <2>2. CASE detail.got # Organizing!Unknown
    <3>1. detail' = Organizing!Succeeded(e) /\ recording' = recording /\ detail.fetch = "read"
      BY <1>3, <1>8, <2>2 DEF Organizing!DetailAnswered, Organizing!Received, Organizing!server
    <3>2. /\ detail' \in Organizing!EntryOf(Organizing!Recordings)
          /\ detail'.known /\ detail'.data = detail.got
          /\ detail'.fetch = "idle" /\ detail'.by = "screen"
      BY <1>3, <1>4, <3>1 DEF OrganizingMoves
    <3> QED
      BY <1>1, <2>2, <3>1, <3>2 DEF OrganizingDetail
  <2> QED
    BY <2>1, <2>2
<1>9. CASE Organizing!DetailLost
  BY <1>6, <1>9 DEF Organizing!DetailLost, Organizing!DetailFails, Organizing!Received,
     Organizing!Errors
<1>10. CASE Organizing!Poll
  BY <1>6, <1>10 DEF Organizing!Poll, Organizing!Polls
<1>11. CASE Organizing!Focus
  BY <1>6, <1>11 DEF Organizing!Focus
<1>12. CASE Organizing!RetryLoad
  BY <1>6, <1>12 DEF Organizing!RetryLoad
<1>13. CASE Organizing!RetryAnswered
  BY <1>6, <1>13 DEF Organizing!RetryAnswered
<1>14. CASE Organizing!Back
  BY <1>6, <1>14 DEF Organizing!Back
<1>15. CASE ~(Organizing!DetailRead \/ Organizing!DetailAnswered \/ Organizing!DetailLost
              \/ Organizing!Poll \/ Organizing!Focus \/ Organizing!RetryLoad
              \/ Organizing!RetryAnswered \/ Organizing!Back)
  <2>1. detail' = detail
    BY <1>15 DEF Organizing!Next, Organizing!Ends, Organizing!Starts, Organizing!Finish,
       Organizing!Finishes, Organizing!RetriedElsewhere, Organizing!SessionEnds,
       Organizing!ListRead, Organizing!ListAnswered, Organizing!ListLost, Organizing!ListFails,
       Organizing!RetryGeneration, Organizing!ServerRetries, Organizing!RetryFails,
       Organizing!GoHome, Organizing!Redirect, Organizing!OpenRecording,
       Organizing!StopRecording
  <2> QED
    BY <1>6, <2>1
<1> QED
  BY <1>7, <1>8, <1>9, <1>10, <1>11, <1>12, <1>13, <1>14, <1>15

\* The cached list is asked for once its recording is completed, or it stays.
OrganizingAsksList ==
    /\ list' \in Organizing!EntryOf(Made)
    /\ list'.known = list.known /\ list'.data = list.data
    /\ list'.by = "timer" => list'.known
    /\ list'.fetch = "read" => list' = list
    /\ list'.fetch # "idle" => list.fetch # "idle" \/ recording.status = "COMPLETED"

LEMMA OrganizingListAsked ==
    ASSUME OrganizingInv, Organizing!Next, OrganizingAsksList
    PROVE  OrganizingList'
<1>1. OrganizingList /\ OrganizingRest
  BY OrganizingParts
<1>2. recording.status = "COMPLETED" => recording' = recording /\ documents' = documents
  BY <1>1, OrganizingCompleted
<1>3. list'.fetch # "idle" \/ list'.known => recording.status = "COMPLETED"
  BY <1>1 DEF OrganizingList, OrganizingAsksList
<1>4. list'.fetch = "read" => list'.got = documents
  BY <1>1 DEF OrganizingList, OrganizingAsksList
<1>5. list'.known => list'.data = documents
  BY <1>1 DEF OrganizingList, OrganizingAsksList
<1>6. list'.fetch # "idle" \/ list'.known => recording' = recording /\ documents' = documents
  BY <1>2, <1>3
<1>7. list'.fetch = "read" => list'.fetch # "idle"
  OBVIOUS
<1> QED
  BY <1>3, <1>4, <1>5, <1>6, <1>7 DEF OrganizingList, OrganizingAsksList

\* What an answer to the recording makes of the list.
LEMMA OrganizingListed ==
    ASSUME OrganizingInv, Organizing!Next,
           NEW e, Organizing!Received(e), e.known => e.data \in Organizing!Recordings,
           e.known /\ e.data.status = "COMPLETED" => recording.status = "COMPLETED"
    PROVE  OrganizingList'
<1>1. OrganizingList
  BY OrganizingParts
<1>2. PICK l \in Organizing!EntryOf(Made) : l = list /\ (l.by = "timer" => l.known)
  BY <1>1 DEF OrganizingList
<1>3. /\ Organizing!Start(l) \in Organizing!EntryOf(Made)
      /\ Organizing!Start(l).known = l.known /\ Organizing!Start(l).data = l.data
      /\ Organizing!Start(l).fetch = "sent" /\ Organizing!Start(l).by = l.by
  BY OrganizingStart
<1>4. \/ list' = list
      \/ list' = Organizing!Start(list) /\ Organizing!StatusOf(e) = "completed"
  BY DEF Organizing!Received, Organizing!Listed, Organizing!ListEnabled
<1>5. CASE list' = list
  BY <1>2, <1>5, OrganizingListAsked DEF OrganizingAsksList
<1>6. CASE list' = Organizing!Start(list) /\ Organizing!StatusOf(e) = "completed"
  <2>1. e.known /\ Organizing!ViewStatusByRecordingStatus[e.data.status] = "completed"
    BY <1>6 DEF Organizing!StatusOf
  <2>2. recording.status = "COMPLETED"
    BY <2>1, OrganizingStatus
  <2> QED
    BY <1>2, <1>3, <1>6, <2>2, OrganizingListAsked DEF OrganizingAsksList
<1> QED
  BY <1>4, <1>5, <1>6

\* The cached list: each step keeps what is said of it.
LEMMA OrganizingListNext ==
    ASSUME OrganizingInv, Organizing!Next
    PROVE  OrganizingList'
<1>1. OrganizingList /\ OrganizingDetail /\ OrganizingRest
  BY OrganizingParts
<1>2. PICK l \in Organizing!EntryOf(Made) : l = list /\ (l.by = "timer" => l.known)
  BY <1>1 DEF OrganizingList
<1>3. OrganizingMoves(Made, l)
  <2>1. l.by = "timer" => l.known
    BY <1>2
  <2> QED
    BY <2>1, OrganizingEntries
<1>4. CASE list' = list
  BY <1>2, <1>4, OrganizingListAsked DEF OrganizingAsksList
<1>5. ASSUME NEW r \in Organizing!Errors, list' = Organizing!Failed(list, r)
      PROVE  OrganizingList'
  BY <1>2, <1>3, <1>5, OrganizingListAsked DEF OrganizingAsksList, OrganizingMoves
<1>6. CASE /\ Organizing!ViewStatus = "completed"
           /\ list' = Organizing!Asked(list)
  <2>1. recording.status = "COMPLETED"
    BY <1>6, OrganizingViews
  <2> QED
    BY <1>2, <1>3, <1>6, <2>1, OrganizingListAsked DEF OrganizingAsksList, OrganizingMoves
<1>7. CASE Organizing!ListRead
  <2>1. PICK g \in Made \cup {Organizing!Unknown} : g = documents
    BY <1>1 DEF OrganizingRest, Organizing!Unknown
  <2>2. list' = [l EXCEPT !.fetch = "read", !.got = g]
    BY <1>2, <1>7, <2>1 DEF Organizing!ListRead
  <2>3. /\ list' \in Organizing!EntryOf(Made)
        /\ list'.known = l.known /\ list'.data = l.data /\ list'.by = l.by /\ list'.got = g
    BY <2>2 DEF Organizing!EntryOf
  <2>4. recording' = recording /\ documents' = documents /\ list.fetch = "sent"
    BY <1>7 DEF Organizing!ListRead, Organizing!server
  <2> QED
    BY <1>1, <1>2, <2>1, <2>3, <2>4 DEF OrganizingList
<1>8. CASE Organizing!ListAnswered
  <2>1. recording' = recording /\ documents' = documents /\ list.fetch = "read"
    BY <1>8 DEF Organizing!ListAnswered, Organizing!server
  <2>2. CASE list' = Organizing!Succeeded(l)
    <3>1. /\ list' \in Organizing!EntryOf(Made) /\ list'.known /\ list'.data = list.got
          /\ list'.fetch = "idle" /\ list'.by = "screen"
      BY <1>2, <1>3, <2>2 DEF OrganizingMoves
    <3> QED
      BY <1>1, <2>1, <3>1 DEF OrganizingList
  <2>3. CASE list' = Organizing!Failed(list, "unauthorized")
    BY <1>5, <2>3 DEF Organizing!Errors
  <2> QED
    BY <1>2, <1>8, <2>2, <2>3 DEF Organizing!ListAnswered
<1>9. CASE Organizing!ListLost
  BY <1>5, <1>9 DEF Organizing!ListLost, Organizing!ListFails, Organizing!Errors
<1>10. ASSUME NEW r \in Organizing!Errors, Organizing!Received(Organizing!Failed(detail, r))
      PROVE  OrganizingList'
  <2>1. PICK e : e = Organizing!Failed(detail, r)
    OBVIOUS
  <2>2. OrganizingMoves(Organizing!Recordings, detail)
    BY <1>1, OrganizingEntries DEF OrganizingDetail
  <2>3. e.known = detail.known /\ e.data = detail.data
    BY <2>1, <2>2 DEF OrganizingMoves
  <2>4. /\ e.known => e.data \in Organizing!Recordings
        /\ e.known /\ e.data.status = "COMPLETED" => recording.status = "COMPLETED"
    BY <1>1, <2>3, OrganizingViews DEF OrganizingDetail
  <2>5. Organizing!Received(e)
    BY <1>10, <2>1
  <2> QED
    BY <2>4, <2>5, OrganizingListed
<1>11. CASE Organizing!DetailAnswered
  <2>1. CASE detail.got = Organizing!Unknown
    BY <1>10, <1>11, <2>1 DEF Organizing!DetailAnswered, Organizing!Errors
  <2>2. CASE detail.got # Organizing!Unknown
    <3>1. PICK e : e = Organizing!Succeeded(detail)
      OBVIOUS
    <3>2. OrganizingMoves(Organizing!Recordings, detail)
      BY <1>1, OrganizingEntries DEF OrganizingDetail
    <3>3. e.data = detail.got
      BY <3>1, <3>2 DEF OrganizingMoves
    <3>4. detail.fetch = "read" /\ Organizing!Received(e)
      BY <1>11, <2>2, <3>1 DEF Organizing!DetailAnswered
    <3>5. /\ e.known => e.data \in Organizing!Recordings
          /\ e.known /\ e.data.status = "COMPLETED" => recording.status = "COMPLETED"
      BY <1>1, <2>2, <3>3, <3>4, OrganizingViews DEF OrganizingDetail
    <3> QED
      BY <3>4, <3>5, OrganizingListed
  <2> QED
    BY <2>1, <2>2
<1>12. CASE Organizing!DetailLost
  BY <1>10, <1>12 DEF Organizing!DetailLost, Organizing!DetailFails, Organizing!Errors
<1>13. CASE Organizing!Focus
  BY <1>4, <1>6, <1>13 DEF Organizing!Focus, Organizing!ListEnabled
<1>14. CASE Organizing!Back
  BY <1>4, <1>6, <1>14 DEF Organizing!Back, Organizing!ListEnabled
<1>15. CASE ~(Organizing!ListRead \/ Organizing!ListAnswered \/ Organizing!ListLost
              \/ Organizing!DetailAnswered \/ Organizing!DetailLost
              \/ Organizing!Focus \/ Organizing!Back)
  <2>1. list' = list
    BY <1>15 DEF Organizing!Next, Organizing!Ends, Organizing!Starts, Organizing!Finish,
       Organizing!Finishes, Organizing!RetriedElsewhere, Organizing!SessionEnds,
       Organizing!DetailRead, Organizing!Poll, Organizing!RetryLoad, Organizing!RetryAnswered,
       Organizing!RetryGeneration, Organizing!ServerRetries, Organizing!RetryFails,
       Organizing!GoHome, Organizing!Redirect, Organizing!OpenRecording,
       Organizing!StopRecording
  <2> QED
    BY <1>4, <2>1
<1> QED
  BY <1>7, <1>8, <1>9, <1>11, <1>12, <1>13, <1>14, <1>15

\* A screen that waits for documents: each step keeps its invariant.
LEMMA OrganizingNext ==
    ASSUME OrganizingInv, Organizing!Next
    PROVE  OrganizingInv'
<1>1. OrganizingRest' /\ OrganizingDetail' /\ OrganizingList'
  BY OrganizingRestNext, OrganizingDetailNext, OrganizingListNext
<1>2. OrganizingInv' <=> OrganizingRest' /\ OrganizingDetail' /\ OrganizingList'
  BY OrganizingParts, PTL
<1> QED
  BY <1>1, <1>2

\* It begins so.
LEMMA OrganizingInit == Organizing!Init => OrganizingInv
<1> SUFFICES ASSUME Organizing!Init PROVE OrganizingInv
  OBVIOUS
<1>1. OrganizingRest
  <2>1. recording \in Organizing!Recordings
    BY DEF Organizing!Init, Organizing!Recordings, Organizing!Stages
  <2>2. place \in OrganizingPlaces
    BY OrganizingAt DEF Organizing!Init, Organizing!RecordingDocumentsOf
  <2>3. OrganizingRetry(retry)
    BY OrganizingRetries DEF Organizing!Init
  <2>4. organizingSession \in BOOLEAN /\ behind \in BOOLEAN
    BY Zenon DEF Organizing!Init
  <2> QED
    BY <2>1, <2>2, <2>3, <2>4, OrganizingBounds DEF Organizing!Init, OrganizingRest
<1>2. Organizing!Empty \in Organizing!EntryOf(Made)
      /\ Organizing!Empty \in Organizing!EntryOf(Organizing!Recordings)
      /\ ~Organizing!Empty.known /\ Organizing!Empty.fetch = "idle"
      /\ Organizing!Empty.by = "screen"
  BY DEF Organizing!Empty, Organizing!EntryOf, Organizing!Errors
<1>3. OrganizingList
  BY <1>2 DEF Organizing!Init, OrganizingList
<1>4. OrganizingDetail
  <2>1. PICK e \in Organizing!EntryOf(Organizing!Recordings) :
           e = Organizing!Empty /\ ~e.known /\ e.by = "screen"
    BY <1>2
  <2>2. /\ Organizing!Start(e) \in Organizing!EntryOf(Organizing!Recordings)
        /\ Organizing!Start(e).known = e.known /\ Organizing!Start(e).data = e.data
        /\ Organizing!Start(e).fetch = "sent" /\ Organizing!Start(e).by = e.by
    BY OrganizingStart
  <2>3. detail = Organizing!Start(e)
    BY <2>1 DEF Organizing!Init
  <2> QED
    BY <2>1, <2>2, <2>3 DEF OrganizingDetail
<1> QED
  BY <1>1, <1>3, <1>4, OrganizingParts

\* What is loading was never had.
LEMMA OrganizingLoads ==
    OrganizingInv /\ Organizing!ViewStatus = "loading" => detail.by # "timer"
<1> SUFFICES ASSUME OrganizingInv, Organizing!ViewStatus = "loading", detail.known PROVE FALSE
  BY DEF OrganizingInv
<1>1. PICK s : s = detail.data.status
  OBVIOUS
<1>2. s \in {"RECORDING", "PAUSED", "ENDED", "PROCESSING", "COMPLETED", "NO_CONTENT", "FAILED"}
  <2>1. Results \subseteq {"COMPLETED", "NO_CONTENT", "FAILED"}
    BY FrontendAssumption DEF Organizing!RecordingDocumentsAssumption
  <2>2. detail.data \in Organizing!Recordings
    BY OrganizingViews
  <2> QED
    BY <1>1, <2>1, <2>2 DEF Organizing!Recordings
<1>3. Organizing!ViewStatusByRecordingStatus[s] = "loading"
  BY <1>1 DEF Organizing!ViewStatus
<1> QED
  BY <1>2, <1>3 DEF Organizing!ViewStatusByRecordingStatus

\* Where a screen at a completed recording is sent.
LEMMA OrganizingLeaves ==
    ASSUME OrganizingInv, Organizing!Redirect, Organizing!Shown,
           Organizing!ViewStatus = "completed"
    PROVE  \/ place' = Organizing!Login
           \/ documents # <<>> /\ place' = Organizing!Document(Head(documents))
           \/ place' = Organizing!Home /\ (documents = <<>> \/ list.error # "none")
<1>1. OrganizingList
  BY OrganizingParts
<1>2. PICK p \in Organizing!Sends(place) : place' = p
  BY DEF Organizing!Redirect, Organizing!GoTo
<1>3. p \in Organizing!ToLogin \/ p \in Organizing!Onwards
  BY <1>2 DEF Organizing!Sends, Organizing!Shown, Organizing!RecordingDocumentsOf,
     Organizing!Recording, Organizing!At
<1>4. CASE p \in Organizing!ToLogin
  BY <1>2, <1>4 DEF Organizing!ToLogin
<1>5. CASE p \in Organizing!Onwards
  <2>1. \/ list.known /\ list.data # <<>> /\ p = Organizing!Document(Head(list.data))
        \/ /\ ~(list.known /\ list.data # <<>>) /\ Organizing!IsDocumentListSettled
           /\ p = Organizing!Home
    BY <1>5 DEF Organizing!Onwards
  <2>2. list.known => list.data = documents
    BY <1>1 DEF OrganizingList
  <2> QED
    BY <1>2, <2>1, <2>2 DEF Organizing!IsDocumentListSettled
<1> QED
  BY <1>3, <1>4, <1>5

\* The screen at rest knows nothing, and needs to.
OrganizingPart == part = "organizing" => OrganizingInv

\* A step of the frontend is one of the screen, or leaves it alone.
LEMMA OrganizingStep ==
    ASSUME OrganizingPart, [Next]_vars
    PROVE  /\ OrganizingPart'
           /\ \/ OrganizingInv /\ OrganizingInv' /\ Organizing!Next
              \/ UNCHANGED Organizing!vars
<1>1. CASE Moves("organizing") /\ Organizing!Next
  BY <1>1, OrganizingNext DEF OrganizingPart, Moves
<1>2. CASE part' = part /\ UNCHANGED organizingVars
  <2>1. OrganizingInv => OrganizingInv'
    <3>1. /\ recording' = recording /\ documents' = documents
          /\ organizingSession' = organizingSession /\ recorder' = recorder /\ place' = place
          /\ behind' = behind /\ detail' = detail /\ list' = list /\ retry' = retry
          /\ generations' = generations /\ organizingFaults' = organizingFaults
      BY <1>2 DEF organizingVars
    <3> QED
      <4> SUFFICES ASSUME OrganizingInv PROVE OrganizingInv'
        OBVIOUS
      <4>1. OrganizingRest /\ OrganizingDetail /\ OrganizingList
        BY OrganizingParts
      <4>2. OrganizingRest'
        BY <3>1, <4>1 DEF OrganizingRest
      <4>3. OrganizingDetail'
        BY <3>1, <4>1 DEF OrganizingDetail
      <4>4. OrganizingList'
        BY <3>1, <4>1 DEF OrganizingList
      <4>5. (OrganizingInv <=> OrganizingRest /\ OrganizingDetail /\ OrganizingList)'
        BY OrganizingParts, PTL
      <4> QED
        BY <4>2, <4>3, <4>4, <4>5
  <2>2. UNCHANGED Organizing!vars
    BY <1>2 DEF organizingVars, Organizing!vars
  <2> QED
    BY <1>2, <2>1, <2>2 DEF OrganizingPart
<1>3. (Moves("organizing") /\ Organizing!Next) \/ (part' = part /\ UNCHANGED organizingVars)
  BY DEF Next, Moves, vars
<1> QED
  BY <1>1, <1>2, <1>3

\* A recording that made documents leads to the first of them, whatever is retried, lost or
\* answered late; and what could not be loaded is not asked for again by a timer
\* (useRecordingDocumentsRedirect, useRecordingQuery).
THEOREM OrganizingIsSafeCorrect == Spec => OrganizingIsSafe
<1> DEFINE Leaves ==
             (Organizing!Redirect /\ Organizing!Shown /\ Organizing!ViewStatus = "completed") =>
               \/ place' = Organizing!Login
               \/ documents # <<>> /\ place' = Organizing!Document(Head(documents))
               \/ place' = Organizing!Home /\ (documents = <<>> \/ list.error # "none")
           Stays ==
             (/\ Organizing!Shown /\ Organizing!Shown'
              /\ Organizing!ViewStatus = "loadFailed" /\ Organizing!ViewStatus' = "loading")
               => detail'.by # "timer"
<1>1. Init => OrganizingPart
  BY OrganizingInit DEF Init, OrganizingPart
<1>2. OrganizingPart /\ [Next]_vars => OrganizingPart'
  BY OrganizingStep
<1>3. OrganizingPart => (part = "organizing" => Organizing!TypeOK)
  BY DEF OrganizingPart, OrganizingInv
<1>4. OrganizingPart /\ [Next]_vars => [Leaves]_(Organizing!vars)
  BY OrganizingStep, OrganizingLeaves
<1>5. (OrganizingInv /\ Organizing!ViewStatus = "loading" => detail.by # "timer")'
  BY OrganizingLoads, PTL
<1>6. OrganizingPart /\ [Next]_vars => [Stays]_(Organizing!vars)
  BY <1>5, OrganizingStep
<1>7. Spec => /\ [](part = "organizing" => Organizing!TypeOK)
              /\ [][Leaves]_(Organizing!vars) /\ [][Stays]_(Organizing!vars)
  BY <1>1, <1>2, <1>3, <1>4, <1>6, PTL DEF Spec
<1>8. LeavesForItsFirstDocument <=> [][Leaves]_(Organizing!vars)
  BY DEF LeavesForItsFirstDocument, Organizing!LeavesForItsFirstDocument
<1>9. FailureStays <=> [][Stays]_(Organizing!vars)
  BY PTL DEF FailureStays, Organizing!FailureStays
<1> QED
  BY <1>7, <1>8, <1>9, PTL DEF OrganizingIsSafe

-----------------------------------------------------------------------------
(* The document on screen *)

\* How much may happen, and what the documents are.
LEMMA ViewerBounds ==
    /\ MaxViewerMoves \in Nat /\ MaxViewerFaults \in Nat
    /\ Viewer!None \notin Viewer!Ids
    /\ \A i \in DOMAIN Documents : Documents[i] \in Viewer!Ids
    /\ 1 \in DOMAIN Documents
BY FrontendAssumption DEF Viewer!DocumentViewerAssumption, Viewer!Ids, Viewer!Range, Viewer!None

\* What an entry of the query client is, and when it is drawn.
LEMMA ViewerEntry ==
    ASSUME NEW D, NEW e \in Viewer!EntryOf(D)
    PROVE  /\ e.known \in BOOLEAN /\ e.data \in D \cup {<<>>} /\ e.fetching \in BOOLEAN
           /\ e.error \in {"none", "unauthorized", "unavailable", "other"}
           /\ Viewer!Status(e) = "ready" <=> e.known /\ e.error # "unavailable"
           /\ e.error = "unavailable" => Viewer!Status(e) = "error"
BY DEF Viewer!EntryOf, Viewer!Status, Viewer!IsUnavailableError

\* Asking keeps what is known, and forgets a failure only where nothing is.
LEMMA ViewerStart ==
    ASSUME NEW D, NEW e \in Viewer!EntryOf(D)
    PROVE  /\ Viewer!Start(e) \in Viewer!EntryOf(D)
           /\ Viewer!Start(e).known = e.known /\ Viewer!Start(e).data = e.data
           /\ Viewer!Start(e).fetching = TRUE
           /\ e.known => Viewer!Start(e).error = e.error
           /\ Viewer!Status(Viewer!Start(e)) = "ready" <=> Viewer!Status(e) = "ready"
<1>1. /\ Viewer!Start(e) \in Viewer!EntryOf(D)
      /\ Viewer!Start(e).known = e.known /\ Viewer!Start(e).data = e.data
      /\ Viewer!Start(e).fetching = TRUE
      /\ e.known => Viewer!Start(e).error = e.error
  BY DEF Viewer!EntryOf, Viewer!Start
<1>2. PICK f \in Viewer!EntryOf(D) : f = Viewer!Start(e)
  BY <1>1
<1>3. Viewer!Status(f) = "ready" <=> f.known /\ f.error # "unavailable"
  BY ViewerEntry
<1> QED
  BY <1>1, <1>2, <1>3, ViewerEntry

\* A failure keeps what is known.
LEMMA ViewerFailed ==
    ASSUME NEW D, NEW e \in Viewer!EntryOf(D),
           NEW error \in {"unauthorized", "unavailable", "other"}
    PROVE  /\ Viewer!Failed(e, error) \in Viewer!EntryOf(D)
           /\ Viewer!Failed(e, error).known = e.known /\ Viewer!Failed(e, error).data = e.data
           /\ Viewer!Failed(e, error).error = error
BY DEF Viewer!EntryOf, Viewer!Failed

\* A success brings the data.
LEMMA ViewerSucceeded ==
    ASSUME NEW D, NEW x \in D
    PROVE  /\ Viewer!Succeeded(x) \in Viewer!EntryOf(D)
           /\ Viewer!Succeeded(x).known /\ Viewer!Succeeded(x).data = x
           /\ Viewer!Succeeded(x).error = "none"
BY DEF Viewer!EntryOf, Viewer!Succeeded, Viewer!Empty

\* In the beginning nothing is known.
LEMMA ViewerEmpty ==
    ASSUME NEW D
    PROVE  Viewer!Empty \in Viewer!EntryOf(D) /\ ~Viewer!Empty.known
BY DEF Viewer!EntryOf, Viewer!Empty

ViewerLists == {Viewer!InOrder(s) : s \in SUBSET Viewer!Ids}
ViewerConfirmations ==
    [document: Viewer!Ids \cup {Viewer!None}, stage: {"idle", "sent", "handled", "refreshing"},
     outcome: {"none", "ok", "conflict", "unauthorized"}, awaits: SUBSET {"page", "members"}]
ViewerCopies ==
    [document: Viewer!Ids \cup {Viewer!None}, stage: {"idle", "writing", "marked"}]

\* The server, and what was said of the documents.
ViewerRest ==
    /\ offered \subseteq Viewer!Ids /\ others \subseteq Viewer!Ids /\ viewerSession \in BOOLEAN
    /\ mine \in [Viewer!Ids -> Viewer!MyConfirmationState]
    /\ sure \subseteq Viewer!Ids /\ told \subseteq Viewer!Ids /\ empty \subseteq Viewer!Ids
    /\ viewerMoves \in 0..MaxViewerMoves /\ viewerFaults \in 0..MaxViewerFaults
    /\ \A d \in Viewer!Ids : Viewer!NobodyOf(d) => d \in empty

\* The pages, and the list of them.
ViewerPages ==
    /\ shown \in Viewer!Ids \cup {Viewer!None}
    /\ pages \in [Viewer!Ids -> Viewer!EntryOf(Viewer!PageData)]
    /\ \A d \in Viewer!Ids : pages[d].known => pages[d].data # <<>>
    /\ documentList \in Viewer!EntryOf(ViewerLists)
    /\ documentList.known => documentList.data \in ViewerLists

\* A mark is of the page that is drawn.
ViewerCopy ==
    /\ copy \in ViewerCopies
    /\ copy.document # Viewer!None => copy.document = shown /\ Viewer!View = "ready"
    /\ copy.document = Viewer!None => copy.stage = "idle"

\* What is known of a document's confirmations was so.
ViewerMembers ==
    /\ members \in [Viewer!Ids -> Viewer!EntryOf({<<"somebody">>})]
    /\ \A d \in Viewer!Ids : members[d].known /\ members[d].data = <<>> => d \in empty

\* A confirmation is of a document; one that was accepted stays with the server.
ViewerConfirming ==
    /\ confirming \in ViewerConfirmations
    /\ (confirming.stage = "refreshing") = (confirming.awaits # {})
    /\ confirming.stage # "idle" => confirming.document \in Viewer!Ids
    /\ confirming.stage = "handled" /\ confirming.outcome = "ok"
         => mine[confirming.document] = "CONFIRMED"

\* The page of a document that was confirmed says so, or says nothing, or is waited for.
ViewerKnows(e) ==
    e.known => e.data.mine = "CONFIRMED" \/ e.error \in {"unavailable", "unauthorized"}
ViewerAwaited(d) ==
    confirming.document = d /\ confirming.stage = "refreshing" /\ "page" \in confirming.awaits
ViewerSure ==
    shown \in sure => /\ mine[shown] = "CONFIRMED"
                      /\ ViewerKnows(pages[shown]) \/ ViewerAwaited(shown)

ViewerInv ==
    /\ ViewerRest /\ ViewerPages /\ ViewerCopy /\ ViewerMembers /\ ViewerConfirming /\ ViewerSure

\* The invariant has the variables' types with it.
LEMMA ViewerTypes == ViewerInv => Viewer!TypeOK
<1> SUFFICES ASSUME ViewerInv PROVE Viewer!TypeOK
  OBVIOUS
<1>1. \A d \in Viewer!Ids :
        pages[d] \in Viewer!EntryOf(Viewer!PageData) /\ (pages[d].known => pages[d].data # <<>>)
  BY DEF ViewerInv, ViewerPages
<1> QED
  BY <1>1 DEF Viewer!TypeOK, ViewerInv, ViewerRest, ViewerPages, ViewerCopy, ViewerMembers,
     ViewerConfirming, ViewerLists, ViewerConfirmations, ViewerCopies

\* It begins so.
LEMMA ViewerInit == Viewer!Init => ViewerInv
<1> SUFFICES ASSUME Viewer!Init PROVE ViewerInv
  OBVIOUS
<1>0. shown = Documents[1] /\ shown \in Viewer!Ids /\ shown # Viewer!None
  BY ViewerBounds DEF Viewer!Init
<1>1. ViewerRest
  <2>1. viewerSession \in BOOLEAN
    BY Zenon DEF Viewer!Init
  <2>2. mine \in [Viewer!Ids -> Viewer!MyConfirmationState]
    BY DEF Viewer!Init, Viewer!MyConfirmationState
  <2> QED
    BY <2>1, <2>2, ViewerBounds DEF Viewer!Init, ViewerRest
<1>2. ViewerPages
  <2>1. Viewer!Empty \in Viewer!EntryOf(Viewer!PageData)
        /\ Viewer!Empty \in Viewer!EntryOf(ViewerLists) /\ ~Viewer!Empty.known
    BY ViewerEmpty
  <2>2. /\ Viewer!Start(Viewer!Empty) \in Viewer!EntryOf(Viewer!PageData)
        /\ ~Viewer!Start(Viewer!Empty).known
    BY <2>1, ViewerStart
  <2>3. pages = [d \in Viewer!Ids |-> IF d = shown THEN Viewer!Start(Viewer!Empty)
                                      ELSE Viewer!Empty]
        /\ documentList = Viewer!Empty
    BY DEF Viewer!Init
  <2> QED
    BY <1>0, <2>1, <2>2, <2>3 DEF ViewerPages
<1>3. ViewerCopy
  BY DEF Viewer!Init, Viewer!NoCopy, ViewerCopy, ViewerCopies
<1>4. ViewerMembers
  BY ViewerEmpty DEF Viewer!Init, ViewerMembers
<1>5. ViewerConfirming
  BY DEF Viewer!Init, Viewer!NoConfirmation, ViewerConfirming, ViewerConfirmations
<1>6. ViewerSure
  BY DEF Viewer!Init, ViewerSure
<1> QED
  BY <1>1, <1>2, <1>3, <1>4, <1>5, <1>6 DEF ViewerInv

\* A sequence of the documents in s, in order.
ViewerOrdered(t, s) ==
    /\ t \in [1..Cardinality(s) -> s]
    /\ \A i, j \in DOMAIN t : i < j => Viewer!Before(t[i], t[j])

\* The documents up to the n-th.
ViewerFirst(n) == {Documents[i] : i \in 1..n}

\* One more document goes to the end.
LEMMA ViewerOrderedMore ==
    ASSUME NEW n \in 1..Len(Documents), NEW s \in SUBSET ViewerFirst(n),
           \A u \in SUBSET ViewerFirst(n - 1) : IsFiniteSet(u) /\ \E t : ViewerOrdered(t, u)
    PROVE  IsFiniteSet(s) /\ \E t : ViewerOrdered(t, s)
<1>0. Len(Documents) \in Nat /\ DOMAIN Documents = 1..Len(Documents)
  BY FrontendAssumption, LenProperties DEF Viewer!DocumentViewerAssumption
<1> DEFINE x == Documents[n]
           u == s \ {x}
<1>1. u \in SUBSET ViewerFirst(n - 1)
  BY <1>0 DEF ViewerFirst
<1>2. IsFiniteSet(u)
  BY <1>1
<1>3. PICK t : ViewerOrdered(t, u)
  BY <1>1
<1>4. CASE x \notin s
  BY <1>2, <1>3, <1>4
<1>5. CASE x \in s
  <2>1. s = u \cup {x} /\ x \notin u
    BY <1>5
  <2> DEFINE c == Cardinality(u)
  <2>2. IsFiniteSet(s) /\ Cardinality(s) = c + 1 /\ c \in Nat
    <3> HIDE DEF u, x
    <3>1. IsFiniteSet(u \cup {x}) /\ Cardinality(u \cup {x}) = Cardinality(u) + 1
      BY <1>2, <2>1, FS_AddElement
    <3> QED
      BY <1>2, <2>1, <3>1, FS_CardinalityType
  <2>3. \A d \in u : Viewer!Before(d, x)
    <3> TAKE d \in u
    <3>1. PICK i \in 1..(n - 1) : d = Documents[i]
      BY <1>1 DEF ViewerFirst
    <3> QED
      BY <1>0, <3>1 DEF Viewer!Before
  <2>4. /\ t \in [1..c -> u]
        /\ \A i, j \in 1..c : i < j => Viewer!Before(t[i], t[j])
    BY <1>3 DEF ViewerOrdered
  <2> HIDE DEF x, u, c
  <2>5. ViewerOrdered([i \in 1..(c + 1) |-> IF i = c + 1 THEN x ELSE t[i]], s)
    <3> DEFINE r == [i \in 1..(c + 1) |-> IF i = c + 1 THEN x ELSE t[i]]
    <3>1. \A i \in 1..(c + 1) : i # c + 1 => i \in 1..c
      BY <2>2
    <3>2. r \in [1..(c + 1) -> s]
      BY <2>1, <2>4, <3>1
    <3>3. ASSUME NEW i \in 1..(c + 1), NEW j \in 1..(c + 1), i < j
          PROVE  Viewer!Before(r[i], r[j])
      <4>1. i # c + 1 /\ i \in 1..c /\ r[i] = t[i]
        BY <2>2, <3>3
      <4>2. CASE j = c + 1
        BY <2>3, <2>4, <4>1, <4>2
      <4>3. CASE j # c + 1
        BY <2>4, <3>1, <3>3, <4>1, <4>3
      <4> QED
        BY <4>2, <4>3
    <3> HIDE DEF r
    <3>4. DOMAIN r = 1..(c + 1)
      BY <3>2
    <3> QED
      BY <2>2, <3>2, <3>3, <3>4 DEF ViewerOrdered, r
  <2> QED
    BY <2>2, <2>5
<1> QED
  BY <1>4, <1>5

\* Any of the documents can be put in order.
LEMMA ViewerOrders ==
    ASSUME NEW s \in SUBSET Viewer!Ids
    PROVE  \E t : ViewerOrdered(t, s)
<1>0. Len(Documents) \in Nat /\ DOMAIN Documents = 1..Len(Documents)
  BY FrontendAssumption, LenProperties DEF Viewer!DocumentViewerAssumption
<1> DEFINE Can(n) == \A u \in SUBSET ViewerFirst(n) : IsFiniteSet(u) /\ \E t : ViewerOrdered(t, u)
           cannot == {n \in 0..Len(Documents) : ~Can(n)}
<1>1. cannot = {}
  <2> SUFFICES ASSUME cannot # {} PROVE FALSE
    OBVIOUS
  <2>1. PICK n \in cannot : \A m \in cannot : ~(<<m, n>> \in OpToRel(<, Nat))
    <3>1. cannot \subseteq Nat
      BY <1>0
    <3> HIDE DEF cannot
    <3> QED
      BY <3>1, NatLessThanWellFounded, WFMin
  <2>2. n \in 0..Len(Documents) /\ ~Can(n)
    OBVIOUS
  <2>3. n # 0
    <3>1. ViewerFirst(0) = {}
      BY DEF ViewerFirst
    <3>2. ViewerOrdered([i \in 1..0 |-> 0], {}) /\ IsFiniteSet({})
      BY FS_EmptySet DEF ViewerOrdered
    <3>3. Can(0)
      BY <3>1, <3>2
    <3> QED
      BY <2>2, <3>3
  <2>4. Can(n - 1)
    <3>1. n - 1 \in 0..Len(Documents) /\ n \in Nat /\ n - 1 \in Nat /\ n - 1 < n
      BY <1>0, <2>2, <2>3
    <3>2. <<n - 1, n>> \in OpToRel(<, Nat)
      BY <3>1 DEF OpToRel
    <3> QED
      BY <2>1, <3>1, <3>2
  <2>5. n \in 1..Len(Documents)
    BY <1>0, <2>2, <2>3
  <2>6. Can(n)
    BY <2>4, <2>5, ViewerOrderedMore
  <2> QED
    BY <2>2, <2>6
<1>2. s \in SUBSET ViewerFirst(Len(Documents))
  BY <1>0 DEF ViewerFirst, Viewer!Ids, Viewer!Range
<1>3. Can(Len(Documents))
  BY <1>0, <1>1
<1> QED
  BY <1>2, <1>3

\* What the server sends is in order.
LEMMA ViewerListed ==
    ASSUME NEW s \in SUBSET Viewer!Ids
    PROVE  ViewerOrdered(Viewer!InOrder(s), s)
<1>1. Viewer!Cardinality(s) = Cardinality(s)
  BY DEF Viewer!Cardinality, Cardinality
<1> DEFINE Fits(t) == /\ t \in [1..Cardinality(s) -> s]
                      /\ \A i, j \in DOMAIN t : i < j => Viewer!Before(t[i], t[j])
<1>2. PICK t : Fits(t)
  BY ViewerOrders DEF ViewerOrdered
<1>3. Viewer!InOrder(s) = CHOOSE u \in [1..Cardinality(s) -> s] :
                             \A i, j \in DOMAIN u : i < j => Viewer!Before(u[i], u[j])
  BY <1>1 DEF Viewer!InOrder
<1> QED
  BY <1>2, <1>3 DEF ViewerOrdered

\* A document of the list is one of the recording.
LEMMA ViewerSteps ==
    ASSUME ViewerPages, Viewer!StepperShown
    PROVE  /\ documentList.known
           /\ \E s \in SUBSET Viewer!Ids : ViewerOrdered(Viewer!DocumentIds, s)
           /\ Viewer!CurrentIndex \in DOMAIN Viewer!DocumentIds
           /\ Viewer!DocumentIds[Viewer!CurrentIndex] = shown
           /\ shown \in Viewer!Ids
           /\ \A i \in DOMAIN Viewer!DocumentIds : Viewer!DocumentIds[i] \in Viewer!Ids
<1>1. shown \in Viewer!Range(Viewer!DocumentIds)
  BY DEF Viewer!StepperShown, Viewer!CurrentIndex
<1>2. PICK i \in DOMAIN Viewer!DocumentIds : Viewer!DocumentIds[i] = shown
  BY <1>1 DEF Viewer!Range
<1>3. documentList.known
  BY <1>2 DEF Viewer!DocumentIds
<1>4. PICK s \in SUBSET Viewer!Ids : Viewer!DocumentIds = Viewer!InOrder(s)
  BY <1>3 DEF ViewerPages, ViewerLists, Viewer!DocumentIds
<1>5. ViewerOrdered(Viewer!DocumentIds, s)
  BY <1>4, ViewerListed
<1>6. \A j \in DOMAIN Viewer!DocumentIds : Viewer!DocumentIds[j] \in Viewer!Ids
  BY <1>5 DEF ViewerOrdered
<1> QED
  BY <1>1, <1>2, <1>3, <1>5, <1>6 DEF Viewer!CurrentIndex

\* What may become of the pages, and of what is drawn of them.
ViewerAsks == \E d \in Viewer!Ids : pages' = [pages EXCEPT ![d] = Viewer!Start(pages[d])]
ViewerReceives(d, e) ==
    /\ Viewer!PageReceived(d, e) /\ shown' = shown
    /\ \/ e.known /\ e = Viewer!Succeeded([mine |-> mine[d]])
       \/ \E x \in {"unauthorized", "unavailable", "other"} : e = Viewer!Failed(pages[d], x)

\* An answer is received.
LEMMA ViewerAnswers ==
    ASSUME NEW d \in Viewer!Ids, Viewer!PageAnswered(d)
    PROVE  \E e : ViewerReceives(d, e)
<1> DEFINE e == CASE ~viewerSession -> Viewer!Failed(pages[d], "unauthorized")
                  [] viewerSession /\ d \notin offered -> Viewer!Failed(pages[d], "unavailable")
                  [] OTHER -> Viewer!Succeeded([mine |-> mine[d]])
<1>1. Viewer!PageReceived(d, e) /\ shown' = shown
  BY DEF Viewer!PageAnswered
<1>2. ViewerReceives(d, e)
  BY <1>1 DEF ViewerReceives, Viewer!Succeeded, Viewer!Empty
<1> HIDE DEF e
<1> QED
  BY <1>2

\* So is a failure.
LEMMA ViewerFails ==
    ASSUME NEW d \in Viewer!Ids, Viewer!PageFails(d)
    PROVE  \E e : ViewerReceives(d, e)
<1>1. Viewer!PageReceived(d, Viewer!Failed(pages[d], "other")) /\ shown' = shown
  BY DEF Viewer!PageFails
<1>2. ViewerReceives(d, Viewer!Failed(pages[d], "other"))
  BY <1>1 DEF ViewerReceives
<1> QED
  BY <1>2

\* What a step does to the pages, the address and the list.
LEMMA ViewerPageEffects ==
    ASSUME ViewerInv, Viewer!Next
    PROVE  /\ \/ pages' = pages
              \/ ViewerAsks
              \/ \E d \in Viewer!Ids : \E e : ViewerReceives(d, e)
           /\ shown' \in {shown, Viewer!None} \cup Viewer!Ids
           /\ documentList' \in {documentList, Viewer!Start(documentList),
                                 Viewer!Failed(documentList, "unauthorized"),
                                 Viewer!Succeeded(Viewer!InOrder(offered))}
<1> USE DEF Viewer!vars, Viewer!server, Viewer!caches, Viewer!history
<1>1. CASE \E d \in Viewer!Ids :
             \/ Viewer!DocumentGoes(d) \/ Viewer!OthersChange(d)
             \/ Viewer!MembersAnswered(d) \/ Viewer!MembersFails(d)
  BY <1>1 DEF Viewer!DocumentGoes, Viewer!OthersChange, Viewer!MembersAnswered,
     Viewer!MembersFails, Viewer!MembersReceived
<1>2. CASE \E d \in Viewer!Ids : Viewer!PageAnswered(d) \/ Viewer!PageFails(d)
  <2>0. PICK d \in Viewer!Ids : \E e : ViewerReceives(d, e)
    BY <1>2, ViewerAnswers, ViewerFails
  <2>1. PICK e : ViewerReceives(d, e)
    BY <2>0
  <2>2. shown' = shown /\ documentList' \in {documentList, Viewer!Start(documentList)}
    BY <2>1 DEF ViewerReceives, Viewer!PageReceived, Viewer!Drawn
  <2> QED
    BY <2>1, <2>2
<1>3. CASE Viewer!ListAnswered
  BY <1>3 DEF Viewer!ListAnswered
<1>4. CASE Viewer!Steps
  <2>1. PICK offset \in {-1, 1} : Viewer!Step(offset)
    BY <1>4 DEF Viewer!Steps
  <2>2. PICK d \in Viewer!Ids : Viewer!GoTo(d)
    BY <2>1, ViewerSteps DEF Viewer!Step, ViewerInv
  <2> QED
    BY <2>2 DEF Viewer!GoTo, ViewerAsks
<1>5. CASE Viewer!Refetch \/ Viewer!RetryLoad
  <2>1. shown \in Viewer!Ids
    BY <1>5 DEF Viewer!Refetch, Viewer!RetryLoad, Viewer!Open, ViewerInv, ViewerPages
  <2> QED
    BY <1>5, <2>1 DEF Viewer!Refetch, Viewer!RetryLoad, ViewerAsks
<1>6. CASE Viewer!ConfirmAnswered
  <2>1. confirming.document \in Viewer!Ids
    BY <1>6 DEF Viewer!ConfirmAnswered, ViewerInv, ViewerConfirming
  <2>2. pages' = pages \/ ViewerAsks
    BY <1>6, <2>1 DEF Viewer!ConfirmAnswered, ViewerAsks
  <2> QED
    BY <1>6, <2>2 DEF Viewer!ConfirmAnswered
<1>7. CASE \/ Viewer!SessionEnds \/ Viewer!RetryIfFailed \/ Viewer!Copy \/ Viewer!CopySucceeds
           \/ Viewer!CopyTimesOut \/ Viewer!Confirm \/ Viewer!ServerConfirms
           \/ Viewer!ConfirmFails \/ Viewer!ToLogin
  BY <1>7 DEF Viewer!SessionEnds, Viewer!RetryIfFailed, Viewer!Copy, Viewer!CopySucceeds,
     Viewer!CopyTimesOut, Viewer!Confirm, Viewer!ServerConfirms, Viewer!ConfirmFails,
     Viewer!ToLogin
<1> QED
  BY <1>1, <1>2, <1>3, <1>4, <1>5, <1>6, <1>7 DEF Viewer!Next

\* What is received is an entry.
LEMMA ViewerReceived ==
    ASSUME ViewerInv, NEW d \in Viewer!Ids, NEW e, ViewerReceives(d, e)
    PROVE  /\ e \in Viewer!EntryOf(Viewer!PageData) /\ (e.known => e.data # <<>>)
           /\ \/ e.known /\ e.data = [mine |-> mine[d]] /\ e.error = "none"
              \/ /\ e.known = pages[d].known /\ e.data = pages[d].data
                 /\ \/ e.error \in {"unauthorized", "unavailable"}
                    \/ e = Viewer!Failed(pages[d], "other")
<1>1. pages[d] \in Viewer!EntryOf(Viewer!PageData) /\ (pages[d].known => pages[d].data # <<>>)
  BY DEF ViewerInv, ViewerPages
<1>2. CASE e = Viewer!Succeeded([mine |-> mine[d]])
  <2>1. [mine |-> mine[d]] \in Viewer!PageData
    BY DEF ViewerInv, ViewerRest, Viewer!PageData
  <2>2. [mine |-> mine[d]] # <<>>
    <3>1. DOMAIN [mine |-> mine[d]] = {"mine"} /\ DOMAIN <<>> = {}
      OBVIOUS
    <3> QED
      BY <3>1
  <2> QED
    BY <1>2, <2>1, <2>2, ViewerSucceeded
<1>3. ASSUME NEW x \in {"unauthorized", "unavailable", "other"}, e = Viewer!Failed(pages[d], x)
      PROVE  /\ e \in Viewer!EntryOf(Viewer!PageData) /\ e.known = pages[d].known
             /\ e.data = pages[d].data /\ e.error = x
  BY <1>1, <1>3, ViewerFailed
<1> QED
  BY <1>1, <1>2, <1>3 DEF ViewerReceives

\* The pages and the list stay what they are.
LEMMA ViewerPagesNext ==
    ASSUME ViewerInv, Viewer!Next
    PROVE  ViewerPages'
<1>0. ViewerPages
  BY DEF ViewerInv
<1>1. shown' \in Viewer!Ids \cup {Viewer!None}
  BY <1>0, ViewerPageEffects DEF ViewerPages
<1>2. /\ pages' \in [Viewer!Ids -> Viewer!EntryOf(Viewer!PageData)]
      /\ \A d \in Viewer!Ids : pages'[d].known => pages'[d].data # <<>>
  <2>1. CASE pages' = pages
    BY <1>0, <2>1 DEF ViewerPages
  <2>2. CASE ViewerAsks
    <3>1. PICK d \in Viewer!Ids : pages' = [pages EXCEPT ![d] = Viewer!Start(pages[d])]
      BY <2>2 DEF ViewerAsks
    <3>2. /\ Viewer!Start(pages[d]) \in Viewer!EntryOf(Viewer!PageData)
          /\ Viewer!Start(pages[d]).known = pages[d].known
          /\ Viewer!Start(pages[d]).data = pages[d].data
      BY <1>0, ViewerStart DEF ViewerPages
    <3> QED
      BY <1>0, <3>1, <3>2 DEF ViewerPages
  <2>3. CASE \E d \in Viewer!Ids : \E e : ViewerReceives(d, e)
    <3>0. PICK d \in Viewer!Ids : \E e : ViewerReceives(d, e)
      BY <2>3
    <3>1. PICK e : ViewerReceives(d, e)
      BY <3>0
    <3>2. e \in Viewer!EntryOf(Viewer!PageData) /\ (e.known => e.data # <<>>)
      BY <3>1, ViewerReceived
    <3>3. pages' = [pages EXCEPT ![d] = e]
      BY <3>1 DEF ViewerReceives, Viewer!PageReceived
    <3> QED
      BY <1>0, <3>2, <3>3 DEF ViewerPages
  <2> QED
    BY <2>1, <2>2, <2>3, ViewerPageEffects
<1>3. /\ documentList' \in Viewer!EntryOf(ViewerLists)
      /\ documentList'.known => documentList'.data \in ViewerLists
  <2>1. PICK l \in Viewer!EntryOf(ViewerLists) : l = documentList /\ (l.known => l.data \in ViewerLists)
    BY <1>0 DEF ViewerPages
  <2>2. /\ Viewer!Start(l) \in Viewer!EntryOf(ViewerLists)
        /\ Viewer!Start(l).known = l.known /\ Viewer!Start(l).data = l.data
    BY ViewerStart
  <2>3. /\ Viewer!Failed(l, "unauthorized") \in Viewer!EntryOf(ViewerLists)
        /\ Viewer!Failed(l, "unauthorized").known = l.known
        /\ Viewer!Failed(l, "unauthorized").data = l.data
    BY ViewerFailed
  <2>4. Viewer!InOrder(offered) \in ViewerLists
    BY DEF ViewerLists, ViewerInv, ViewerRest
  <2>5. /\ Viewer!Succeeded(Viewer!InOrder(offered)) \in Viewer!EntryOf(ViewerLists)
        /\ Viewer!Succeeded(Viewer!InOrder(offered)).data = Viewer!InOrder(offered)
    BY <2>4, ViewerSucceeded
  <2> QED
    BY <2>1, <2>2, <2>3, <2>4, <2>5, ViewerPageEffects
<1> QED
  BY <1>1, <1>2, <1>3 DEF ViewerPages

\* Asking again takes nothing off the screen, and draws nothing on it.
LEMMA ViewerViewKept ==
    ASSUME ViewerPages, shown' = shown, pages' = pages \/ ViewerAsks
    PROVE  Viewer!View' = "ready" <=> Viewer!View = "ready"
<1>1. CASE pages' = pages
  BY <1>1 DEF Viewer!View
<1>2. CASE ViewerAsks
  <2>1. PICK d \in Viewer!Ids : pages' = [pages EXCEPT ![d] = Viewer!Start(pages[d])]
    BY <1>2 DEF ViewerAsks
  <2>2. CASE shown = Viewer!None
    BY <2>2 DEF Viewer!View
  <2>3. CASE shown # Viewer!None
    <3>1. shown \in Viewer!Ids /\ pages[shown] \in Viewer!EntryOf(Viewer!PageData)
      BY <2>3 DEF ViewerPages
    <3>2. Viewer!Status(Viewer!Start(pages[shown])) = "ready"
            <=> Viewer!Status(pages[shown]) = "ready"
      BY <3>1, ViewerStart
    <3>3. pages'[shown] \in {pages[shown], Viewer!Start(pages[shown])}
      BY <2>1, <3>1 DEF ViewerPages
    <3>4. PICK e : e = pages'[shown]
      OBVIOUS
    <3>5. Viewer!Status(e) = "ready" <=> Viewer!Status(pages[shown]) = "ready"
      BY <3>2, <3>3, <3>4
    <3>6. Viewer!View' = Viewer!Status(e) /\ Viewer!View = Viewer!Status(pages[shown])
      BY <2>3, <3>4 DEF Viewer!View
    <3> QED
      BY <3>5, <3>6
  <2> QED
    BY <2>2, <2>3
<1> QED
  BY <1>1, <1>2

\* A mark stays with its page.
LEMMA ViewerCopyNext ==
    ASSUME ViewerInv, Viewer!Next
    PROVE  ViewerCopy'
<1> USE DEF Viewer!vars, Viewer!server, Viewer!caches, Viewer!history
<1>0. ViewerPages /\ ViewerCopy /\ ViewerConfirming
  BY DEF ViewerInv
<1>1. CASE copy' = Viewer!NoCopy
  BY <1>1 DEF ViewerCopy, ViewerCopies, Viewer!NoCopy
<1>2. CASE copy' = copy /\ shown' = shown /\ (pages' = pages \/ ViewerAsks)
  <2>1. Viewer!View' = "ready" <=> Viewer!View = "ready"
    BY <1>0, <1>2, ViewerViewKept
  <2> QED
    BY <1>0, <1>2, <2>1 DEF ViewerCopy
<1>3. CASE Viewer!Copy
  <2>1. Viewer!View' = "ready" <=> Viewer!View = "ready"
    BY <1>0, <1>3, ViewerViewKept DEF Viewer!Copy
  <2>2. shown \in Viewer!Ids /\ Viewer!View = "ready"
    BY <1>0, <1>3 DEF Viewer!Copy, Viewer!Open, ViewerPages
  <2> QED
    BY <1>3, <2>1, <2>2, ViewerBounds DEF Viewer!Copy, ViewerCopy, ViewerCopies
<1>4. CASE Viewer!CopySucceeds
  <2>1. Viewer!View' = "ready" <=> Viewer!View = "ready"
    BY <1>0, <1>4, ViewerViewKept DEF Viewer!CopySucceeds
  <2>2. copy' \in ViewerCopies /\ copy'.document = copy.document /\ copy.stage = "writing"
    BY <1>0, <1>4 DEF Viewer!CopySucceeds, ViewerCopy, ViewerCopies
  <2> QED
    BY <1>0, <1>4, <2>1, <2>2 DEF Viewer!CopySucceeds, ViewerCopy
<1>5. ASSUME NEW d \in Viewer!Ids, NEW e, ViewerReceives(d, e)
      PROVE  ViewerCopy'
  <2>1. shown' = shown /\ pages' = [pages EXCEPT ![d] = e]
        /\ copy' = IF shown = d THEN Viewer!CopyOf(copy, d, Viewer!Status(e)) ELSE copy
    BY <1>5 DEF ViewerReceives, Viewer!PageReceived, Viewer!Drawn
  <2>2. CASE shown = d
    <3>1. Viewer!View' = Viewer!Status(e)
      BY <1>0, <2>1, <2>2, ViewerBounds DEF Viewer!View, ViewerPages
    <3> QED
      BY <1>0, <2>1, <2>2, <3>1 DEF Viewer!CopyOf, Viewer!NoCopy, ViewerCopy, ViewerCopies
  <2>3. CASE shown # d
    <3>1. Viewer!View' = Viewer!View
      BY <1>0, <2>1, <2>3 DEF Viewer!View, ViewerPages
    <3> QED
      BY <1>0, <2>1, <2>3, <3>1 DEF ViewerCopy
  <2> QED
    BY <2>2, <2>3
<1>6. ASSUME NEW d \in Viewer!Ids, Viewer!GoTo(d)
      PROVE  ViewerCopy'
  <2>1. PICK e \in Viewer!EntryOf(Viewer!PageData) : e = pages[d]
    BY <1>0 DEF ViewerPages
  <2>2. Viewer!Status(Viewer!Start(e)) = "ready" <=> Viewer!Status(e) = "ready"
    BY ViewerStart
  <2>3. shown' = d /\ pages'[d] = Viewer!Start(e)
        /\ copy' = Viewer!CopyOf(copy, d, Viewer!Status(e))
    BY <1>0, <1>6, <2>1 DEF Viewer!GoTo, ViewerPages
  <2>4. Viewer!View' = Viewer!Status(Viewer!Start(e))
    BY <2>3, ViewerBounds DEF Viewer!View
  <2> QED
    BY <1>0, <2>2, <2>3, <2>4 DEF Viewer!CopyOf, Viewer!NoCopy, ViewerCopy, ViewerCopies
<1>7. CASE \E d \in Viewer!Ids : Viewer!PageAnswered(d) \/ Viewer!PageFails(d)
  <2>1. PICK d \in Viewer!Ids : Viewer!PageAnswered(d) \/ Viewer!PageFails(d)
    BY <1>7
  <2>2. PICK e : ViewerReceives(d, e)
    <3>1. CASE Viewer!PageAnswered(d)
      BY <3>1, ViewerAnswers
    <3>2. CASE Viewer!PageFails(d)
      BY <3>2, ViewerFails
    <3> QED
      BY <2>1, <3>1, <3>2
  <2> QED
    BY <1>5, <2>2
<1>8. CASE Viewer!Steps
  BY <1>0, <1>6, <1>8, ViewerSteps DEF Viewer!Steps, Viewer!Step
<1>9. CASE Viewer!ConfirmAnswered
  <2>1. confirming.document \in Viewer!Ids
    BY <1>0, <1>9 DEF Viewer!ConfirmAnswered, ViewerConfirming
  <2>2. pages' = pages \/ ViewerAsks
    BY <1>9, <2>1 DEF Viewer!ConfirmAnswered, ViewerAsks
  <2>3. copy' = Viewer!NoCopy \/ (copy' = copy /\ shown' = shown)
    BY <1>9 DEF Viewer!ConfirmAnswered
  <2> QED
    BY <1>1, <1>2, <2>2, <2>3
<1>10. CASE Viewer!Refetch \/ Viewer!RetryLoad
  <2>1. shown \in Viewer!Ids
    BY <1>0, <1>10 DEF Viewer!Refetch, Viewer!RetryLoad, Viewer!Open, ViewerPages
  <2>2. ViewerAsks /\ copy' = copy /\ shown' = shown
    BY <1>10, <2>1 DEF Viewer!Refetch, Viewer!RetryLoad, ViewerAsks
  <2> QED
    BY <1>2, <2>2
<1>11. CASE \E d \in Viewer!Ids :
              \/ Viewer!DocumentGoes(d) \/ Viewer!OthersChange(d)
              \/ Viewer!MembersAnswered(d) \/ Viewer!MembersFails(d)
  BY <1>2, <1>11 DEF Viewer!DocumentGoes, Viewer!OthersChange, Viewer!MembersAnswered,
     Viewer!MembersFails, Viewer!MembersReceived
<1>12. CASE \/ Viewer!ListAnswered \/ Viewer!SessionEnds \/ Viewer!RetryIfFailed
            \/ Viewer!CopyTimesOut \/ Viewer!Confirm \/ Viewer!ServerConfirms
            \/ Viewer!ConfirmFails \/ Viewer!ToLogin
  BY <1>1, <1>2, <1>12 DEF Viewer!ListAnswered, Viewer!SessionEnds, Viewer!RetryIfFailed,
     Viewer!CopyTimesOut, Viewer!Confirm, Viewer!ServerConfirms, Viewer!ConfirmFails,
     Viewer!ToLogin
<1> QED
  BY <1>3, <1>4, <1>7, <1>8, <1>9, <1>10, <1>11, <1>12 DEF Viewer!Next

\* Nobody is taken off the documents that nobody had to confirm, and nothing is confirmed back.
LEMMA ViewerRestNext ==
    ASSUME ViewerInv, Viewer!Next
    PROVE  ViewerRest' /\ empty \subseteq empty'
           /\ \A d \in Viewer!Ids : mine[d] = "CONFIRMED" => mine'[d] = "CONFIRMED"
<1> USE DEF Viewer!vars, Viewer!server, Viewer!caches, Viewer!history
<1>0. ViewerRest
  BY DEF ViewerInv
<1>1. viewerMoves' \in 0..MaxViewerMoves /\ viewerFaults' \in 0..MaxViewerFaults
  <2>1. \/ viewerMoves' = viewerMoves /\ viewerFaults' = viewerFaults
        \/ Viewer!Moves \/ Viewer!Faults
    BY DEF Viewer!Next, Viewer!DocumentGoes, Viewer!OthersChange, Viewer!PageAnswered,
       Viewer!PageFails, Viewer!MembersAnswered, Viewer!MembersFails, Viewer!ListAnswered,
       Viewer!SessionEnds, Viewer!Steps, Viewer!Step, Viewer!Refetch, Viewer!RetryLoad,
       Viewer!RetryIfFailed, Viewer!Copy, Viewer!CopySucceeds, Viewer!CopyTimesOut,
       Viewer!Confirm, Viewer!ServerConfirms, Viewer!ConfirmAnswered, Viewer!ConfirmFails,
       Viewer!ToLogin
  <2> QED
    BY <1>0, <2>1, ViewerBounds DEF ViewerRest, Viewer!Moves, Viewer!Faults
<1>2. sure' \subseteq Viewer!Ids /\ told' \subseteq Viewer!Ids
  <2>1. CASE \E d \in Viewer!Ids :
               \/ Viewer!DocumentGoes(d) \/ Viewer!OthersChange(d)
               \/ Viewer!MembersAnswered(d) \/ Viewer!MembersFails(d)
               \/ Viewer!PageAnswered(d) \/ Viewer!PageFails(d)
    BY <1>0, <2>1 DEF ViewerRest, Viewer!DocumentGoes, Viewer!OthersChange, Viewer!PageAnswered,
       Viewer!PageFails, Viewer!PageReceived, Viewer!MembersAnswered, Viewer!MembersFails,
       Viewer!MembersReceived
  <2>2. CASE Viewer!ConfirmAnswered
    <3>1. confirming.document \in Viewer!Ids
      BY <2>2 DEF Viewer!ConfirmAnswered, ViewerInv, ViewerConfirming
    <3> QED
      BY <1>0, <2>2, <3>1 DEF ViewerRest, Viewer!ConfirmAnswered
  <2>3. CASE \/ Viewer!ListAnswered \/ Viewer!SessionEnds \/ Viewer!Steps \/ Viewer!Refetch
             \/ Viewer!RetryLoad \/ Viewer!RetryIfFailed \/ Viewer!Copy \/ Viewer!CopySucceeds
             \/ Viewer!CopyTimesOut \/ Viewer!Confirm \/ Viewer!ServerConfirms
             \/ Viewer!ConfirmFails \/ Viewer!ToLogin
    BY <1>0, <2>3 DEF ViewerRest, Viewer!ListAnswered, Viewer!SessionEnds, Viewer!Steps,
       Viewer!Step, Viewer!GoTo, Viewer!Refetch, Viewer!RetryLoad, Viewer!RetryIfFailed,
       Viewer!Copy, Viewer!CopySucceeds, Viewer!CopyTimesOut, Viewer!Confirm,
       Viewer!ServerConfirms, Viewer!ConfirmFails, Viewer!ToLogin
  <2> QED
    BY <2>1, <2>2, <2>3 DEF Viewer!Next
<1>3. viewerSession' \in BOOLEAN
  <2>1. viewerSession' = viewerSession \/ viewerSession' = FALSE
    BY DEF Viewer!Next, Viewer!DocumentGoes, Viewer!OthersChange, Viewer!PageAnswered,
       Viewer!PageFails, Viewer!MembersAnswered, Viewer!MembersFails, Viewer!MembersReceived,
       Viewer!ListAnswered, Viewer!SessionEnds, Viewer!Steps, Viewer!Step, Viewer!Refetch,
       Viewer!RetryLoad, Viewer!RetryIfFailed, Viewer!Copy, Viewer!CopySucceeds,
       Viewer!CopyTimesOut, Viewer!Confirm, Viewer!ServerConfirms, Viewer!ConfirmAnswered,
       Viewer!ConfirmFails, Viewer!ToLogin
  <2>2. viewerSession \in BOOLEAN
    BY <1>0 DEF ViewerRest
  <2> QED
    BY <2>1, <2>2, Zenon
<1>4. /\ offered' \subseteq Viewer!Ids /\ others' \subseteq Viewer!Ids
      /\ mine' \in [Viewer!Ids -> Viewer!MyConfirmationState]
      /\ empty' \subseteq Viewer!Ids /\ empty \subseteq empty'
      /\ \A d \in Viewer!Ids : Viewer!NobodyOf(d)' => d \in empty'
      /\ \A d \in Viewer!Ids : mine[d] = "CONFIRMED" => mine'[d] = "CONFIRMED"
  <2>0. \A d \in Viewer!Ids : mine[d] = "NOT_REQUIRED" /\ d \notin others => d \in empty
    BY <1>0 DEF ViewerRest, Viewer!NobodyOf
  <2>1. CASE \E d \in Viewer!Ids : Viewer!OthersChange(d)
    BY <1>0, <2>0, <2>1 DEF ViewerRest, Viewer!OthersChange, Viewer!NobodyOf
  <2>2. CASE Viewer!ServerConfirms
    BY <1>0, <2>0, <2>2 DEF ViewerRest, Viewer!ServerConfirms, Viewer!NobodyOf,
       Viewer!MyConfirmationState
  <2>3. CASE \E d \in Viewer!Ids :
               \/ Viewer!DocumentGoes(d) \/ Viewer!MembersAnswered(d) \/ Viewer!MembersFails(d)
               \/ Viewer!PageAnswered(d) \/ Viewer!PageFails(d)
    BY <1>0, <2>0, <2>3 DEF ViewerRest, Viewer!DocumentGoes, Viewer!PageAnswered,
       Viewer!PageFails, Viewer!MembersAnswered, Viewer!MembersFails, Viewer!MembersReceived,
       Viewer!NobodyOf
  <2>4. CASE \/ Viewer!ListAnswered \/ Viewer!SessionEnds \/ Viewer!Steps \/ Viewer!Refetch
             \/ Viewer!RetryLoad \/ Viewer!RetryIfFailed \/ Viewer!Copy \/ Viewer!CopySucceeds
             \/ Viewer!CopyTimesOut \/ Viewer!Confirm \/ Viewer!ConfirmAnswered
             \/ Viewer!ConfirmFails \/ Viewer!ToLogin
    BY <1>0, <2>0, <2>4 DEF ViewerRest, Viewer!ListAnswered, Viewer!SessionEnds, Viewer!Steps,
       Viewer!Step, Viewer!Refetch, Viewer!RetryLoad, Viewer!RetryIfFailed,
       Viewer!Copy, Viewer!CopySucceeds, Viewer!CopyTimesOut, Viewer!Confirm,
       Viewer!ConfirmAnswered, Viewer!ConfirmFails, Viewer!ToLogin, Viewer!NobodyOf
  <2> QED
    BY <2>1, <2>2, <2>3, <2>4 DEF Viewer!Next
<1> QED
  BY <1>1, <1>2, <1>3, <1>4 DEF ViewerRest

\* What is known of the confirmations is asked for again, or answered by the server.
LEMMA ViewerMembersNext ==
    ASSUME ViewerInv, Viewer!Next
    PROVE  ViewerMembers'
<1> USE DEF Viewer!vars, Viewer!server, Viewer!caches, Viewer!history
<1> DEFINE Names == Viewer!EntryOf({<<"somebody">>})
           Asked == \E d \in Viewer!Ids :
                      members' = [members EXCEPT ![d] = Viewer!Start(members[d])]
           Lost == \E d \in Viewer!Ids : \E x \in {"unauthorized", "unavailable", "other"} :
                      members' = [members EXCEPT ![d] = Viewer!Failed(members[d], x)]
           Told == \E d \in Viewer!Ids :
                      members' = [members EXCEPT ![d] = Viewer!Succeeded(
                                    IF Viewer!NobodyOf(d) THEN <<>> ELSE <<"somebody">>)]
<1>0. ViewerMembers /\ ViewerPages /\ ViewerConfirming /\ ViewerRest
  BY DEF ViewerInv
<1>1. empty \subseteq empty'
  BY ViewerRestNext
<1>2. members' = members \/ Asked \/ Lost \/ Told
  <2>1. CASE \E d \in Viewer!Ids : Viewer!MembersAnswered(d)
    BY <2>1 DEF Viewer!MembersAnswered, Viewer!MembersReceived
  <2>2. CASE \E d \in Viewer!Ids : Viewer!MembersFails(d)
    BY <2>2 DEF Viewer!MembersFails, Viewer!MembersReceived
  <2>3. CASE \E d \in Viewer!Ids : Viewer!PageAnswered(d) \/ Viewer!PageFails(d)
    BY <2>3 DEF Viewer!PageAnswered, Viewer!PageFails, Viewer!PageReceived, Viewer!Drawn
  <2>4. CASE Viewer!Steps
    <3>1. PICK d \in Viewer!Ids : Viewer!GoTo(d)
      BY <1>0, <2>4, ViewerSteps DEF Viewer!Steps, Viewer!Step
    <3> QED
      BY <3>1 DEF Viewer!GoTo
  <2>5. CASE Viewer!Refetch \/ Viewer!RetryIfFailed
    <3>1. shown \in Viewer!Ids
      BY <1>0, <2>5 DEF Viewer!Refetch, Viewer!RetryIfFailed, Viewer!Open, ViewerPages
    <3> QED
      BY <2>5, <3>1 DEF Viewer!Refetch, Viewer!RetryIfFailed
  <2>6. CASE Viewer!ConfirmAnswered
    <3>1. confirming.document \in Viewer!Ids
      BY <1>0, <2>6 DEF Viewer!ConfirmAnswered, ViewerConfirming
    <3> QED
      BY <2>6, <3>1 DEF Viewer!ConfirmAnswered
  <2>7. CASE \/ \E d \in Viewer!Ids : Viewer!DocumentGoes(d) \/ Viewer!OthersChange(d)
             \/ Viewer!ListAnswered \/ Viewer!SessionEnds \/ Viewer!RetryLoad \/ Viewer!Copy
             \/ Viewer!CopySucceeds \/ Viewer!CopyTimesOut \/ Viewer!Confirm
             \/ Viewer!ServerConfirms \/ Viewer!ConfirmFails \/ Viewer!ToLogin
    BY <2>7 DEF Viewer!DocumentGoes, Viewer!OthersChange, Viewer!ListAnswered,
       Viewer!SessionEnds, Viewer!RetryLoad, Viewer!Copy, Viewer!CopySucceeds,
       Viewer!CopyTimesOut, Viewer!Confirm, Viewer!ServerConfirms, Viewer!ConfirmFails,
       Viewer!ToLogin
  <2> QED
    BY <2>1, <2>2, <2>3, <2>4, <2>5, <2>6, <2>7 DEF Viewer!Next
<1>3. ASSUME NEW d \in Viewer!Ids, NEW e \in Names, members' = [members EXCEPT ![d] = e],
             e.known /\ e.data = <<>> => d \in empty
      PROVE  ViewerMembers'
  BY <1>0, <1>1, <1>3 DEF ViewerMembers
<1>4. CASE Asked
  <2>1. PICK d \in Viewer!Ids : members' = [members EXCEPT ![d] = Viewer!Start(members[d])]
    BY <1>4
  <2>2. members[d] \in Names /\ (members[d].known /\ members[d].data = <<>> => d \in empty)
    BY <1>0 DEF ViewerMembers
  <2>3. /\ Viewer!Start(members[d]) \in Names
        /\ Viewer!Start(members[d]).known = members[d].known
        /\ Viewer!Start(members[d]).data = members[d].data
    BY <2>2, ViewerStart
  <2> QED
    BY <1>3, <2>1, <2>2, <2>3
<1>5. CASE Lost
  <2>1. PICK d \in Viewer!Ids, x \in {"unauthorized", "unavailable", "other"} :
          members' = [members EXCEPT ![d] = Viewer!Failed(members[d], x)]
    BY <1>5
  <2>2. members[d] \in Names /\ (members[d].known /\ members[d].data = <<>> => d \in empty)
    BY <1>0 DEF ViewerMembers
  <2>3. /\ Viewer!Failed(members[d], x) \in Names
        /\ Viewer!Failed(members[d], x).known = members[d].known
        /\ Viewer!Failed(members[d], x).data = members[d].data
    BY <2>2, ViewerFailed
  <2> QED
    BY <1>3, <2>1, <2>2, <2>3
<1>6. CASE Told
  <2>1. PICK d \in Viewer!Ids : members' = [members EXCEPT ![d] = Viewer!Succeeded(
                                    IF Viewer!NobodyOf(d) THEN <<>> ELSE <<"somebody">>)]
    BY <1>6
  <2>2. <<"somebody">> # <<>>
    OBVIOUS
  <2>3. /\ Viewer!Succeeded(<<"somebody">>) \in Names
        /\ Viewer!Succeeded(<<"somebody">>).data = <<"somebody">>
    BY ViewerSucceeded
  <2>4. Viewer!Succeeded(<<>>) \in Names
    BY DEF Viewer!Succeeded, Viewer!Empty, Viewer!EntryOf
  <2>5. Viewer!NobodyOf(d) => d \in empty
    BY <1>0 DEF ViewerRest
  <2>6. CASE Viewer!NobodyOf(d)
    <3>1. members' = [members EXCEPT ![d] = Viewer!Succeeded(<<>>)]
      BY <2>1, <2>6
    <3> QED
      BY <1>3, <2>4, <2>5, <2>6, <3>1
  <2>7. CASE ~Viewer!NobodyOf(d)
    <3>1. members' = [members EXCEPT ![d] = Viewer!Succeeded(<<"somebody">>)]
      BY <2>1, <2>7
    <3> QED
      BY <1>3, <2>2, <2>3, <3>1
  <2> QED
    BY <2>6, <2>7
<1>7. CASE members' = members
  BY <1>0, <1>1, <1>7 DEF ViewerMembers
<1> QED
  BY <1>2, <1>4, <1>5, <1>6, <1>7

\* A part that comes in is no longer waited for, and the last one ends the confirmation.
LEMMA ViewerAwaits ==
    ASSUME ViewerConfirming, NEW p \in {"page", "members"}, NEW d
    PROVE  LET c == Viewer!Awaited(p, d) IN
           /\ c \in ViewerConfirmations
           /\ (c.stage = "refreshing") = (c.awaits # {})
           /\ c.document = confirming.document
           /\ c.stage \notin {"idle", "refreshing"} => c = confirming
           /\ c.stage # "idle" => confirming.stage # "idle"
           /\ confirming.document # d => c = confirming
           /\ p = "members" /\ ViewerAwaited(confirming.document)
                => c.stage = "refreshing" /\ "page" \in c.awaits
<1>1. PICK k \in ViewerConfirmations :
        k = confirming /\ ((k.stage = "refreshing") = (k.awaits # {}))
  BY DEF ViewerConfirming
<1>2. CASE ~(k.stage = "refreshing" /\ k.document = d)
  BY <1>1, <1>2 DEF Viewer!Awaited, ViewerAwaited
<1>3. CASE k.stage = "refreshing" /\ k.document = d
  <2> DEFINE rest == k.awaits \ {p}
  <2>1. CASE rest = {}
    <3>1. Viewer!Awaited(p, d) = [k EXCEPT !.stage = "idle", !.awaits = {}]
      BY <1>1, <1>3, <2>1 DEF Viewer!Awaited
    <3>2. ~(p = "members" /\ "page" \in k.awaits)
      BY <2>1
    <3> QED
      BY <1>1, <3>1, <3>2, <1>3 DEF ViewerConfirmations, ViewerAwaited
  <2>2. CASE rest # {}
    <3>1. Viewer!Awaited(p, d) = [k EXCEPT !.awaits = rest]
      BY <1>1, <1>3, <2>2 DEF Viewer!Awaited
    <3>2. rest \in SUBSET {"page", "members"}
      BY <1>1 DEF ViewerConfirmations
    <3> HIDE DEF rest
    <3>3. p = "members" /\ "page" \in k.awaits => "page" \in rest
      BY DEF rest
    <3> QED
      BY <1>1, <1>3, <2>2, <3>1, <3>2, <3>3 DEF ViewerConfirmations, ViewerAwaited
  <2> QED
    BY <2>1, <2>2
<1> QED
  BY <1>2, <1>3

\* A confirmation is sent, handled, and at an end when what it made old has come anew.
LEMMA ViewerConfirmingNext ==
    ASSUME ViewerInv, Viewer!Next
    PROVE  ViewerConfirming'
<1> USE DEF Viewer!vars, Viewer!server, Viewer!caches, Viewer!history
<1>0. ViewerConfirming /\ ViewerPages /\ ViewerRest
  BY DEF ViewerInv
<1>1. \A d \in Viewer!Ids : mine[d] = "CONFIRMED" => mine'[d] = "CONFIRMED"
  BY ViewerRestNext
<1>2. CASE confirming' = confirming
  BY <1>0, <1>1, <1>2 DEF ViewerConfirming
<1>3. ASSUME NEW p \in {"page", "members"}, NEW d, confirming' = Viewer!Awaited(p, d)
      PROVE  ViewerConfirming'
  <2>1. PICK c : c = Viewer!Awaited(p, d)
    OBVIOUS
  <2>2. /\ c \in ViewerConfirmations
        /\ (c.stage = "refreshing") = (c.awaits # {})
        /\ c.document = confirming.document
        /\ c.stage \notin {"idle", "refreshing"} => c = confirming
        /\ c.stage # "idle" => confirming.stage # "idle"
    BY <1>0, <2>1, ViewerAwaits
  <2> QED
    BY <1>0, <1>1, <1>3, <2>1, <2>2 DEF ViewerConfirming
<1>4. CASE Viewer!Confirm
  <2>1. shown \in Viewer!Ids
    BY <1>0, <1>4 DEF Viewer!Confirm, Viewer!Open, ViewerPages
  <2> QED
    BY <1>4, <2>1 DEF Viewer!Confirm, Viewer!NoConfirmation, ViewerConfirming,
       ViewerConfirmations
<1>5. CASE Viewer!ServerConfirms
  <2>1. confirming.document \in Viewer!Ids /\ confirming.awaits = {}
    BY <1>0, <1>5 DEF Viewer!ServerConfirms, ViewerConfirming
  <2> DEFINE d == confirming.document
             isAccepted == viewerSession /\ d \in offered /\ mine[d] # "NOT_REQUIRED"
  <2>2. PICK k \in ViewerConfirmations : k = confirming
    BY <1>0 DEF ViewerConfirming
  <2>3. PICK o \in {"ok", "conflict", "unauthorized"} :
          /\ confirming' = [k EXCEPT !.stage = "handled", !.outcome = o]
          /\ o = "ok" => isAccepted
    BY <1>5, <2>2 DEF Viewer!ServerConfirms
  <2>4. isAccepted => mine'[d] = "CONFIRMED"
    BY <1>0, <1>5, <2>1 DEF Viewer!ServerConfirms, ViewerRest
  <2>5. /\ confirming' \in ViewerConfirmations /\ confirming'.document = k.document
        /\ confirming'.awaits = k.awaits /\ confirming'.stage = "handled"
        /\ confirming'.outcome = o
    BY <2>2, <2>3 DEF ViewerConfirmations
  <2> QED
    BY <2>1, <2>2, <2>3, <2>4, <2>5 DEF ViewerConfirming
<1>6. CASE Viewer!ConfirmAnswered \/ Viewer!ConfirmFails
  <2>1. PICK k \in ViewerConfirmations : k = confirming /\ k.awaits = {}
    BY <1>0, <1>6 DEF Viewer!ConfirmAnswered, Viewer!ConfirmFails, ViewerConfirming
  <2>2. CASE confirming' = [confirming EXCEPT !.stage = "idle"]
    BY <2>1, <2>2 DEF ViewerConfirming, ViewerConfirmations
  <2>3. ASSUME NEW a \in SUBSET {"page", "members"}, a # {},
               confirming' = [confirming EXCEPT !.stage = "refreshing", !.awaits = a],
               k.document \in Viewer!Ids
        PROVE  ViewerConfirming'
    BY <2>1, <2>3 DEF ViewerConfirming, ViewerConfirmations
  <2>4. CASE Viewer!ConfirmFails
    BY <2>2, <2>4 DEF Viewer!ConfirmFails
  <2>5. CASE Viewer!ConfirmAnswered
    <3>1. k.document \in Viewer!Ids
      BY <1>0, <2>1, <2>5 DEF Viewer!ConfirmAnswered, ViewerConfirming
    <3>2. Viewer!Awaits(k.document) \in SUBSET {"page", "members"}
      BY DEF Viewer!Awaits
    <3> QED
      BY <2>1, <2>2, <2>3, <2>5, <3>1, <3>2 DEF Viewer!ConfirmAnswered
  <2> QED
    BY <1>6, <2>4, <2>5
<1>7. CASE Viewer!ToLogin
  BY <1>7 DEF Viewer!ToLogin, Viewer!NoConfirmation, ViewerConfirming, ViewerConfirmations
<1>8. CASE \E d \in Viewer!Ids :
             \/ Viewer!PageAnswered(d) \/ Viewer!PageFails(d)
             \/ Viewer!MembersAnswered(d) \/ Viewer!MembersFails(d)
  BY <1>3, <1>8 DEF Viewer!PageAnswered, Viewer!PageFails, Viewer!PageReceived,
     Viewer!MembersAnswered, Viewer!MembersFails, Viewer!MembersReceived
<1>9. CASE \/ \E d \in Viewer!Ids : Viewer!DocumentGoes(d) \/ Viewer!OthersChange(d)
           \/ Viewer!ListAnswered \/ Viewer!SessionEnds \/ Viewer!Steps \/ Viewer!Refetch
           \/ Viewer!RetryLoad \/ Viewer!RetryIfFailed \/ Viewer!Copy \/ Viewer!CopySucceeds
           \/ Viewer!CopyTimesOut
  BY <1>2, <1>9 DEF Viewer!DocumentGoes, Viewer!OthersChange, Viewer!ListAnswered,
     Viewer!SessionEnds, Viewer!Steps, Viewer!Step, Viewer!Refetch, Viewer!RetryLoad,
     Viewer!RetryIfFailed, Viewer!Copy, Viewer!CopySucceeds, Viewer!CopyTimesOut
<1> QED
  BY <1>4, <1>5, <1>6, <1>7, <1>8, <1>9 DEF Viewer!Next

\* Asking again changes nothing of what a page says.
LEMMA ViewerKnowsStill ==
    ASSUME ViewerPages, NEW q \in Viewer!Ids, ViewerKnows(pages[q]), pages' = pages \/ ViewerAsks
    PROVE  ViewerKnows(pages'[q])
<1>1. CASE pages' = pages
  BY <1>1
<1>2. CASE ViewerAsks
  <2>1. PICK d \in Viewer!Ids : pages' = [pages EXCEPT ![d] = Viewer!Start(pages[d])]
    BY <1>2 DEF ViewerAsks
  <2>2. pages[q] \in Viewer!EntryOf(Viewer!PageData)
    BY DEF ViewerPages
  <2>3. /\ Viewer!Start(pages[q]).known = pages[q].known
        /\ Viewer!Start(pages[q]).data = pages[q].data
        /\ pages[q].known => Viewer!Start(pages[q]).error = pages[q].error
    BY <2>2, ViewerStart
  <2>4. pages'[q] = pages[q] \/ pages'[q] = Viewer!Start(pages[q])
    BY <2>1 DEF ViewerPages
  <2> QED
    BY <2>3, <2>4 DEF ViewerKnows
<1> QED
  BY <1>1, <1>2

\* The page of the document that was confirmed is waited for until it says so.
LEMMA ViewerSureNext ==
    ASSUME ViewerInv, Viewer!Next
    PROVE  ViewerSure'
<1> USE DEF Viewer!vars, Viewer!server, Viewer!caches, Viewer!history
<1>0. ViewerSure /\ ViewerPages /\ ViewerConfirming /\ ViewerRest
  BY DEF ViewerInv
<1>1. CASE sure' = {}
  BY <1>1 DEF ViewerSure
<1> SUFFICES ASSUME sure' # {}, shown' \in sure'
             PROVE  /\ mine'[shown'] = "CONFIRMED"
                    /\ ViewerKnows(pages'[shown']) \/ ViewerAwaited(shown)'
  BY <1>1 DEF ViewerSure
<1>2. PICK q \in Viewer!Ids : shown' = q
  BY ViewerRestNext DEF ViewerRest
<1>3. mine[q] = "CONFIRMED" => mine'[q] = "CONFIRMED"
  BY ViewerRestNext
<1> DEFINE awaited == /\ confirming'.document = q /\ confirming'.stage = "refreshing"
                      /\ "page" \in confirming'.awaits
<1>4. awaited => ViewerAwaited(shown)'
  BY <1>2 DEF ViewerAwaited
<1>5. CASE /\ sure' = sure /\ shown' = shown /\ (pages' = pages \/ ViewerAsks)
           /\ (ViewerAwaited(q) => awaited \/ ViewerKnows(pages'[q]))
  <2>1. mine[q] = "CONFIRMED" /\ (ViewerKnows(pages[q]) \/ ViewerAwaited(q))
    BY <1>0, <1>2, <1>5 DEF ViewerSure
  <2>2. ViewerKnows(pages[q]) => ViewerKnows(pages'[q])
    BY <1>0, <1>5, ViewerKnowsStill
  <2> QED
    BY <1>2, <1>3, <1>4, <1>5, <2>1, <2>2
<1>6. CASE \E d \in Viewer!Ids : Viewer!PageAnswered(d)
  <2>1. PICK d \in Viewer!Ids : Viewer!PageAnswered(d)
    BY <1>6
  <2>2. shown' = shown /\ sure' = sure /\ mine' = mine /\ shown = q
    BY <1>2, <2>1 DEF Viewer!PageAnswered
  <2>3. mine[q] = "CONFIRMED" /\ (ViewerKnows(pages[q]) \/ ViewerAwaited(q))
    BY <1>0, <2>2 DEF ViewerSure
  <2> DEFINE e == CASE ~viewerSession -> Viewer!Failed(pages[d], "unauthorized")
                    [] viewerSession /\ d \notin offered -> Viewer!Failed(pages[d], "unavailable")
                    [] OTHER -> Viewer!Succeeded([mine |-> mine[d]])
  <2>4. pages' = [pages EXCEPT ![d] = e] /\ confirming' = Viewer!Awaited("page", d)
    BY <2>1 DEF Viewer!PageAnswered, Viewer!PageReceived
  <2>5. CASE d = q
    <3>1. pages[q] \in Viewer!EntryOf(Viewer!PageData)
      BY <1>0 DEF ViewerPages
    <3>2. ViewerKnows(Viewer!Succeeded([mine |-> mine[d]]))
      BY <2>3, <2>5 DEF ViewerKnows, Viewer!Succeeded, Viewer!Empty
    <3>3. ASSUME NEW x \in {"unauthorized", "unavailable"}
          PROVE  ViewerKnows(Viewer!Failed(pages[d], x))
      <4>1. Viewer!Failed(pages[d], x).error = x
        BY <2>5, <3>1, ViewerFailed
      <4> QED
        BY <4>1 DEF ViewerKnows
    <3>4. ViewerKnows(e)
      BY <3>2, <3>3
    <3> HIDE DEF e
    <3>5. pages'[q] = e
      BY <1>0, <2>4, <2>5 DEF ViewerPages
    <3> QED
      BY <2>2, <2>3, <3>4, <3>5
  <2>6. CASE d # q
    <3> HIDE DEF e
    <3>1. pages'[q] = pages[q]
      BY <1>0, <2>4, <2>6 DEF ViewerPages
    <3>2. ViewerAwaited(q) => confirming' = confirming
      BY <1>0, <2>4, <2>6, ViewerAwaits DEF ViewerAwaited
    <3>3. ViewerAwaited(q) => awaited
      BY <3>2 DEF ViewerAwaited
    <3> QED
      BY <1>4, <2>2, <2>3, <3>1, <3>3
  <2> QED
    BY <2>5, <2>6
<1>7. CASE \E d \in Viewer!Ids : Viewer!MembersAnswered(d)
  <2>1. PICK d \in Viewer!Ids : Viewer!MembersAnswered(d)
    BY <1>7
  <2>2. /\ sure' = sure /\ shown' = shown /\ pages' = pages
        /\ confirming' = Viewer!Awaited("members", d)
    BY <2>1 DEF Viewer!MembersAnswered, Viewer!MembersReceived
  <2>3. PICK c : c = Viewer!Awaited("members", d)
    OBVIOUS
  <2>4. /\ c.document = confirming.document
        /\ ViewerAwaited(confirming.document) => c.stage = "refreshing" /\ "page" \in c.awaits
    BY <1>0, <2>3, ViewerAwaits
  <2>5. ViewerAwaited(q) => awaited
    BY <2>2, <2>3, <2>4 DEF ViewerAwaited
  <2> QED
    BY <1>5, <2>2, <2>5
<1>8. CASE Viewer!Confirm
  <2>1. ~ViewerAwaited(q)
    BY <1>8 DEF Viewer!Confirm, Viewer!Pressable, Viewer!IsConfirming, ViewerAwaited
  <2> QED
    BY <1>5, <1>8, <2>1 DEF Viewer!Confirm
<1>9. CASE Viewer!ServerConfirms
  <2>1. ~ViewerAwaited(q)
    BY <1>9 DEF Viewer!ServerConfirms, ViewerAwaited
  <2> QED
    BY <1>5, <1>9, <2>1 DEF Viewer!ServerConfirms
<1>10. CASE Viewer!ConfirmAnswered
  <2>1. confirming.document \in Viewer!Ids /\ ~ViewerAwaited(q)
    BY <1>0, <1>10 DEF Viewer!ConfirmAnswered, ViewerConfirming, ViewerAwaited
  <2>2. pages' = pages \/ ViewerAsks
    BY <1>10, <2>1 DEF Viewer!ConfirmAnswered, ViewerAsks
  <2>3. shown = q /\ shown' = shown
    BY <1>2, <1>10, ViewerBounds DEF Viewer!ConfirmAnswered
  <2>4. CASE sure' = sure
    BY <1>5, <2>1, <2>2, <2>3, <2>4
  <2>5. CASE confirming.outcome = "ok" /\ confirming.document = q
    <3>1. mine[q] = "CONFIRMED"
      BY <1>0, <1>10, <2>5 DEF Viewer!ConfirmAnswered, ViewerConfirming
    <3>2. "page" \in Viewer!Awaits(q)
      BY <2>3 DEF Viewer!Awaits
    <3>3. PICK k \in ViewerConfirmations : k = confirming
      BY <1>0 DEF ViewerConfirming
    <3>4. confirming' = [k EXCEPT !.stage = "refreshing", !.awaits = Viewer!Awaits(q)]
      BY <1>10, <2>5, <3>2, <3>3 DEF Viewer!ConfirmAnswered
    <3>5. awaited
      BY <2>5, <3>2, <3>3, <3>4 DEF ViewerConfirmations
    <3> QED
      BY <1>2, <1>3, <1>4, <3>1, <3>5
  <2>6. CASE sure' # sure /\ ~(confirming.outcome = "ok" /\ confirming.document = q)
    BY <1>10, <2>3, <2>6 DEF Viewer!ConfirmAnswered
  <2> QED
    BY <2>4, <2>5, <2>6
<1>11. CASE Viewer!Refetch \/ Viewer!RetryLoad
  <2>1. shown \in Viewer!Ids
    BY <1>0, <1>11 DEF Viewer!Refetch, Viewer!RetryLoad, Viewer!Open, ViewerPages
  <2>2. ViewerAsks /\ sure' = sure /\ shown' = shown /\ confirming' = confirming
    BY <1>11, <2>1 DEF Viewer!Refetch, Viewer!RetryLoad, ViewerAsks
  <2> QED
    BY <1>5, <2>2 DEF ViewerAwaited
<1>12. CASE \/ \E d \in Viewer!Ids : Viewer!DocumentGoes(d) \/ Viewer!OthersChange(d)
            \/ Viewer!ListAnswered \/ Viewer!RetryIfFailed \/ Viewer!Copy
            \/ Viewer!CopySucceeds \/ Viewer!CopyTimesOut
  BY <1>5, <1>12 DEF Viewer!DocumentGoes, Viewer!OthersChange, Viewer!ListAnswered,
     Viewer!RetryIfFailed, Viewer!Copy, Viewer!CopySucceeds, Viewer!CopyTimesOut, ViewerAwaited
<1>13. CASE \/ \E d \in Viewer!Ids : Viewer!PageFails(d) \/ Viewer!MembersFails(d)
            \/ Viewer!SessionEnds \/ Viewer!Steps \/ Viewer!ConfirmFails \/ Viewer!ToLogin
  BY <1>13 DEF Viewer!PageFails, Viewer!MembersFails, Viewer!SessionEnds, Viewer!Steps,
     Viewer!Step, Viewer!GoTo, Viewer!ConfirmFails, Viewer!ToLogin
<1> QED
  BY <1>6, <1>7, <1>8, <1>9, <1>10, <1>11, <1>12, <1>13 DEF Viewer!Next

LEMMA ViewerNext ==
    ASSUME ViewerInv, Viewer!Next
    PROVE  ViewerInv'
BY ViewerRestNext, ViewerPagesNext, ViewerCopyNext, ViewerMembersNext, ViewerConfirmingNext,
   ViewerSureNext DEF ViewerInv

\* What the invariant says of the screen.
LEMMA ViewerIsTrue ==
    ViewerInv => Viewer!MarkIsOfThisDocument /\ Viewer!NoticeIsTrue /\ Viewer!ConfirmedStays
<1> SUFFICES ASSUME ViewerInv
             PROVE  Viewer!MarkIsOfThisDocument /\ Viewer!NoticeIsTrue /\ Viewer!ConfirmedStays
  OBVIOUS
<1>0. ViewerPages /\ ViewerCopy /\ ViewerMembers /\ ViewerSure
  BY DEF ViewerInv
<1>1. Viewer!MarkIsOfThisDocument
  BY <1>0 DEF Viewer!MarkIsOfThisDocument, ViewerCopy
<1>2. Viewer!NoticeIsTrue
  <2> SUFFICES ASSUME Viewer!View = "ready", Viewer!Notice(members[shown]) = "nobody"
               PROVE  shown \in empty
    BY DEF Viewer!NoticeIsTrue
  <2>1. shown \in Viewer!Ids
    BY <1>0 DEF ViewerPages, Viewer!View
  <2>2. members[shown].known /\ members[shown].data = <<>>
    <3>1. Viewer!MembersStatus(members[shown]) # "nobody"
      BY DEF Viewer!MembersStatus
    <3>2. Viewer!MembersStatus(members[shown]) = "ready" /\ members[shown].data = <<>>
      BY <3>1 DEF Viewer!Notice
    <3> QED
      BY <3>2 DEF Viewer!MembersStatus
  <2> QED
    BY <1>0, <2>1, <2>2 DEF ViewerMembers
<1>3. Viewer!ConfirmedStays
  <2> SUFFICES ASSUME shown \in sure, Viewer!Open, Viewer!Pressable
               PROVE  FALSE
    BY DEF Viewer!ConfirmedStays
  <2>1. shown # Viewer!None /\ ~Viewer!IsUnauthorized(pages[shown])
    BY DEF Viewer!Open, Viewer!SendsToLogin
  <2>2. PICK e \in Viewer!EntryOf(Viewer!PageData) : e = pages[shown]
    BY <1>0, <2>1 DEF ViewerPages
  <2>3. e.known /\ e.error # "unavailable"
    BY <2>1, <2>2, ViewerEntry DEF Viewer!Pressable, Viewer!ButtonShown, Viewer!View
  <2>4. e.error # "unauthorized" /\ e.data.mine # "CONFIRMED" /\ ~Viewer!IsConfirming
    BY <2>1, <2>2 DEF Viewer!Pressable, Viewer!Detail, Viewer!IsUnauthorized
  <2>5. ViewerKnows(e) \/ ViewerAwaited(shown)
    BY <1>0, <2>2 DEF ViewerSure
  <2> QED
    BY <2>3, <2>4, <2>5 DEF ViewerKnows, ViewerAwaited, Viewer!IsConfirming
<1> QED
  BY <1>1, <1>2, <1>3

\* The step of the server's list.
ViewerStepsRight ==
    \A offset \in {-1, 1} : Viewer!Step(offset) =>
      LET placeOf(d) == CHOOSE i \in DOMAIN Documents : Documents[i] = d IN
      IF offset > 0 THEN placeOf(shown') > placeOf(shown) ELSE placeOf(shown') < placeOf(shown)

\* A document has one place.
LEMMA ViewerPlaces ==
    ASSUME NEW d, NEW e, Viewer!Before(d, e)
    PROVE  (CHOOSE i \in DOMAIN Documents : Documents[i] = d)
             < (CHOOSE i \in DOMAIN Documents : Documents[i] = e)
<1>0. \A i, j \in DOMAIN Documents : Documents[i] = Documents[j] => i = j
  BY FrontendAssumption DEF Viewer!DocumentViewerAssumption, Viewer!IsInjective
<1>1. PICK i \in DOMAIN Documents, j \in DOMAIN Documents :
        i < j /\ Documents[i] = d /\ Documents[j] = e
  BY DEF Viewer!Before
<1>2. i = CHOOSE k \in DOMAIN Documents : Documents[k] = d
  BY <1>0, <1>1
<1>3. j = CHOOSE k \in DOMAIN Documents : Documents[k] = e
  BY <1>0, <1>1
<1> QED
  BY <1>1, <1>2, <1>3

\* A step goes to a document on that side.
LEMMA ViewerStepsInOrder == ViewerInv => ViewerStepsRight
<1> SUFFICES ASSUME ViewerInv, NEW offset \in {-1, 1}, Viewer!Step(offset)
             PROVE  IF offset > 0 THEN Viewer!Before(shown, shown')
                    ELSE Viewer!Before(shown', shown)
  BY ViewerPlaces DEF ViewerStepsRight
<1> DEFINE ids == Viewer!DocumentIds
           i == Viewer!CurrentIndex
<1>1. PICK s \in SUBSET Viewer!Ids : ViewerOrdered(ids, s)
  BY ViewerSteps DEF ViewerInv, Viewer!Step
<1>2. i \in DOMAIN ids /\ ids[i] = shown
  BY ViewerSteps DEF ViewerInv, Viewer!Step
<1>3. i + offset \in DOMAIN ids /\ shown' = ids[i + offset]
  BY DEF Viewer!Step, Viewer!GoTo
<1> HIDE DEF ids, i
<1>4. i \in Int /\ DOMAIN ids = 1..Cardinality(s)
  BY <1>1, <1>2 DEF ViewerOrdered
<1>5. \A j, k \in DOMAIN ids : j < k => Viewer!Before(ids[j], ids[k])
  BY <1>1 DEF ViewerOrdered
<1>6. CASE offset = 1
  BY <1>2, <1>3, <1>4, <1>5, <1>6
<1>7. CASE offset = -1
  BY <1>2, <1>3, <1>4, <1>5, <1>7
<1> QED
  BY <1>6, <1>7

\* The screen at rest shows no document, and needs none.
ViewerPart == part = "viewer" => ViewerInv

\* A step of the frontend is one of the screen, or leaves it alone.
LEMMA ViewerStep ==
    ASSUME ViewerPart, [Next]_vars
    PROVE  ViewerPart' /\ ((ViewerInv /\ Viewer!Next) \/ UNCHANGED Viewer!vars)
<1>1. CASE Moves("viewer") /\ Viewer!Next
  BY <1>1, ViewerNext DEF ViewerPart, Moves
<1>2. CASE part' = part /\ UNCHANGED viewerVars
  <2>1. UNCHANGED Viewer!vars
    BY <1>2 DEF viewerVars, Viewer!vars, Viewer!server, Viewer!caches, Viewer!history
  <2>2. UNCHANGED viewerVars /\ ViewerInv => ViewerInv'
    BY DEF viewerVars, ViewerInv, ViewerRest, ViewerPages, ViewerCopy, ViewerMembers,
       ViewerConfirming, ViewerSure, ViewerAwaited, Viewer!View, Viewer!NobodyOf
  <2> QED
    BY <1>2, <2>1, <2>2 DEF ViewerPart
<1>3. (Moves("viewer") /\ Viewer!Next) \/ (part' = part /\ UNCHANGED viewerVars)
  BY DEF Next, Moves, vars
<1> QED
  BY <1>1, <1>2, <1>3

\* What the screen marks as copied is the document on it; that nobody has to confirm it is said
\* only if so it was; once confirmed it stays so, whatever is refetched in between; and a step
\* goes to the neighbour in the server's order (DocumentViewer, useDocumentStepper,
\* useConfirmDocumentMutation).
THEOREM ViewerIsSafeCorrect == Spec => ViewerIsSafe
<1>1. Init => ViewerPart
  BY ViewerInit DEF Init, ViewerPart
<1>2. ViewerPart /\ [Next]_vars => ViewerPart'
  BY ViewerStep
<1>3. ViewerPart => /\ part = "viewer" => Viewer!TypeOK
                    /\ MarkIsOfThisDocument /\ NoticeIsTrue /\ ConfirmedStays
  BY ViewerTypes, ViewerIsTrue
     DEF ViewerPart, MarkIsOfThisDocument, NoticeIsTrue, ConfirmedStays
<1>4. ViewerPart /\ [Next]_vars => [ViewerStepsRight]_(Viewer!vars)
  BY ViewerStep, ViewerStepsInOrder
<1>5. Spec => /\ [](/\ part = "viewer" => Viewer!TypeOK
                    /\ MarkIsOfThisDocument /\ NoticeIsTrue /\ ConfirmedStays)
              /\ [][ViewerStepsRight]_(Viewer!vars)
  BY <1>1, <1>2, <1>3, <1>4, PTL DEF Spec
<1>6. StepsInOrder <=> [][ViewerStepsRight]_(Viewer!vars)
  BY DEF StepsInOrder, Viewer!StepsInOrder, ViewerStepsRight
<1> QED
  BY <1>5, <1>6, PTL DEF ViewerIsSafe
-----------------------------------------------------------------------------
(* The way into a workspace *)

\* The constants of the entry.
LEMMA EntryBounds ==
    /\ Workspaces \subseteq Nat \ {0} /\ Of \in [Credentials -> Workspaces]
    /\ MaxEntries \in Nat \ {0} /\ MaxEntryFaults \in Nat
    /\ \A v \in Visits : v.spaces \subseteq Workspaces /\ v.moves \in Nat
    /\ Way!None = 0
BY FrontendAssumption DEF Way!EntryAssumption, Way!None

\* The locations that the browser's history is of: an invitation's link has its token, and a
\* confirmation of joining names the workspace of its credential.
EntryPlaces ==
    {l \in Way!Location : /\ l.screen = "invite" => l.credential \in Credentials
                          /\ l.screen = "join" => \/ l.credential = Way!NoCredential
                                                  \/ l.workspace = Of[l.credential]}

EntryPaths == {h \in Seq(EntryPlaces) : Len(h) \in 1..MaxEntries}

\* What is known of an invitation is of its workspace.
EntryKnown(c) ==
    /\ c \in [Way!Keys -> Way!Entries]
    /\ \A x \in Credentials : c[Way!Preview(x)].spaces \subseteq {Of[x]}

EntryTyped == [typed: Credentials \cup {Way!NoCredential}, verified: BOOLEAN]
EntryRequested ==
    [kind: {"nickname", "create", "accept"}, credential: Credentials \cup {Way!NoCredential},
     heard: BOOLEAN]

\* The server, and what the visit may still do.
EntryWeb ==
    /\ visit \in Visits
    /\ session \in {"none", "onboarding", "member"}
    /\ spaces \subseteq Workspaces /\ lastViewed \in Workspaces \cup {Way!None}
    /\ valid \subseteq Credentials
    /\ moves \in 0..Way!MaxMoves /\ entryFaults \in 0..MaxEntryFaults

\* The tab's history, and what the layout has reported.
EntryHistory ==
    /\ entries \in EntryPaths /\ first \in 1..Len(entries)
    /\ recorded \in Workspaces \cup {Way!None}

\* A code is typed on its card, and its tick stands on an answer that no one asks for again.
EntryTick ==
    code.verified => /\ code.typed \in Credentials /\ code.typed # Way!NoCredential
                     /\ cache[Way!Preview(code.typed)].has
                     /\ cache[Way!Preview(code.typed)].error = "none"
                     /\ ~cache[Way!Preview(code.typed)].fetching
EntryCode ==
    /\ code \in EntryTyped
    /\ Way!Here.screen # "code" => code = Way!NotTyped
    /\ EntryTick

\* A request that is listened to was made on the screen that is shown.
EntryRequests ==
    /\ requests \subseteq EntryRequested
    /\ \A r \in requests : r.heard => <<Way!Here.screen, r.kind>> \in Way!Submits

EntryInv == EntryWeb /\ EntryHistory /\ EntryKnown(cache) /\ EntryCode /\ EntryRequests

\* A screen by its name, without a credential, may be in the history.
EntryScreens == Way!ScreenNames \ {"invite"}

LEMMA EntryAt ==
    ASSUME NEW s \in EntryScreens
    PROVE  /\ Way!At(s) \in EntryPlaces /\ Way!At(s).screen = s
           /\ Way!At(s).credential = Way!NoCredential
<1>1. s \in Way!ScreenNames /\ s # "invite"
  BY DEF EntryScreens
<1>2. FALSE \in BOOLEAN
  OBVIOUS
<1> QED
  BY <1>1, <1>2 DEF Way!At, EntryPlaces, Way!Location

\* So may one of a workspace.
LEMMA EntryIn ==
    ASSUME NEW s \in EntryScreens, NEW w \in Workspaces \cup {Way!None}
    PROVE  /\ Way!In(s, w) \in EntryPlaces /\ Way!In(s, w).screen = s
           /\ Way!In(s, w).workspace = w
<1>1. PICK l \in EntryPlaces : l = Way!At(s) /\ l.screen = s /\ l.credential = Way!NoCredential
  BY EntryAt
<1>2. s # "invite"
  BY DEF EntryScreens
<1> QED
  BY <1>1, <1>2 DEF Way!In, EntryPlaces, Way!Location

\* So may an invitation's link, and a confirmation that names the right workspace.
LEMMA EntryInvites ==
    ASSUME NEW c \in Credentials
    PROVE  /\ Way!Invite(c) \in EntryPlaces
           /\ Way!WorkspaceJoin(Of[c], c) \in EntryPlaces
<1>1. Of[c] \in Workspaces
  BY EntryBounds
<1>2. Way!Invite(c) \in EntryPlaces
  <2> DEFINE l == [screen |-> "invite", workspace |-> Way!None,
                   credential |-> Way!NoCredential, nickname |-> FALSE]
  <2>1. l \in Way!Location /\ l.screen = "invite"
    <3>1. "invite" \in Way!ScreenNames /\ FALSE \in BOOLEAN
      BY DEF Way!ScreenNames
    <3> QED
      BY <3>1 DEF Way!Location
  <2>2. Way!Invite(c) = [l EXCEPT !.credential = c]
    BY DEF Way!Invite, Way!At
  <2> HIDE DEF l
  <2> QED
    BY <2>1, <2>2 DEF EntryPlaces, Way!Location
<1>3. Way!WorkspaceJoin(Of[c], c) \in EntryPlaces
  <2>1. PICK j \in EntryPlaces :
           j = Way!In("join", Of[c]) /\ j.screen = "join" /\ j.workspace = Of[c]
    BY <1>1, EntryIn DEF EntryScreens, Way!ScreenNames
  <2>2. Way!WorkspaceJoin(Of[c], c) = [j EXCEPT !.credential = c]
    BY <2>1 DEF Way!WorkspaceJoin
  <2> QED
    BY <2>1, <2>2 DEF EntryPlaces, Way!Location
<1> QED
  BY <1>2, <1>3

\* The welcome may be, with its nickname.
LEMMA EntryComplete == Way!OnboardingComplete \in EntryPlaces
<1>1. PICK l \in EntryPlaces : l = Way!At("complete") /\ l.screen = "complete"
  BY EntryAt DEF EntryScreens, Way!ScreenNames
<1>2. Way!OnboardingComplete = [l EXCEPT !.nickname = TRUE]
  BY <1>1 DEF Way!OnboardingComplete
<1> QED
  BY <1>1, <1>2 DEF EntryPlaces, Way!Location

\* The location on screen is one of them.
LEMMA EntryHere ==
    ASSUME EntryHistory
    PROVE  Way!Here \in EntryPlaces /\ Len(entries) \in Nat \ {0}
<1>1. Len(entries) \in 1..Len(entries) /\ entries \in Seq(EntryPlaces)
  BY EntryBounds DEF EntryHistory, EntryPaths
<1> QED
  BY <1>1, ElementOfSeq DEF Way!Here

\* An entry of the query client that is asked for, or whose answer is a failure, keeps its data.
LEMMA EntryFetch ==
    ASSUME NEW e \in Way!Entries
    PROVE  /\ Way!Fetch(e) \in Way!Entries /\ Way!Fetch(e).has = e.has
           /\ Way!Fetch(e).spaces = e.spaces /\ (e.has => Way!Fetch(e).error = e.error)
BY DEF Way!Fetch, Way!Entries, Way!Errors

LEMMA EntryFail ==
    ASSUME NEW e \in Way!Entries, NEW x \in Way!Errors
    PROVE  /\ Way!Fail(e, x) \in Way!Entries /\ Way!Fail(e, x).has = e.has
           /\ Way!Fail(e, x).spaces = e.spaces
BY DEF Way!Fail, Way!Entries, Way!Errors

LEMMA EntrySucceed ==
    ASSUME NEW held \in SUBSET Workspaces, NEW l \in Workspaces \cup {Way!None}
    PROVE  Way!Succeed(held, l) \in Way!Entries /\ Way!Succeed(held, l).spaces = held
BY DEF Way!Succeed, Way!Entries, Way!Errors

LEMMA EntryEmpty == Way!Empty \in Way!Entries /\ Way!Empty.spaces = {}
BY DEF Way!Empty, Way!Entries, Way!Errors

\* The keys are told apart.
LEMMA EntryKeys ==
    /\ Way!Me \in Way!Keys /\ Way!List \in Way!Keys
    /\ \A x \in Credentials : /\ Way!Preview(x) \in Way!Keys
                              /\ Way!Preview(x) # Way!Me /\ Way!Preview(x) # Way!List
    /\ \A x, y : Way!Preview(x) = Way!Preview(y) => x = y
    /\ \A x, w : Way!Preview(x) # Way!Detail(w) /\ Way!Preview(x) # Way!Invitation(w)
BY DEF Way!Keys, Way!Me, Way!List, Way!Preview, Way!Detail, Way!Invitation

\* What is asked for is known as before.
LEMMA EntryFetchAll ==
    ASSUME NEW c, EntryKnown(c), NEW keys
    PROVE  /\ EntryKnown(Way!FetchAll(c, keys))
           /\ \A x \in Credentials : Way!Preview(x) \notin keys =>
                Way!FetchAll(c, keys)[Way!Preview(x)] = c[Way!Preview(x)]
<1> DEFINE f == Way!FetchAll(c, keys)
<1>1. f = [k \in Way!Keys |-> IF k \in keys THEN Way!Fetch(c[k]) ELSE c[k]]
  BY DEF Way!FetchAll
<1>2. \A k \in Way!Keys : /\ c[k] \in Way!Entries /\ Way!Fetch(c[k]) \in Way!Entries
                          /\ Way!Fetch(c[k]).spaces = c[k].spaces
  BY EntryFetch DEF EntryKnown
<1> HIDE DEF f
<1>3. f \in [Way!Keys -> Way!Entries]
  BY <1>1, <1>2
<1>4. \A x \in Credentials : Way!Preview(x) \in Way!Keys
  BY EntryKeys
<1>5. \A x \in Credentials : f[Way!Preview(x)].spaces = c[Way!Preview(x)].spaces
  BY <1>1, <1>2, <1>4
<1>6. \A x \in Credentials : Way!Preview(x) \notin keys => f[Way!Preview(x)] = c[Way!Preview(x)]
  BY <1>1, <1>4
<1>7. EntryKnown(f)
  BY <1>3, <1>5 DEF EntryKnown
<1> QED
  BY <1>6, <1>7 DEF f

-----------------------------------------------------------------------------
\* What a screen sends the user to

\* The workspace that a member with some is led into.
LEMMA EntryWorkspace ==
    ASSUME NEW l \in Way!Entries, l.spaces # {}
    PROVE  Way!GetEntryWorkspaceId(l) \in Workspaces
<1>1. l.spaces \subseteq Workspaces /\ l.spaces \subseteq Nat
  BY EntryBounds DEF Way!Entries
<1>2. CASE l.last \in l.spaces
  BY <1>1, <1>2 DEF Way!GetEntryWorkspaceId
<1>3. CASE l.last \notin l.spaces
  <2>1. PICK w \in l.spaces : \A v \in l.spaces : ~(<<v, w>> \in OpToRel(<, Nat))
    BY <1>1, NatLessThanWellFounded, WFMin
  <2>2. ASSUME NEW v \in l.spaces, ~(w <= v)
        PROVE  FALSE
    <3>1. v \in Nat /\ w \in Nat /\ v < w
      BY <1>1, <2>2
    <3>2. <<v, w>> \in OpToRel(<, Nat)
      BY <3>1 DEF OpToRel
    <3> QED
      BY <2>1, <3>2
  <2>3. (CHOOSE u \in l.spaces : \A v \in l.spaces : u <= v) \in l.spaces
    BY <2>2
  <2> QED
    BY <1>1, <1>3, <2>3 DEF Way!GetEntryWorkspaceId
<1> QED
  BY <1>2, <1>3

\* Wherever a guard sends the user, it is to a location.
LEMMA EntrySends ==
    ASSUME EntryHistory, EntryKnown(cache)
    PROVE  Way!Sends(Way!Here, cache) \subseteq EntryPlaces
<1>0. PICK l \in EntryPlaces : l = Way!Here
  BY EntryHere
<1>1. /\ Way!Login \in EntryPlaces /\ Way!Choice \in EntryPlaces /\ Way!Home \in EntryPlaces
      /\ Way!JoinError \in EntryPlaces /\ Way!Onboarding \in EntryPlaces
  BY EntryAt DEF EntryScreens, Way!ScreenNames, Way!Login, Way!Choice, Way!Home, Way!JoinError, Way!Onboarding
<1>2. Way!EntryRedirect(cache) \subseteq EntryPlaces
  <2>1. cache[Way!List] \in Way!Entries
    BY EntryKeys DEF EntryKnown
  <2>2. PICK e \in Way!Entries : e = cache[Way!List]
    BY <2>1
  <2>3. e.spaces # {} => Way!WorkspaceHome(Way!GetEntryWorkspaceId(e)) \in EntryPlaces
    BY EntryWorkspace, EntryIn DEF EntryScreens, Way!ScreenNames, Way!WorkspaceHome
  <2> QED
    BY <1>1, <2>2, <2>3 DEF Way!EntryRedirect
<1>3. \A e : Way!WorkspaceAccessGuard(e) \subseteq EntryPlaces
  BY <1>1 DEF Way!WorkspaceAccessGuard
<1>4. Way!GuestGuard(cache) \subseteq EntryPlaces
  BY <1>1 DEF Way!GuestGuard
<1>5. Way!AuthGuard(l, cache) \subseteq EntryPlaces
  BY <1>1, <1>3 DEF Way!AuthGuard
<1>6. Way!WorkspaceEntry(l, cache) \subseteq EntryPlaces
  BY <1>1, <1>3 DEF Way!WorkspaceEntry
<1>7. l.screen = "invite" => Way!WorkspaceInviteLinkGate(l, cache) \subseteq EntryPlaces
  <2> SUFFICES ASSUME l.screen = "invite"
               PROVE  Way!WorkspaceInviteLinkGate(l, cache) \subseteq EntryPlaces
    OBVIOUS
  <2>1. PICK c \in Credentials : c = l.credential
    BY DEF EntryPlaces
  <2>2. cache[Way!Preview(c)].spaces \subseteq {Of[c]}
    BY DEF EntryKnown
  <2>3. \A w \in cache[Way!Preview(c)].spaces : Way!WorkspaceJoin(w, c) \in EntryPlaces
    BY <2>2, EntryInvites
  <2> QED
    BY <1>1, <2>1, <2>3 DEF Way!WorkspaceInviteLinkGate
<1> QED
  BY <1>0, <1>1, <1>2, <1>4, <1>5, <1>6, <1>7 DEF Way!Sends

\* So it is wherever a button leads.
LEMMA EntryLinks ==
    ASSUME EntryHistory
    PROVE  Way!Links(Way!Here) \subseteq EntryPlaces
<1>1. PICK l \in EntryPlaces : l = Way!Here
  BY EntryHere
<1>2. l.workspace \in Workspaces \cup {Way!None}
  BY DEF EntryPlaces, Way!Location
<1>3. /\ Way!Choice \in EntryPlaces /\ Way!At("create") \in EntryPlaces
      /\ Way!At("code") \in EntryPlaces /\ Way!In("notion", l.workspace) \in EntryPlaces
  BY <1>2, EntryAt, EntryIn DEF EntryScreens, Way!ScreenNames, Way!Choice
<1> QED
  BY <1>1, <1>3 DEF Way!Links

\* Locations that the user opens are such.
LEMMA EntryLocations == Way!Locations \subseteq EntryPlaces
<1>1. /\ \A s \in {"home", "login", "onboarding", "complete", "workspace", "create", "code",
                   "join-error"} : Way!At(s) \in EntryPlaces
      /\ \A s \in {"team", "join", "layout"} : \A w \in Workspaces \cup {Way!None} :
           Way!In(s, w) \in EntryPlaces
  BY EntryAt, EntryIn DEF EntryScreens, Way!ScreenNames
<1>2. \A c \in Credentials : Way!Invite(c) \in EntryPlaces
  BY EntryInvites
<1> QED
  BY <1>1, <1>2 DEF Way!Locations, Way!WorkspaceHome

\* Histories, one location longer, changed at their end, or without it.
LEMMA EntryPushed ==
    ASSUME EntryHistory, NEW l \in EntryPlaces
    PROVE  /\ Way!Pushed(l) \in EntryPaths /\ Way!Pushed(l)[Len(Way!Pushed(l))] = l
           /\ first \in 1..Len(Way!Pushed(l))
<1>1. /\ entries \in Seq(EntryPlaces) /\ Len(entries) \in 1..MaxEntries
      /\ first \in 1..Len(entries) /\ MaxEntries \in Nat
  BY EntryBounds DEF EntryHistory, EntryPaths
<1>2. entries # <<>>
  BY <1>1
<1>3. CASE Len(entries) = MaxEntries
  <2>1. Tail(entries) \in Seq(EntryPlaces) /\ Len(Tail(entries)) = Len(entries) - 1
    BY <1>1, <1>2, HeadTailProperties
  <2>2. PICK t \in Seq(EntryPlaces) : t = Tail(entries) /\ Len(t) = Len(entries) - 1
    BY <2>1
  <2>3. /\ Append(t, l) \in Seq(EntryPlaces) /\ Len(Append(t, l)) = Len(t) + 1
        /\ Append(t, l)[Len(t) + 1] = l
    BY AppendProperties
  <2>4. Way!Pushed(l) = Append(t, l)
    BY <1>3, <2>2 DEF Way!Pushed
  <2> QED
    BY <1>1, <1>3, <2>2, <2>3, <2>4 DEF EntryPaths
<1>4. CASE Len(entries) # MaxEntries
  <2>1. /\ Append(entries, l) \in Seq(EntryPlaces)
        /\ Len(Append(entries, l)) = Len(entries) + 1
        /\ Append(entries, l)[Len(entries) + 1] = l
    BY <1>1, AppendProperties
  <2>2. Way!Pushed(l) = Append(entries, l)
    BY <1>4 DEF Way!Pushed
  <2> QED
    BY <1>1, <1>4, <2>1, <2>2 DEF EntryPaths
<1> QED
  BY <1>3, <1>4

LEMMA EntryReplaced ==
    ASSUME EntryHistory, NEW l \in EntryPlaces
    PROVE  /\ Way!Replaced(l) \in EntryPaths /\ Way!Replaced(l)[Len(Way!Replaced(l))] = l
           /\ first \in 1..Len(Way!Replaced(l))
<1>1. /\ entries \in Seq(EntryPlaces) /\ Len(entries) \in 1..MaxEntries
      /\ first \in 1..Len(entries) /\ MaxEntries \in Nat
  BY EntryBounds DEF EntryHistory, EntryPaths
<1>2. Len(entries) \in 1..Len(entries)
  BY <1>1
<1> DEFINE n == Len(entries)
           r == [entries EXCEPT ![n] = l]
<1>3. r \in Seq(EntryPlaces) /\ Len(r) = n /\ \A j \in 1..n : r[j] = IF j = n THEN l ELSE entries[j]
  BY <1>1, <1>2, ExceptSeq
<1>4. Way!Replaced(l) = r
  BY DEF Way!Replaced
<1> HIDE DEF r
<1> QED
  BY <1>1, <1>2, <1>3, <1>4 DEF EntryPaths

LEMMA EntryBack ==
    ASSUME EntryHistory, Len(entries) > 1
    PROVE  SubSeq(entries, 1, Len(entries) - 1) \in EntryPaths
           /\ Len(SubSeq(entries, 1, Len(entries) - 1)) = Len(entries) - 1
<1>1. /\ entries \in Seq(EntryPlaces) /\ Len(entries) \in 1..MaxEntries /\ MaxEntries \in Nat
  BY EntryBounds DEF EntryHistory, EntryPaths
<1>2. \A i \in 1..(Len(entries) - 1) : entries[i] \in EntryPlaces
  BY <1>1, ElementOfSeq
<1>3. /\ SubSeq(entries, 1, Len(entries) - 1) \in Seq(EntryPlaces)
      /\ Len(SubSeq(entries, 1, Len(entries) - 1)) = Len(entries) - 1
  BY <1>1, <1>2, SubSeqProperties
<1> QED
  BY <1>1, <1>3 DEF EntryPaths

-----------------------------------------------------------------------------
\* Another address, with or without another page

\* What the page knows.
EntryPage == EntryHistory /\ EntryKnown(cache) /\ EntryCode /\ EntryRequests

\* No answer moves the user but on the screen that asked.
EntryLate ==
    \A r \in requests :
        entries' # entries /\ {q \in requests' : q.kind = r.kind} = {}
          => <<Way!Here.screen, r.kind>> \in Way!Submits

\* A card without a code.
LEMMA EntryNotTyped == Way!NotTyped \in EntryTyped /\ Way!NotTyped.verified = FALSE
BY DEF Way!NotTyped, EntryTyped

\* With the card of a code nothing asks for the code.
LEMMA EntryCodeAsks ==
    ASSUME NEW l, l.screen = "code", NEW c, NEW from
    PROVE  Way!Mounted(from, l, c) \subseteq {Way!Me}
<1>1. Way!Observed(l, c, Way!NoCredential) \subseteq {Way!Me}
  BY DEF Way!Observed
<1> QED
  BY <1>1 DEF Way!Mounted

\* The tick stands as long as its answer does.
LEMMA EntryTickStays ==
    ASSUME EntryPage, code' = code,
           code.verified => cache'[Way!Preview(code.typed)] = cache[Way!Preview(code.typed)]
    PROVE  EntryTick'
BY DEF EntryTick, EntryPage, EntryCode

\* Another address on the page.
LEMMA EntryArrives ==
    ASSUME EntryPage, NEW h \in EntryPaths, first \in 1..Len(h), Way!Arrive(h)
    PROVE  entries' = h /\ EntryHistory' /\ EntryKnown(cache') /\ EntryCode'
<1> DEFINE to == h[Len(h)]
           keys == Way!Mounted(Way!Here, to, cache)
<1>1. entries' = h /\ cache' = Way!FetchAll(cache, keys)
  BY DEF Way!Arrive
<1>2. first' \in 1..Len(h)
  <2>1. Len(h) \in Nat
    BY EntryBounds DEF EntryPaths
  <2>2. first' = first \/ (first > 1 /\ first' = first - 1)
    BY DEF Way!Arrive
  <2> QED
    BY <2>1, <2>2
<1>3. recorded' \in Workspaces \cup {Way!None}
  BY DEF Way!Arrive, EntryPage, EntryHistory
<1>4. EntryHistory'
  BY <1>1, <1>2, <1>3 DEF EntryHistory
<1>5. EntryKnown(cache')
  BY <1>1, EntryFetchAll DEF EntryPage
<1>6. Way!Here' = to
  BY <1>1 DEF Way!Here
<1>7. CASE to.screen = Way!Here.screen
  <2>1. code' = code
    BY <1>7 DEF Way!Arrive
  <2>2. code.verified => to.screen = "code"
    BY <1>7, EntryNotTyped DEF EntryPage, EntryCode
  <2>3. code.verified => Way!Preview(code.typed) \notin keys /\ code.typed \in Credentials
    BY <2>2, EntryCodeAsks, EntryKeys DEF EntryPage, EntryCode, EntryTick
  <2>4. code.verified => cache'[Way!Preview(code.typed)] = cache[Way!Preview(code.typed)]
    BY <1>1, <2>3, EntryFetchAll DEF EntryPage
  <2>5. EntryTick'
    BY <2>1, <2>4, EntryTickStays
  <2>6. to.screen # "code" => code = Way!NotTyped
    BY <1>7 DEF EntryPage, EntryCode
  <2> QED
    BY <1>5, <1>4, <1>1, <1>6, <2>1, <2>5, <2>6 DEF EntryPage, EntryCode
<1>8. CASE to.screen # Way!Here.screen
  <2>1. code' = Way!NotTyped
    BY <1>8 DEF Way!Arrive
  <2> QED
    BY <1>1, <1>4, <1>5, <2>1, EntryNotTyped DEF EntryCode, EntryTick
<1> QED
  BY <1>7, <1>8

\* Who is still listened to after it.
LEMMA EntryHeard ==
    ASSUME EntryPage, NEW rs \in SUBSET requests, NEW h, entries' = h,
           requests' = Way!Heard(rs, h[Len(h)])
    PROVE  EntryRequests' /\ \A r \in rs : \E q \in requests' : q.kind = r.kind
<1>0. rs \subseteq EntryRequested
  BY DEF EntryPage, EntryRequests
<1>1. Way!Here' = h[Len(h)]
  BY DEF Way!Here
<1>2. CASE h[Len(h)].screen # Way!Here.screen
  <2>1. requests' = {[r EXCEPT !.heard = FALSE] : r \in rs}
    BY <1>2 DEF Way!Heard, Way!Leaves, Way!Unheard
  <2>2. \A r \in EntryRequested : /\ [r EXCEPT !.heard = FALSE] \in EntryRequested
                                  /\ [r EXCEPT !.heard = FALSE].heard = FALSE
                                  /\ [r EXCEPT !.heard = FALSE].kind = r.kind
    BY DEF EntryRequested
  <2> QED
    BY <1>0, <2>1, <2>2 DEF EntryRequests
<1>3. CASE h[Len(h)].screen = Way!Here.screen
  <2>1. requests' = rs
    BY <1>3 DEF Way!Heard, Way!Leaves
  <2> QED
    BY <1>0, <1>1, <1>3, <2>1 DEF EntryPage, EntryRequests
<1> QED
  BY <1>2, <1>3

\* Going somewhere takes nobody's answer away.
LEMMA EntryGoes ==
    ASSUME EntryPage, NEW h \in EntryPaths, first \in 1..Len(h), Way!Go(h)
    PROVE  EntryPage' /\ EntryLate
<1>1. Way!Arrive(h) /\ requests' = Way!Heard(requests, h[Len(h)])
  BY DEF Way!Go
<1>2. entries' = h /\ EntryHistory' /\ EntryKnown(cache') /\ EntryCode'
  BY <1>1, EntryArrives
<1>3. EntryRequests' /\ \A r \in requests : \E q \in requests' : q.kind = r.kind
  BY <1>1, <1>2, EntryHeard
<1> QED
  BY <1>2, <1>3 DEF EntryPage, EntryLate

\* Another page knows nothing, and listens to no one.
LEMMA EntryLoads ==
    ASSUME EntryPage, NEW h \in EntryPaths, Way!Load(h)
    PROVE  EntryPage' /\ EntryLate
<1>1. entries' = h /\ first' = Len(h) /\ recorded' = Way!None /\ code' = Way!NotTyped
  BY DEF Way!Load
<1>2. EntryHistory'
  <2>1. Len(h) \in 1..Len(h)
    BY EntryBounds DEF EntryPaths
  <2> QED
    BY <1>1, <2>1 DEF EntryHistory
<1>3. EntryKnown([k \in Way!Keys |-> Way!Empty])
  BY EntryEmpty, EntryKeys DEF EntryKnown
<1>4. EntryKnown(cache')
  BY <1>3, EntryFetchAll DEF Way!Load
<1>5. EntryCode'
  BY <1>1, EntryNotTyped DEF EntryCode, EntryTick
<1>6. EntryRequests' /\ \A r \in requests : \E q \in requests' : q.kind = r.kind
  <2>1. requests' = {[r EXCEPT !.heard = FALSE] : r \in requests}
    BY DEF Way!Load, Way!Unheard
  <2>2. \A r \in EntryRequested : /\ [r EXCEPT !.heard = FALSE] \in EntryRequested
                                  /\ [r EXCEPT !.heard = FALSE].heard = FALSE
                                  /\ [r EXCEPT !.heard = FALSE].kind = r.kind
    BY DEF EntryRequested
  <2> QED
    BY <2>1, <2>2 DEF EntryPage, EntryRequests
<1> QED
  BY <1>2, <1>4, <1>5, <1>6 DEF EntryPage, EntryLate

-----------------------------------------------------------------------------
\* Answers

\* What the server answers is of what was asked for.
LEMMA EntryAnswered ==
    ASSUME EntryPage, EntryWeb, NEW k \in Way!Keys
    PROVE  /\ Way!Answered(k) \in Way!Entries
           /\ \A x \in Credentials : k = Way!Preview(x) => Way!Answered(k).spaces \subseteq {Of[x]}
<1>1. PICK e \in Way!Entries : e = cache[k]
  BY DEF EntryPage, EntryKnown
<1>2. /\ Way!Fail(e, "unauthorized") \in Way!Entries /\ Way!Fail(e, "refused") \in Way!Entries
      /\ Way!Fail(e, "unauthorized").spaces = e.spaces
      /\ Way!Fail(e, "refused").spaces = e.spaces
  BY EntryFail DEF Way!Errors
<1>3. \A x \in Credentials : k = Way!Preview(x) => e.spaces \subseteq {Of[x]}
  BY <1>1 DEF EntryPage, EntryKnown
<1>4. CASE k = Way!Me
  <2>1. k[1] = "me"
    BY <1>4 DEF Way!Me
  <2>2. Way!Succeed({}, Way!None) \in Way!Entries
    BY EntrySucceed
  <2>3. Way!Answered(k) \in {Way!Fail(e, "unauthorized"), Way!Succeed({}, Way!None)}
    BY <1>1, <2>1 DEF Way!Answered
  <2> QED
    BY <1>2, <1>4, <2>2, <2>3, EntryKeys
<1>5. CASE k = Way!List
  <2>1. k[1] = "list"
    BY <1>5 DEF Way!List
  <2>2. Way!Succeed(spaces, lastViewed) \in Way!Entries
    BY EntrySucceed DEF EntryWeb
  <2>3. Way!Answered(k) \in {Way!Fail(e, "unauthorized"), Way!Succeed(spaces, lastViewed)}
    BY <1>1, <2>1 DEF Way!Answered
  <2> QED
    BY <1>2, <1>5, <2>2, <2>3, EntryKeys
<1>6. ASSUME NEW w \in Workspaces, k = Way!Detail(w) \/ k = Way!Invitation(w)
      PROVE  Way!Answered(k) \in Way!Entries /\ \A x \in Credentials : k # Way!Preview(x)
  <2>1. k[1] \in {"workspace", "invitation"} /\ k[2] = w
    BY <1>6 DEF Way!Detail, Way!Invitation
  <2>2. Way!Succeed({w}, Way!None) \in Way!Entries
    BY EntrySucceed
  <2>3. Way!Answered(k) \in {Way!Fail(e, "unauthorized"), Way!Fail(e, "refused"),
                             Way!Succeed({w}, Way!None)}
    BY <1>1, <2>1 DEF Way!Answered
  <2> QED
    BY <1>2, <1>6, <2>2, <2>3, EntryKeys
<1>7. ASSUME NEW c \in Credentials, k = Way!Preview(c)
      PROVE  /\ Way!Answered(k) \in Way!Entries
             /\ \A x \in Credentials :
                  k = Way!Preview(x) => Way!Answered(k).spaces \subseteq {Of[x]}
  <2>1. k[1] = "preview" /\ k[2] = c
    BY <1>7 DEF Way!Preview
  <2>2. /\ Way!Succeed({Of[c]}, Way!None) \in Way!Entries
        /\ Way!Succeed({Of[c]}, Way!None).spaces = {Of[c]}
    BY EntrySucceed, EntryBounds
  <2>3. Way!Answered(k) \in {Way!Fail(e, "refused"), Way!Succeed({Of[c]}, Way!None)}
    BY <1>1, <2>1 DEF Way!Answered
  <2>4. \A x \in Credentials : k = Way!Preview(x) => x = c
    BY <1>7, EntryKeys
  <2> QED
    BY <1>2, <1>3, <1>7, <2>2, <2>3, <2>4
<1>8. \/ k = Way!Me \/ k = Way!List
      \/ \E w \in Workspaces : k = Way!Detail(w) \/ k = Way!Invitation(w)
      \/ \E c \in Credentials : k = Way!Preview(c)
  BY DEF Way!Keys
<1> QED
  BY <1>4, <1>5, <1>6, <1>7, <1>8

\* The user who stays where he is hears no one who was not heard before.
LEMMA EntryUnheard ==
    ASSUME EntryPage, entries' = entries,
           requests' = requests \/ requests' = Way!Unheard(requests)
    PROVE  EntryRequests' /\ EntryLate
<1>1. Way!Here' = Way!Here
  BY DEF Way!Here
<1>2. requests \subseteq EntryRequested
  BY DEF EntryPage, EntryRequests
<1>3. CASE requests' = requests
  BY <1>1, <1>3 DEF EntryPage, EntryRequests, EntryLate
<1>4. CASE requests' = Way!Unheard(requests)
  <2>1. requests' = {[r EXCEPT !.heard = FALSE] : r \in requests}
    BY <1>4 DEF Way!Unheard
  <2>2. \A r \in EntryRequested : /\ [r EXCEPT !.heard = FALSE] \in EntryRequested
                                  /\ [r EXCEPT !.heard = FALSE].heard = FALSE
    BY DEF EntryRequested
  <2> QED
    BY <1>2, <2>1, <2>2 DEF EntryRequests, EntryLate
<1> QED
  BY <1>3, <1>4

\* An answer comes in.
LEMMA EntryReceives ==
    ASSUME EntryPage, NEW k \in Way!Keys, NEW e \in Way!Entries, Way!Receive(k, e),
           \A x \in Credentials : k = Way!Preview(x) => e.spaces \subseteq {Of[x]}
    PROVE  EntryPage' /\ EntryLate
<1>1. /\ entries' = entries /\ first' = first /\ recorded' = recorded
      /\ requests' = requests \/ requests' = Way!Unheard(requests)
      /\ code' = code \/ code' = Way!NotTyped
      /\ cache[k].fetching
  BY DEF Way!Receive
<1> DEFINE now == [cache EXCEPT ![k] = e]
<1>2. PICK keys \in {{Way!List}, {}} : cache' = Way!FetchAll(now, keys)
  BY DEF Way!Receive
<1>3. EntryKnown(now)
  <2>1. now \in [Way!Keys -> Way!Entries]
    BY DEF EntryPage, EntryKnown
  <2>2. \A x \in Credentials : Way!Preview(x) \in Way!Keys
    BY EntryKeys
  <2>3. \A x \in Credentials :
          now[Way!Preview(x)] = IF k = Way!Preview(x) THEN e ELSE cache[Way!Preview(x)]
    BY <2>2 DEF EntryPage, EntryKnown
  <2> HIDE DEF now
  <2> QED
    BY <2>1, <2>3 DEF EntryPage, EntryKnown
<1>4. EntryKnown(cache')
  BY <1>2, <1>3, EntryFetchAll
<1>5. EntryHistory'
  BY <1>1 DEF EntryPage, EntryHistory
<1>6. EntryRequests' /\ EntryLate
  BY <1>1, EntryUnheard
<1>7. EntryCode'
  <2>1. CASE code' = Way!NotTyped
    BY <2>1, EntryNotTyped DEF EntryCode, EntryTick
  <2>2. CASE code' = code
    <3>1. code.verified => /\ code.typed \in Credentials
                           /\ ~cache[Way!Preview(code.typed)].fetching
      BY DEF EntryPage, EntryCode, EntryTick
    <3>2. code.verified => now[Way!Preview(code.typed)] = cache[Way!Preview(code.typed)]
      BY <1>1, <3>1, EntryKeys DEF EntryPage, EntryKnown
    <3> HIDE DEF now
    <3>3. code.verified => cache'[Way!Preview(code.typed)] = cache[Way!Preview(code.typed)]
      BY <1>2, <1>3, <3>1, <3>2, EntryFetchAll, EntryKeys
    <3>4. EntryTick'
      BY <2>2, <3>3, EntryTickStays
    <3> QED
      BY <1>1, <2>2, <3>4 DEF EntryPage, EntryCode, Way!Here
  <2> QED
    BY <1>1, <2>1, <2>2
<1> QED
  BY <1>4, <1>5, <1>6, <1>7 DEF EntryPage

\* A request is over.
LEMMA EntryDone ==
    ASSUME EntryPage, NEW r, NEW error, NEW to, Way!Done(r, error, to),
           to = <<>> \/ (to \in EntryPaths /\ first \in 1..Len(to))
    PROVE  EntryPage' /\ EntryLate
<1>0. r \in requests
  BY DEF Way!Done
<1>1. CASE r.heard /\ to # <<>>
  <2>1. Way!Arrive(to) /\ requests' = Way!Heard(requests \ {r}, to[Len(to)])
    BY <1>1 DEF Way!Done
  <2>2. entries' = to /\ EntryHistory' /\ EntryKnown(cache') /\ EntryCode'
    BY <1>1, <2>1, EntryArrives
  <2>3. EntryRequests' /\ \A p \in requests \ {r} : \E q \in requests' : q.kind = p.kind
    BY <2>1, <2>2, EntryHeard
  <2>4. <<Way!Here.screen, r.kind>> \in Way!Submits
    BY <1>0, <1>1 DEF EntryPage, EntryRequests
  <2> QED
    BY <2>2, <2>3, <2>4 DEF EntryPage, EntryLate
<1>2. CASE ~(r.heard /\ to # <<>>)
  <2>1. /\ entries' = entries /\ first' = first /\ code' = code /\ recorded' = recorded
        /\ requests' = requests \ {r}
        /\ \/ cache' = cache
           \/ cache' = Way!FetchAll(cache, {Way!List} \cap
                                      Way!Observed(Way!Here, cache, Way!NoCredential))
    BY <1>2 DEF Way!Done
  <2>2. PICK keys \in SUBSET {Way!List} : cache' = cache \/ cache' = Way!FetchAll(cache, keys)
    BY <2>1
  <2>3. EntryKnown(cache')
    BY <2>2, EntryFetchAll DEF EntryPage
  <2>4. code.verified => cache'[Way!Preview(code.typed)] = cache[Way!Preview(code.typed)]
    BY <2>2, EntryFetchAll, EntryKeys DEF EntryPage, EntryCode, EntryTick
  <2>5. EntryTick'
    BY <2>1, <2>4, EntryTickStays
  <2>6. EntryCode'
    BY <2>1, <2>5 DEF EntryPage, EntryCode, Way!Here
  <2>7. EntryHistory'
    BY <2>1 DEF EntryPage, EntryHistory
  <2>8. EntryRequests'
    BY <2>1 DEF EntryPage, EntryRequests, Way!Here
  <2> QED
    BY <2>1, <2>3, <2>6, <2>7, <2>8 DEF EntryPage, EntryLate
<1> QED
  BY <1>1, <1>2

-----------------------------------------------------------------------------
\* Every action

\* The server stays what it is, whatever the visit does.
LEMMA EntryWebNext ==
    ASSUME EntryInv, Way!Next
    PROVE  EntryWeb'
<1>0. /\ EntryWeb /\ EntryPage /\ MaxEntryFaults \in Nat
      /\ Workspaces \subseteq Nat \ {0} /\ Of \in [Credentials -> Workspaces]
  BY EntryBounds DEF EntryInv, EntryPage
<1>1. Way!MaxMoves \in Nat
  BY <1>0, EntryBounds DEF EntryWeb, Way!MaxMoves
<1>2. visit' = visit
  BY DEF Way!Next, Way!Redirect, Way!Open, Way!Reload, Way!Back, Way!Follow, Way!LogIn,
     Way!Refetch, Way!Retry, Way!Answer, Way!AnswerFails, Way!Receive, Way!UpdateLastViewed,
     Way!Type, Way!ShowSuccess, Way!SuccessShown, Way!Submit, Way!NicknameAnswered,
     Way!CreateAnswered, Way!AcceptAnswered, Way!RequestFails, Way!Done, Way!SessionEnds,
     Way!Leave, Way!Expire
<1>3. moves' \in 0..Way!MaxMoves
  <2>1. moves' = moves \/ Way!Moves
    BY DEF Way!Next, Way!Redirect, Way!Open, Way!Reload, Way!Back, Way!Follow, Way!LogIn,
       Way!Refetch, Way!Retry, Way!Answer, Way!AnswerFails, Way!Receive, Way!UpdateLastViewed,
       Way!Type, Way!ShowSuccess, Way!SuccessShown, Way!Submit, Way!NicknameAnswered,
       Way!CreateAnswered, Way!AcceptAnswered, Way!RequestFails, Way!Done, Way!SessionEnds,
       Way!Leave, Way!Expire
  <2> QED
    BY <1>0, <1>1, <2>1 DEF Way!Moves, EntryWeb
<1>4. entryFaults' \in 0..MaxEntryFaults
  <2>1. entryFaults' = entryFaults \/ Way!Faults
    BY DEF Way!Next, Way!Redirect, Way!Open, Way!Reload, Way!Back, Way!Follow, Way!LogIn,
       Way!Refetch, Way!Retry, Way!Answer, Way!AnswerFails, Way!Receive, Way!UpdateLastViewed,
       Way!Type, Way!ShowSuccess, Way!SuccessShown, Way!Submit, Way!NicknameAnswered,
       Way!CreateAnswered, Way!AcceptAnswered, Way!RequestFails, Way!Done, Way!SessionEnds,
       Way!Leave, Way!Expire
  <2> QED
    BY <1>0, <2>1 DEF Way!Faults, EntryWeb
<1>5. session' \in {"none", "onboarding", "member"}
  BY <1>0 DEF EntryWeb, Way!Next, Way!Redirect, Way!Open, Way!Reload, Way!Back, Way!Follow,
     Way!LogIn, Way!Refetch, Way!Retry, Way!Answer, Way!AnswerFails, Way!Receive,
     Way!UpdateLastViewed, Way!Type, Way!ShowSuccess, Way!SuccessShown, Way!Submit,
     Way!NicknameAnswered, Way!CreateAnswered, Way!AcceptAnswered, Way!RequestFails,
     Way!SessionEnds, Way!Leave, Way!Expire, Way!server
<1>6. valid' \subseteq Credentials
  BY <1>0 DEF EntryWeb, Way!Next, Way!Redirect, Way!Open, Way!Reload, Way!Back, Way!Follow,
     Way!LogIn, Way!Refetch, Way!Retry, Way!Answer, Way!AnswerFails, Way!Receive,
     Way!UpdateLastViewed, Way!Type, Way!ShowSuccess, Way!SuccessShown, Way!Submit,
     Way!NicknameAnswered, Way!CreateAnswered, Way!AcceptAnswered, Way!RequestFails, Way!Done,
     Way!SessionEnds, Way!Leave, Way!Expire, Way!server
<1>7. lastViewed' \in Workspaces \cup {Way!None}
  <2>1. lastViewed' = lastViewed \/ Way!UpdateLastViewed
    BY DEF Way!Next, Way!Redirect, Way!Open, Way!Reload, Way!Back, Way!Follow, Way!LogIn,
       Way!Refetch, Way!Retry, Way!Answer, Way!AnswerFails, Way!Receive, Way!Type,
       Way!ShowSuccess, Way!SuccessShown, Way!Submit, Way!NicknameAnswered,
       Way!CreateAnswered, Way!AcceptAnswered, Way!RequestFails, Way!SessionEnds, Way!Leave,
       Way!Expire, Way!server
  <2>2. CASE Way!UpdateLastViewed
    <3>1. PICK l \in EntryPlaces : l = Way!Here
      BY <1>0, EntryHere DEF EntryPage
    <3>2. l.workspace \in Workspaces \cup {Way!None}
      BY DEF EntryPlaces, Way!Location
    <3>3. lastViewed' = lastViewed \/ lastViewed' = l.workspace
      BY <2>2, <3>1 DEF Way!UpdateLastViewed
    <3> QED
      BY <1>0, <3>2, <3>3 DEF EntryWeb
  <2> QED
    BY <1>0, <2>1, <2>2 DEF EntryWeb
<1>8. spaces' \subseteq Workspaces
  <2>1. \/ spaces' \subseteq spaces
        \/ \E r \in requests : \/ Way!CreateAnswered(r) \/ Way!AcceptAnswered(r)
                               \/ Way!RequestFails(r)
    BY DEF Way!Next, Way!Redirect, Way!Open, Way!Reload, Way!Back, Way!Follow, Way!LogIn,
       Way!Refetch, Way!Retry, Way!Answer, Way!AnswerFails, Way!Receive, Way!Type,
       Way!UpdateLastViewed, Way!ShowSuccess, Way!SuccessShown, Way!Submit,
       Way!NicknameAnswered, Way!SessionEnds, Way!Leave, Way!Expire, Way!server
  <2>2. spaces \subseteq Workspaces /\ valid \subseteq Credentials
    BY <1>0 DEF EntryWeb
  <2>3. ASSUME NEW r \in requests, Way!CreateAnswered(r)
        PROVE  spaces' \subseteq Workspaces
    BY <2>2, <2>3 DEF Way!CreateAnswered
  <2>4. ASSUME NEW r \in requests, Way!AcceptAnswered(r)
        PROVE  spaces' \subseteq Workspaces
    BY <1>0, <2>2, <2>4 DEF Way!AcceptAnswered
  <2>5. ASSUME NEW r \in requests, Way!RequestFails(r)
        PROVE  spaces' \subseteq Workspaces
    BY <1>0, <2>2, <2>5 DEF Way!RequestFails
  <2> QED
    BY <2>1, <2>2, <2>3, <2>4, <2>5
<1> QED
  BY <1>0, <1>2, <1>3, <1>4, <1>5, <1>6, <1>7, <1>8 DEF EntryWeb, Way!MaxMoves

\* Each step keeps what the page knows, and moves nobody late.
LEMMA EntryRedirects ==
    ASSUME EntryPage, Way!Redirect
    PROVE  EntryPage' /\ EntryLate
<1>1. PICK to \in Way!Sends(Way!Here, cache) : Way!Go(Way!Replaced(to))
  BY DEF Way!Redirect
<1>2. to \in EntryPlaces
  BY EntrySends DEF EntryPage
<1> QED
  BY <1>1, <1>2, EntryReplaced, EntryGoes DEF EntryPage

LEMMA EntryFollows ==
    ASSUME EntryPage, Way!Follow
    PROVE  EntryPage' /\ EntryLate
<1>1. PICK to \in Way!Links(Way!Here) : Way!Go(Way!Pushed(to))
  BY DEF Way!Follow
<1>2. to \in EntryPlaces
  BY EntryLinks DEF EntryPage
<1> QED
  BY <1>1, <1>2, EntryPushed, EntryGoes DEF EntryPage

LEMMA EntryShown ==
    ASSUME EntryPage, Way!SuccessShown
    PROVE  EntryPage' /\ EntryLate
<1>1. PICK w \in cache[Way!Preview(code.typed)].spaces :
         Way!Go(Way!Pushed(Way!WorkspaceJoin(w, code.typed)))
  BY DEF Way!SuccessShown
<1>2. code.typed \in Credentials
  BY DEF Way!SuccessShown, EntryPage, EntryCode, EntryTick
<1>3. w = Of[code.typed]
  BY <1>2 DEF EntryPage, EntryKnown
<1>4. Way!WorkspaceJoin(w, code.typed) \in EntryPlaces
  BY <1>2, <1>3, EntryInvites
<1> QED
  BY <1>1, <1>4, EntryPushed, EntryGoes DEF EntryPage

LEMMA EntryGoesBack ==
    ASSUME EntryPage, Way!Back
    PROVE  EntryPage' /\ EntryLate
<1> DEFINE h == SubSeq(entries, 1, Len(entries) - 1)
<1>1. /\ Len(entries) > 1
      /\ IF Len(h) >= first THEN Way!Go(h) ELSE Way!Load(h)
  BY DEF Way!Back
<1>2. h \in EntryPaths /\ Len(h) = Len(entries) - 1
  BY <1>1, EntryBack DEF EntryPage
<1>3. Len(entries) \in Nat /\ first \in 1..Len(entries)
  BY EntryHere DEF EntryPage, EntryHistory
<1> HIDE DEF h
<1>4. CASE Len(h) >= first
  <2>1. first \in 1..Len(h)
    BY <1>2, <1>3, <1>4
  <2> QED
    BY <1>1, <1>2, <1>4, <2>1, EntryGoes
<1>5. CASE ~(Len(h) >= first)
  BY <1>1, <1>2, <1>5, EntryLoads
<1> QED
  BY <1>4, <1>5

LEMMA EntryOpens ==
    ASSUME EntryPage, Way!Reload \/ Way!LogIn \/ \E l \in Way!Locations : Way!Open(l)
    PROVE  EntryPage' /\ EntryLate
<1>1. entries \in EntryPaths
  BY DEF EntryPage, EntryHistory
<1>2. Way!Home \in EntryPlaces /\ Way!Onboarding \in EntryPlaces
  BY EntryAt DEF EntryScreens, Way!ScreenNames, Way!Home, Way!Onboarding
<1>3. CASE Way!Reload
  BY <1>1, <1>3, EntryLoads DEF Way!Reload
<1>4. CASE Way!LogIn
  <2>1. PICK l \in EntryPlaces : Way!Load(Way!Pushed(l))
    BY <1>2, <1>4 DEF Way!LogIn
  <2> QED
    BY <2>1, EntryPushed, EntryLoads DEF EntryPage
<1>5. CASE \E l \in Way!Locations : Way!Open(l)
  <2>1. PICK l \in EntryPlaces : Way!Load(Way!Pushed(l))
    BY <1>5, EntryLocations DEF Way!Open
  <2> QED
    BY <2>1, EntryPushed, EntryLoads DEF EntryPage
<1> QED
  BY <1>3, <1>4, <1>5

\* What is asked again is not the answer that a tick stands on.
LEMMA EntryAsks ==
    ASSUME EntryPage, Way!Refetch \/ Way!Retry
    PROVE  EntryPage' /\ EntryLate
<1>1. /\ entries' = entries /\ first' = first /\ code' = code /\ recorded' = recorded
      /\ requests' = requests
  BY DEF Way!Refetch, Way!Retry
<1>2. PICK keys : /\ cache' = Way!FetchAll(cache, keys)
                  /\ code.verified => Way!Preview(code.typed) \notin keys
  <2>1. CASE Way!Refetch
    BY <2>1 DEF Way!Refetch
  <2>2. CASE Way!Retry
    <3>1. Way!Retried(Way!Here, cache) \subseteq {Way!Me, Way!List}
      BY DEF Way!Retried
    <3>2. code.verified => Way!Preview(code.typed) \notin Way!Retried(Way!Here, cache)
      BY <3>1, EntryKeys DEF EntryPage, EntryCode, EntryTick
    <3> QED
      BY <2>2, <3>2 DEF Way!Retry
  <2> QED
    BY <2>1, <2>2
<1>3. EntryKnown(cache')
  BY <1>2, EntryFetchAll DEF EntryPage
<1>4. code.verified => cache'[Way!Preview(code.typed)] = cache[Way!Preview(code.typed)]
  BY <1>2, EntryFetchAll DEF EntryPage, EntryCode, EntryTick
<1>5. EntryTick'
  BY <1>1, <1>4, EntryTickStays
<1>6. EntryRequests' /\ EntryLate
  BY <1>1, EntryUnheard
<1> QED
  BY <1>1, <1>3, <1>5, <1>6 DEF EntryPage, EntryCode, EntryHistory, Way!Here

LEMMA EntryAnswers ==
    ASSUME EntryPage, EntryWeb, NEW k \in Way!Keys, Way!Answer(k) \/ Way!AnswerFails(k)
    PROVE  EntryPage' /\ EntryLate
<1>1. CASE Way!Answer(k)
  BY <1>1, EntryAnswered, EntryReceives DEF Way!Answer
<1>2. CASE Way!AnswerFails(k)
  <2>1. PICK e \in Way!Entries : e = cache[k]
    BY DEF EntryPage, EntryKnown
  <2>2. /\ Way!Fail(e, "other") \in Way!Entries /\ Way!Fail(e, "other").spaces = e.spaces
    BY EntryFail DEF Way!Errors
  <2>3. \A x \in Credentials : k = Way!Preview(x) => e.spaces \subseteq {Of[x]}
    BY <2>1 DEF EntryPage, EntryKnown
  <2>4. Way!Receive(k, Way!Fail(e, "other"))
    BY <1>2, <2>1 DEF Way!AnswerFails
  <2> QED
    BY <2>2, <2>3, <2>4, EntryReceives
<1> QED
  BY <1>1, <1>2

\* A code is typed, its success is shown, a card is submitted.
LEMMA EntryTypesCode ==
    ASSUME EntryPage, NEW c \in Credentials \cup {Way!NoCredential}, Way!Type(c)
    PROVE  EntryPage' /\ EntryLate
<1>1. /\ entries' = entries /\ first' = first /\ recorded' = recorded /\ requests' = requests
      /\ code' = [code EXCEPT !.typed = c]
      /\ cache' = cache \/ cache' = Way!FetchAll(cache, {Way!Preview(c)})
      /\ ~Way!Locked /\ Way!Here.screen = "code"
  BY DEF Way!Type, Way!Shows
<1>2. PICK t \in EntryTyped : t = code
  BY DEF EntryPage, EntryCode
<1>3. t.verified = FALSE
  BY <1>1, <1>2 DEF Way!Locked, EntryTyped
<1>4. code' \in EntryTyped /\ code'.verified = FALSE
  BY <1>1, <1>2, <1>3 DEF EntryTyped
<1>5. EntryKnown(cache')
  BY <1>1, EntryFetchAll DEF EntryPage
<1>6. EntryRequests' /\ EntryLate
  BY <1>1, EntryUnheard
<1> QED
  BY <1>1, <1>4, <1>5, <1>6 DEF EntryPage, EntryCode, EntryTick, EntryHistory, Way!Here

LEMMA EntryTicks ==
    ASSUME EntryPage, Way!ShowSuccess
    PROVE  EntryPage' /\ EntryLate
<1>1. /\ entries' = entries /\ first' = first /\ recorded' = recorded /\ requests' = requests
      /\ code' = [code EXCEPT !.verified = TRUE] /\ cache' = cache
      /\ Way!Here.screen = "code" /\ code.typed # Way!NoCredential
      /\ ~cache[Way!Preview(code.typed)].fetching
      /\ cache[Way!Preview(code.typed)].has /\ cache[Way!Preview(code.typed)].error = "none"
  BY DEF Way!ShowSuccess, Way!Shows, Way!IsVerifying
<1>2. PICK t \in EntryTyped : t = code
  BY DEF EntryPage, EntryCode
<1>3. t.typed \in Credentials
  BY <1>1, <1>2 DEF EntryTyped
<1>4. code' \in EntryTyped /\ code'.typed = t.typed
  BY <1>1, <1>2 DEF EntryTyped
<1>5. EntryRequests' /\ EntryLate
  BY <1>1, EntryUnheard
<1> QED
  BY <1>1, <1>2, <1>3, <1>4, <1>5 DEF EntryPage, EntryCode, EntryTick, EntryHistory, Way!Here

LEMMA EntrySubmits ==
    ASSUME EntryPage, Way!Submit
    PROVE  EntryPage' /\ EntryLate
<1>1. /\ entries' = entries /\ first' = first /\ recorded' = recorded
      /\ code' = code /\ cache' = cache
  BY DEF Way!Submit
<1>2. PICK s \in Way!Submits :
        /\ Way!Here.screen = s[1]
        /\ requests' = requests \cup {[kind |-> s[2], credential |-> Way!Here.credential,
                                       heard |-> TRUE]}
  BY DEF Way!Submit, Way!Shows
<1>3. PICK l \in EntryPlaces : l = Way!Here
  BY EntryHere DEF EntryPage
<1>4. PICK kind \in {"nickname", "create", "accept"} : kind = s[2]
  BY DEF Way!Submits
<1> DEFINE r == [kind |-> kind, credential |-> l.credential, heard |-> TRUE]
<1>5. r \in EntryRequested /\ r.kind = s[2]
  <2>1. l.credential \in Credentials \cup {Way!NoCredential}
    BY DEF EntryPlaces, Way!Location
  <2>2. TRUE \in BOOLEAN
    OBVIOUS
  <2> QED
    BY <1>4, <2>1, <2>2 DEF EntryRequested
<1>6. s = <<s[1], s[2]>>
  BY DEF Way!Submits
<1>7. Way!Here' = Way!Here
  BY <1>1 DEF Way!Here
<1>8. requests' = requests \cup {r}
  BY <1>2, <1>3, <1>4
<1> HIDE DEF r
<1>9. <<Way!Here.screen, r.kind>> \in Way!Submits
  BY <1>2, <1>5, <1>6
<1>10. EntryRequests'
  BY <1>7, <1>8, <1>9, <1>5 DEF EntryPage, EntryRequests
<1> QED
  BY <1>1, <1>7, <1>10 DEF EntryPage, EntryCode, EntryTick, EntryHistory, EntryLate

\* The server is told which workspace is viewed.
LEMMA EntryViews ==
    ASSUME EntryPage, Way!UpdateLastViewed
    PROVE  EntryPage' /\ EntryLate
<1>1. /\ entries' = entries /\ first' = first /\ code' = code /\ cache' = cache
      /\ requests' = requests /\ recorded' = Way!Here.workspace
  BY DEF Way!UpdateLastViewed
<1>2. PICK l \in EntryPlaces : l = Way!Here
  BY EntryHere DEF EntryPage
<1>3. recorded' \in Workspaces \cup {Way!None}
  BY <1>1, <1>2 DEF EntryPlaces, Way!Location
<1>4. EntryRequests' /\ EntryLate
  BY <1>1, EntryUnheard
<1> QED
  BY <1>1, <1>3, <1>4 DEF EntryPage, EntryCode, EntryTick, EntryHistory, Way!Here

\* A request is answered: its card leads on only while it is on screen.
LEMMA EntryDoneAll ==
    ASSUME EntryPage, EntryWeb, NEW r \in requests,
           \/ Way!NicknameAnswered(r) \/ Way!CreateAnswered(r)
           \/ Way!AcceptAnswered(r) \/ Way!RequestFails(r)
    PROVE  EntryPage' /\ EntryLate
<1>0. EntryHistory
  BY DEF EntryPage
<1>1. Way!Login \in EntryPlaces /\ Way!JoinError \in EntryPlaces
  BY EntryAt DEF EntryScreens, Way!ScreenNames, Way!Login, Way!JoinError
<1>2. /\ \A w \in Workspaces : Way!WorkspaceInvite(w) \in EntryPlaces
      /\ \A w \in Workspaces : Way!WorkspaceHome(w) \in EntryPlaces
  BY EntryIn DEF EntryScreens, Way!ScreenNames, Way!WorkspaceInvite, Way!WorkspaceHome
<1>3. CASE Way!NicknameAnswered(r)
  <2>1. \/ Way!Done(r, "none", Way!Pushed(Way!OnboardingComplete))
        \/ Way!Done(r, "unauthorized", Way!Replaced(Way!Login))
    BY <1>3 DEF Way!NicknameAnswered
  <2> QED
    BY <1>0, <1>1, <2>1, EntryComplete, EntryPushed, EntryReplaced, EntryDone
<1>4. CASE Way!CreateAnswered(r)
  <2>1. \/ \E w \in Workspaces : Way!Done(r, "none", Way!Pushed(Way!WorkspaceInvite(w)))
        \/ Way!Done(r, "unauthorized", Way!Replaced(Way!Login))
    BY <1>4 DEF Way!CreateAnswered
  <2> QED
    BY <1>0, <1>1, <1>2, <2>1, EntryPushed, EntryReplaced, EntryDone
<1>5. CASE Way!AcceptAnswered(r)
  <2>1. \/ Way!Done(r, "unauthorized", Way!Replaced(Way!Login))
        \/ Way!Done(r, "refused", Way!Replaced(Way!JoinError))
        \/ /\ r.credential \in valid
           /\ Way!Done(r, "none", Way!Pushed(Way!WorkspaceHome(Of[r.credential])))
    BY <1>5 DEF Way!AcceptAnswered
  <2>2. r.credential \in valid => Of[r.credential] \in Workspaces
    BY EntryBounds DEF EntryWeb
  <2> QED
    BY <1>0, <1>1, <1>2, <2>1, <2>2, EntryPushed, EntryReplaced, EntryDone
<1>6. CASE Way!RequestFails(r)
  <2>1. Way!Done(r, "other", <<>>)
    BY <1>6 DEF Way!RequestFails
  <2> QED
    BY <2>1, EntryDone
<1> QED
  BY <1>3, <1>4, <1>5, <1>6

\* What happens elsewhere changes the server alone.
LEMMA EntryElsewhere ==
    ASSUME EntryPage, \/ Way!SessionEnds \/ \E w \in Workspaces : Way!Leave(w)
                      \/ \E c \in Credentials : Way!Expire(c)
    PROVE  EntryPage' /\ EntryLate
<1>1. /\ entries' = entries /\ first' = first /\ code' = code /\ cache' = cache
      /\ recorded' = recorded /\ requests' = requests
  BY DEF Way!SessionEnds, Way!Leave, Way!Expire
<1>2. EntryRequests' /\ EntryLate
  BY <1>1, EntryUnheard
<1> QED
  BY <1>1, <1>2 DEF EntryPage, EntryCode, EntryTick, EntryHistory, Way!Here

LEMMA EntryNext ==
    ASSUME EntryInv, Way!Next
    PROVE  EntryInv' /\ EntryLate
<1>1. EntryPage /\ EntryWeb
  BY DEF EntryInv, EntryPage
<1>2. EntryPage' /\ EntryLate
  BY <1>1, EntryRedirects, EntryFollows, EntryShown, EntryGoesBack, EntryOpens, EntryAsks,
     EntryAnswers, EntryTypesCode, EntryTicks, EntrySubmits, EntryViews, EntryDoneAll,
     EntryElsewhere DEF Way!Next
<1> QED
  BY <1>2, EntryWebNext DEF EntryInv, EntryPage

\* The tab is opened at an address.
LEMMA EntryInit ==
    ASSUME Way!Init
    PROVE  EntryInv
<1>0. /\ MaxEntries \in Nat \ {0} /\ MaxEntryFaults \in Nat
      /\ visit.spaces \subseteq Workspaces /\ Way!MaxMoves \in Nat
  BY EntryBounds DEF Way!Init, Way!MaxMoves
<1>1. EntryWeb
  BY <1>0 DEF EntryWeb, Way!Init
<1>2. PICK l \in EntryPlaces :
        /\ entries = <<l>> /\ first = 1
        /\ cache = Way!FetchAll([k \in Way!Keys |-> Way!Empty],
                     Way!Observed(l, [k \in Way!Keys |-> Way!Empty], Way!NoCredential))
  BY EntryLocations DEF Way!Init
<1>3. EntryHistory
  <2>1. <<l>> \in Seq(EntryPlaces) /\ Len(<<l>>) = 1
    OBVIOUS
  <2>2. recorded = Way!None
    BY DEF Way!Init
  <2> QED
    BY <1>0, <1>2, <2>1, <2>2 DEF EntryHistory, EntryPaths
<1>4. EntryKnown(cache)
  <2>1. EntryKnown([k \in Way!Keys |-> Way!Empty])
    BY EntryEmpty, EntryKeys DEF EntryKnown
  <2> QED
    BY <1>2, <2>1, EntryFetchAll
<1>5. EntryCode /\ EntryRequests
  BY EntryNotTyped DEF EntryCode, EntryTick, EntryRequests, Way!Init
<1> QED
  BY <1>1, <1>3, <1>4, <1>5 DEF EntryInv

\* The types of the way are a part of it.
LEMMA EntryTypes ==
    ASSUME EntryInv
    PROVE  Way!TypeOK
<1>0. EntryWeb /\ EntryPage
  BY DEF EntryInv, EntryPage
<1>1. /\ Len(entries) \in 1..MaxEntries /\ first \in 1..Len(entries)
      /\ \A i \in DOMAIN entries : entries[i] \in Way!Location
      /\ recorded \in Workspaces \cup {Way!None}
  <2>1. entries \in Seq(EntryPlaces)
    BY <1>0 DEF EntryPage, EntryHistory, EntryPaths
  <2>2. \A i \in DOMAIN entries : entries[i] \in EntryPlaces
    BY <2>1
  <2> QED
    BY <1>0, <2>2 DEF EntryPage, EntryHistory, EntryPaths, EntryPlaces
<1>2. cache \in [Way!Keys -> Way!Entries] /\ code \in EntryTyped /\ requests \subseteq EntryRequested
  BY <1>0 DEF EntryPage, EntryKnown, EntryCode, EntryRequests
<1> QED
  BY <1>0, <1>1, <1>2 DEF EntryWeb, EntryTyped, EntryRequested, Way!TypeOK

\* What the invariant says of the tick, and of every confirmation in the history.
LEMMA EntryIsTrue ==
    ASSUME EntryInv
    PROVE  Way!SuccessIsOfThisCode /\ Way!JoinStateNamesItsWorkspace
<1>1. Way!SuccessIsOfThisCode
  BY DEF Way!SuccessIsOfThisCode, EntryInv, EntryCode, EntryTick
<1>2. Way!JoinStateNamesItsWorkspace
  <2>1. \A i \in DOMAIN entries : entries[i] \in EntryPlaces
    BY DEF EntryInv, EntryHistory, EntryPaths
  <2> QED
    BY <2>1 DEF Way!JoinStateNamesItsWorkspace, EntryPlaces
<1> QED
  BY <1>1, <1>2

\* The other parts leave the way alone.
EntryPart == part = "entry" => EntryInv

LEMMA EntryStep ==
    ASSUME EntryPart, [Next]_vars
    PROVE  EntryPart' /\ (EntryLate \/ UNCHANGED Way!vars)
<1>1. CASE Moves("entry") /\ Way!Next
  BY <1>1, EntryNext DEF EntryPart, Moves
<1>2. CASE part' = part /\ UNCHANGED entryVars
  <2>1. UNCHANGED Way!vars
    BY <1>2 DEF entryVars, Way!vars
  <2>2. UNCHANGED entryVars /\ EntryInv => EntryInv'
    BY DEF entryVars, EntryInv, EntryWeb, EntryHistory, EntryKnown, EntryCode, EntryTick,
       EntryRequests, Way!Here, Way!MaxMoves
  <2> QED
    BY <1>2, <2>1, <2>2 DEF EntryPart
<1>3. (Moves("entry") /\ Way!Next) \/ (part' = part /\ UNCHANGED entryVars)
  BY DEF Next, Moves, vars
<1> QED
  BY <1>1, <1>2, <1>3

\* The tick of a code stands on the server's answer for this very code, wherever in the history
\* a confirmation of joining is, it names the workspace of its credential, and an answer leads
\* on only from the screen that asked (useWorkspaceCode, useNavigateToWorkspaceJoin, useSignUp,
\* useCreateWorkspace, useWorkspaceJoin).
THEOREM EntryIsSafeCorrect == Spec => EntryIsSafe
<1>1. Init => EntryPart
  BY EntryInit DEF Init, EntryPart
<1>2. EntryPart /\ [Next]_vars => EntryPart'
  BY EntryStep
<1>3. EntryPart => /\ part = "entry" => Way!TypeOK
                   /\ SuccessIsOfThisCode /\ JoinStateNamesItsWorkspace
  BY EntryTypes, EntryIsTrue DEF EntryPart, SuccessIsOfThisCode, JoinStateNamesItsWorkspace
<1>4. EntryPart /\ [Next]_vars => [EntryLate]_(Way!vars)
  BY EntryStep
<1>5. Spec => /\ [](/\ part = "entry" => Way!TypeOK
                    /\ SuccessIsOfThisCode /\ JoinStateNamesItsWorkspace)
              /\ [][EntryLate]_(Way!vars)
  BY <1>1, <1>2, <1>3, <1>4, PTL DEF Spec
<1>6. LateAnswersMoveNobody <=> [][EntryLate]_(Way!vars)
  BY DEF LateAnswersMoveNobody, Way!LateAnswersMoveNobody, EntryLate
<1> QED
  BY <1>5, <1>6, PTL DEF EntryIsSafe
=============================================================================
