---------------------- MODULE WorkspaceServiceProofs -----------------------
(***************************************************************************)
(* Proofs about WorkspaceService, for any members, workspaces, requests,    *)
(* documents and clocks.  A step is first described cell by cell - what it  *)
(* may do to one session, one document, one member's row - and the          *)
(* invariants follow from these descriptions.                               *)
(***************************************************************************)
EXTENDS WorkspaceService, TLAPS

-----------------------------------------------------------------------------
(* Time *)

LEMMA InstantsAreNumbers ==
    /\ Instants \subseteq Nat
    /\ 0 \in Instants
    /\ Optional \subseteq Int
    /\ NoInstant \in Optional
    /\ Instants \subseteq Optional
    /\ NoInstant \notin Instants
    /\ Optional = Instants \cup {NoInstant}
BY MembershipAssumption DEF Instants, Optional, NoInstant

\* Whole milliseconds never exceed the ticks they were counted from.
LEMMA MillisCorrect ==
    ASSUME NEW from \in Int, NEW to \in Int, from <= to
    PROVE  /\ Millis(from, to) \in Nat
           /\ Millis(from, to) * TicksPerMilli <= to - from
<1> DEFINE d == to - from
           n == Millis(from, to)
<1>1. d \in Nat
  OBVIOUS
<1>2. TicksPerMilli \in Nat /\ TicksPerMilli > 0
  BY SessionAssumption
<1>3. n = d \div TicksPerMilli
  BY DEF Millis
<1> HIDE DEF d, n
<1>4. n \in Int /\ n >= 0 /\ n * TicksPerMilli <= d
  BY <1>1, <1>2, <1>3
<1> QED
  BY <1>4 DEF d, n

-----------------------------------------------------------------------------
(* One session *)

LEMMA NoSessionType ==
    /\ NoSession \in Session
    /\ NoSession.status = "NONE"
    /\ NoSession.startedAt = 0
    /\ NoSession.lastSeenAt = 0
    /\ NoSession.currentIntervalStartedAt = NoInstant
    /\ NoSession.pausedAt = NoInstant
    /\ NoSession.accumulated = 0
<1>1. (CHOOSE w \in Workspaces : TRUE) \in Workspaces
  BY MembershipAssumption
<1>2. (CHOOSE p \in Proofs : TRUE) \in Proofs
  BY SessionAssumption
<1> QED
  BY <1>1, <1>2, InstantsAreNumbers DEF NoSession, Session

LEMMA NewSessionType ==
    ASSUME NEW w \in Workspaces, NEW p \in Proofs, NEW now \in Instants
    PROVE  /\ NewSession(w, p, now) \in Session
           /\ NewSession(w, p, now).status = "RECORDING"
           /\ NewSession(w, p, now).workspace = w
           /\ NewSession(w, p, now).startedAt = now
           /\ NewSession(w, p, now).lastSeenAt = now
           /\ NewSession(w, p, now).currentIntervalStartedAt = now
           /\ NewSession(w, p, now).pausedAt = NoInstant
           /\ NewSession(w, p, now).endedAt = NoInstant
           /\ NewSession(w, p, now).accumulated = 0
<1>1. (CHOOSE u \in Workspaces : TRUE) \in Workspaces
  BY MembershipAssumption
<1>2. (CHOOSE r \in Proofs : TRUE) \in Proofs
  BY SessionAssumption
<1> QED
  BY <1>1, <1>2, InstantsAreNumbers DEF NewSession, NoSession, Session

LEMMA SessionFields ==
    ASSUME NEW s \in Session
    PROVE  /\ s.status \in {"NONE", "RECORDING", "PAUSED", "ENDED", "DISCARDED"}
           /\ s.workspace \in Workspaces
           /\ s.proof \in Proofs
           /\ s.startedAt \in Instants /\ s.startedAt \in Int
           /\ s.lastSeenAt \in Instants /\ s.lastSeenAt \in Int
           /\ s.currentIntervalStartedAt \in Optional /\ s.currentIntervalStartedAt \in Int
           /\ s.pausedAt \in Optional /\ s.pausedAt \in Int
           /\ s.endedAt \in Optional /\ s.endedAt \in Int
           /\ s.accumulated \in Nat
<1>1. /\ s.status \in {"NONE", "RECORDING", "PAUSED", "ENDED", "DISCARDED"}
      /\ s.workspace \in Workspaces
      /\ s.proof \in Proofs
      /\ s.startedAt \in Instants /\ s.lastSeenAt \in Instants
      /\ s.currentIntervalStartedAt \in Optional
      /\ s.pausedAt \in Optional /\ s.endedAt \in Optional
      /\ s.accumulated \in Nat
  BY DEF Session
<1> QED
  BY <1>1, InstantsAreNumbers

LEMMA CountedCorrect ==
    ASSUME NEW s \in Session, NEW at \in Instants, TimeAccepted(s, at)
    PROVE  /\ Counted(s, at) \in Nat
           /\ s.status = "RECORDING" =>
                 Counted(s, at) * TicksPerMilli
                   <= s.accumulated * TicksPerMilli + (at - s.currentIntervalStartedAt)
           /\ s.status # "RECORDING" => Counted(s, at) = s.accumulated
<1>1. CASE s.status # "RECORDING"
  BY <1>1, SessionFields DEF Counted
<1>2. CASE s.status = "RECORDING"
  <2> DEFINE c == s.currentIntervalStartedAt
             a == s.accumulated
             n == Millis(c, at)
  <2>1. c \in Int /\ a \in Nat /\ at \in Int /\ c <= at
    BY <1>2, SessionFields, InstantsAreNumbers DEF TimeAccepted
  <2>2. n \in Nat /\ n * TicksPerMilli <= at - c
    BY <2>1, MillisCorrect
  <2>3. Counted(s, at) = a + n
    BY <1>2 DEF Counted
  <2> HIDE DEF c, a, n
  <2>4. TicksPerMilli \in Nat
    BY SessionAssumption
  <2>5. (a + n) * TicksPerMilli = a * TicksPerMilli + n * TicksPerMilli
    BY <2>1, <2>2, <2>4
  <2>6. a * TicksPerMilli \in Int /\ n * TicksPerMilli \in Int
    BY <2>1, <2>2, <2>4
  <2>7. (a + n) * TicksPerMilli <= a * TicksPerMilli + (at - c)
    BY <2>1, <2>2, <2>5, <2>6
  <2> QED
    BY <1>2, <2>1, <2>2, <2>3, <2>7 DEF c, a
<1> QED
  BY <1>1, <1>2

LEMMA PausedType ==
    ASSUME NEW s \in Session, NEW at \in Instants, TimeAccepted(s, at)
    PROVE  /\ Paused(s, at) \in Session
           /\ Paused(s, at).status = "PAUSED"
           /\ Paused(s, at).workspace = s.workspace
           /\ Paused(s, at).startedAt = s.startedAt
           /\ Paused(s, at).lastSeenAt = at
           /\ Paused(s, at).currentIntervalStartedAt = NoInstant
           /\ Paused(s, at).pausedAt = at
           /\ Paused(s, at).endedAt = s.endedAt
           /\ Paused(s, at).accumulated = Counted(s, at)
<1>1. Counted(s, at) \in Nat
  BY CountedCorrect
<1> QED
  BY <1>1, InstantsAreNumbers DEF Paused, Session

LEMMA ResumedType ==
    ASSUME NEW s \in Session, NEW at \in Instants
    PROVE  /\ Resumed(s, at) \in Session
           /\ Resumed(s, at).status = "RECORDING"
           /\ Resumed(s, at).workspace = s.workspace
           /\ Resumed(s, at).startedAt = s.startedAt
           /\ Resumed(s, at).lastSeenAt = at
           /\ Resumed(s, at).currentIntervalStartedAt = at
           /\ Resumed(s, at).pausedAt = NoInstant
           /\ Resumed(s, at).endedAt = s.endedAt
           /\ Resumed(s, at).accumulated = s.accumulated
BY InstantsAreNumbers DEF Resumed, Session

LEMMA StoppedType ==
    ASSUME NEW s \in Session, NEW st \in {"ENDED", "DISCARDED"},
           NEW at \in Instants, TimeAccepted(s, at)
    PROVE  /\ Stopped(s, st, at) \in Session
           /\ Stopped(s, st, at).status = st
           /\ Stopped(s, st, at).workspace = s.workspace
           /\ Stopped(s, st, at).startedAt = s.startedAt
           /\ Stopped(s, st, at).lastSeenAt = at
           /\ Stopped(s, st, at).currentIntervalStartedAt = NoInstant
           /\ Stopped(s, st, at).pausedAt = s.pausedAt
           /\ Stopped(s, st, at).endedAt = at
           /\ Stopped(s, st, at).accumulated = Counted(s, at)
<1>1. Counted(s, at) \in Nat
  BY CountedCorrect
<1> QED
  BY <1>1, InstantsAreNumbers DEF Stopped, Session

-----------------------------------------------------------------------------
(* What a step may do to one session *)

Starts(s, s2) ==
    /\ s.status = "NONE"
    /\ \E w \in Workspaces, p \in Proofs, now \in Instants : s2 = NewSession(w, p, now)

Pauses(s, s2) ==
    /\ s.status = "RECORDING"
    /\ \E now \in Instants : TimeAccepted(s, now) /\ s2 = Paused(s, now)

Resumes(s, s2) ==
    /\ s.status = "PAUSED"
    /\ \E now \in Instants : TimeAccepted(s, now) /\ s2 = Resumed(s, now)

Stops(s, s2) ==
    /\ IsRunning(s)
    /\ \E at \in Instants, st \in {"ENDED", "DISCARDED"} :
          TimeAccepted(s, at) /\ s2 = Stopped(s, st, at)

SessionStep(s, s2) ==
    s2 = s \/ Starts(s, s2) \/ Pauses(s, s2) \/ Resumes(s, s2) \/ Stops(s, s2)

LEMMA NotBeforeLastSeenType ==
    ASSUME NEW s \in Session, NEW now \in Instants
    PROVE  NotBeforeLastSeen(s, now) \in Instants
BY SessionFields DEF NotBeforeLastSeen

LEMMA DiscardSteps ==
    ASSUME TypeOK,
           NEW w \in Workspaces, NEW who \in SUBSET Members, NEW now \in Instants,
           DiscardRecordings(w, who, now),
           NEW m \in Members, NEW q \in RequestIds
    PROVE  SessionStep(session[m][q], session'[m][q])
<1>1. session[m][q] \in Session
  BY DEF TypeOK, SessionTypeOK
<1>2. CASE <<m, q>> \in RunningOf(w, who)
  <2>1. IsRunning(session[m][q])
    BY <1>2 DEF RunningOf
  <2>2. Discardable(session[m][q], now)
    BY <1>2 DEF DiscardRecordings
  <2>3. session'[m][q] = Stopped(session[m][q], "DISCARDED", NotBeforeLastSeen(session[m][q], now))
    BY <1>2 DEF DiscardRecordings, Discarded
  <2>4. TimeAccepted(session[m][q], NotBeforeLastSeen(session[m][q], now))
    BY <2>2 DEF Discardable
  <2>5. NotBeforeLastSeen(session[m][q], now) \in Instants
    BY <1>1, NotBeforeLastSeenType
  <2> QED
    BY <2>1, <2>3, <2>4, <2>5 DEF SessionStep, Stops
<1>3. CASE <<m, q>> \notin RunningOf(w, who)
  <2>1. session'[m][q] = session[m][q]
    BY <1>3 DEF DiscardRecordings
  <2> QED
    BY <2>1 DEF SessionStep
<1> QED
  BY <1>2, <1>3

\* Only the requests of the member's own tabs and discards touch a session.
LEMMA SessionSteps ==
    ASSUME TypeOK, Next, NEW m \in Members, NEW q \in RequestIds
    PROVE  SessionStep(session[m][q], session'[m][q])
<1>1. session \in [Members -> [RequestIds -> Session]]
  BY DEF TypeOK, SessionTypeOK
<1>2. ASSUME NEW w \in Workspaces, NEW k \in Members, NEW now \in Instants,
             Leave(w, k, now)
      PROVE  SessionStep(session[m][q], session'[m][q])
  <2>1. (IF Crew(w) = {k} THEN Members ELSE {k}) \in SUBSET Members
    OBVIOUS
  <2> QED
    BY <1>2, <2>1, DiscardSteps DEF Leave
<1>3. ASSUME NEW w \in Workspaces, NEW k \in Members, NEW n \in Members, NEW now \in Instants,
             TransferOwnership(w, k, n, now)
      PROVE  SessionStep(session[m][q], session'[m][q])
  <2>1. {k} \in SUBSET Members
    OBVIOUS
  <2> QED
    BY <1>3, <2>1, DiscardSteps DEF TransferOwnership
<1>4. ASSUME NEW w \in Workspaces, NEW k \in Members, NEW r \in RequestIds, NEW p \in Proofs,
             NEW now \in Instants,
             \/ Start(w, k, r, p, now) \/ Pause(w, k, r, p, now)
             \/ Resume(w, k, r, p, now) \/ End(w, k, r, p, now)
      PROVE  SessionStep(session[m][q], session'[m][q])
  <2>1. CASE <<m, q>> # <<k, r>>
    <3>1. session'[m][q] = session[m][q]
      BY <1>1, <1>4, <2>1 DEF Start, Pause, Resume, End, StartSession, PauseSession,
                             ResumeSession, EndSession
    <3> QED
      BY <3>1 DEF SessionStep
  <2>2. CASE m = k /\ q = r
    <3>1. CASE Start(w, k, r, p, now)
      BY <1>1, <2>2, <3>1 DEF Start, StartSession, SessionStep, Starts
    <3>2. CASE Pause(w, k, r, p, now)
      BY <1>1, <2>2, <3>2 DEF Pause, PauseSession, SessionStep, Pauses
    <3>3. CASE Resume(w, k, r, p, now)
      BY <1>1, <2>2, <3>3 DEF Resume, ResumeSession, SessionStep, Resumes
    <3>4. CASE End(w, k, r, p, now)
      BY <1>1, <2>2, <3>4 DEF End, EndSession, SessionStep, Stops
    <3> QED
      BY <1>4, <3>1, <3>2, <3>3, <3>4
  <2> QED
    BY <2>1, <2>2
<1>5. CASE UNCHANGED session
  BY <1>5 DEF SessionStep
<1> QED
  BY <1>2, <1>3, <1>4, <1>5
     DEF Next, Create, Accept, Issue, Expire, SelectView, MarkView, CompleteGeneration, Confirm

LEMMA SessionStepType ==
    ASSUME NEW s \in Session, NEW s2, SessionStep(s, s2)
    PROVE  s2 \in Session
<1>1. CASE Starts(s, s2)
  BY <1>1, NewSessionType DEF Starts
<1>2. CASE Pauses(s, s2)
  BY <1>2, PausedType DEF Pauses
<1>3. CASE Resumes(s, s2)
  BY <1>3, ResumedType DEF Resumes
<1>4. CASE Stops(s, s2)
  BY <1>4, StoppedType DEF Stops
<1> QED
  BY <1>1, <1>2, <1>3, <1>4 DEF SessionStep

LEMMA SessionsType ==
    ASSUME TypeOK, Next
    PROVE  SessionTypeOK'
<1> DEFINE Shaped == session' = [m \in Members |-> [q \in RequestIds |-> session'[m][q]]]
<1>1. session \in [Members -> [RequestIds -> Session]]
  BY DEF TypeOK, SessionTypeOK
<1>2. Shaped
  <2>1. ASSUME NEW w \in Workspaces, NEW who \in SUBSET Members, NEW now \in Instants,
               DiscardRecordings(w, who, now)
        PROVE  Shaped
    BY <2>1 DEF DiscardRecordings
  <2>2. ASSUME NEW w \in Workspaces, NEW k \in Members, NEW now \in Instants,
               Leave(w, k, now)
        PROVE  Shaped
    <3>1. (IF Crew(w) = {k} THEN Members ELSE {k}) \in SUBSET Members
      OBVIOUS
    <3> QED
      BY <2>1, <2>2, <3>1 DEF Leave
  <2>3. ASSUME NEW w \in Workspaces, NEW k \in Members, NEW n \in Members, NEW now \in Instants,
               TransferOwnership(w, k, n, now)
        PROVE  Shaped
    BY <2>1, <2>3 DEF TransferOwnership
  <2>4. ASSUME NEW k \in Members, NEW r \in RequestIds, NEW s,
               session' = [session EXCEPT ![k][r] = s]
        PROVE  Shaped
    BY <1>1, <2>4
  <2>5. ASSUME NEW w \in Workspaces, NEW k \in Members, NEW r \in RequestIds, NEW p \in Proofs,
               NEW now \in Instants,
               \/ Start(w, k, r, p, now) \/ Pause(w, k, r, p, now)
               \/ Resume(w, k, r, p, now) \/ End(w, k, r, p, now)
        PROVE  Shaped
    <3>1. \E s : session' = [session EXCEPT ![k][r] = s]
      BY <2>5 DEF Start, Pause, Resume, End, StartSession, PauseSession, ResumeSession, EndSession
    <3> QED
      BY <2>4, <3>1
  <2>6. CASE UNCHANGED session
    BY <1>1, <2>6
  <2> HIDE DEF Shaped
  <2> QED
    BY <2>2, <2>3, <2>5, <2>6
       DEF Next, Create, Accept, Issue, Expire, SelectView, MarkView, CompleteGeneration, Confirm
<1>3. ASSUME NEW m \in Members, NEW q \in RequestIds
      PROVE  session'[m][q] \in Session
  <2>1. session[m][q] \in Session
    BY <1>1
  <2> QED
    BY <2>1, SessionSteps, SessionStepType
<1> QED
  BY <1>2, <1>3 DEF SessionTypeOK

-----------------------------------------------------------------------------
(* What a step may do to the documents *)

Published(x, w, now) ==
    x = [status |-> "DRAFT", workspace |-> w, createdAt |-> now, archivedAt |-> NoInstant]

Archives(x, x2) ==
    /\ x.status = "DRAFT"
    /\ \E now \in Instants :
          /\ now >= x.createdAt
          /\ x2 = [x EXCEPT !.status = "ARCHIVED", !.archivedAt = now]

DocumentStep(x, x2) ==
    \/ x2 = x
    \/ x.status = "NONE" /\ \E w \in Workspaces, now \in Instants : Published(x2, w, now)
    \/ Archives(x, x2)

LEMMA DocumentStepType ==
    ASSUME NEW x \in Document, NEW x2, DocumentStep(x, x2)
    PROVE  x2 \in Document
<1>1. CASE x2 = x
  BY <1>1
<1>2. ASSUME NEW w \in Workspaces, NEW now \in Instants, Published(x2, w, now)
      PROVE  x2 \in Document
  BY <1>2 DEF Published, Document
<1>3. CASE Archives(x, x2)
  <2>1. PICK now \in Instants : x2 = [x EXCEPT !.status = "ARCHIVED", !.archivedAt = now]
    BY <1>3 DEF Archives
  <2> QED
    BY <2>1 DEF Document
<1> QED
  BY <1>1, <1>2, <1>3 DEF DocumentStep

LEMMA ArchiveAllSteps ==
    ASSUME TypeOK, NEW docs \in SUBSET Documents, NEW now \in Instants, ArchiveAll(docs, now)
    PROVE  /\ document' \in [Documents -> Document]
           /\ \A d \in Documents : DocumentStep(document[d], document'[d])
           /\ \A d \in Documents : document[d].status # "DRAFT" => document'[d] = document[d]
           /\ \A d \in Documents \ docs : document'[d] = document[d]
           /\ \A d \in docs : document[d].status = "DRAFT" =>
                 /\ document'[d].status = "ARCHIVED"
                 /\ document'[d].workspace = document[d].workspace
<1>1. document \in [Documents -> Document]
  BY DEF TypeOK, DocumentTypeOK
<1>2. document' = [d \in Documents |-> IF d \in docs THEN Archived(d, now) ELSE document[d]]
  BY DEF ArchiveAll
<1>3. ASSUME NEW d \in docs, document[d].status = "DRAFT"
      PROVE  /\ Archives(document[d], document'[d])
             /\ document'[d].status = "ARCHIVED"
             /\ document'[d].workspace = document[d].workspace
  <2>1. document[d] \in Document
    BY <1>1
  <2>2. now >= document[d].createdAt
    BY <1>3 DEF ArchiveAll, ArchiveAccepted
  <2>3. document'[d] = [document[d] EXCEPT !.status = "ARCHIVED", !.archivedAt = now]
    BY <1>2, <1>3 DEF Archived
  <2> QED
    BY <1>3, <2>1, <2>2, <2>3 DEF Archives, Document
<1>4. ASSUME NEW d \in docs, document[d].status # "DRAFT"
      PROVE  document'[d] = document[d]
  BY <1>2, <1>4 DEF Archived
<1>5. ASSUME NEW d \in Documents \ docs
      PROVE  document'[d] = document[d]
  BY <1>2
<1>6. \A d \in Documents : DocumentStep(document[d], document'[d])
  BY <1>3, <1>4, <1>5 DEF DocumentStep
<1>7. \A d \in Documents : document'[d] \in Document
  BY <1>1, <1>6, DocumentStepType
<1>8. document' \in [Documents -> Document]
  BY <1>2, <1>7
<1> QED
  BY <1>3, <1>4, <1>5, <1>6, <1>8

\* The transactions that touch documents.
LEMMA DocumentTransactions ==
    ASSUME Next
    PROVE  \/ \E w \in Workspaces, m \in Members, now \in Instants : Leave(w, m, now)
           \/ \E w \in Workspaces, m, n \in Members, now \in Instants :
                 TransferOwnership(w, m, n, now)
           \/ \E w \in Workspaces, d \in Documents, now \in Instants :
                 CompleteGeneration(w, d, now)
           \/ \E w \in Workspaces, d \in Documents, m \in Members, now \in Instants :
                 Confirm(w, d, m, now)
           \/ document' = document /\ target' = target /\ confirmedAt' = confirmedAt
<1>1. \/ \E w \in Workspaces, m \in Members, now \in Instants : Leave(w, m, now)
      \/ \E w \in Workspaces, m, n \in Members, now \in Instants :
            TransferOwnership(w, m, n, now)
      \/ \E w \in Workspaces, d \in Documents, now \in Instants :
            CompleteGeneration(w, d, now)
      \/ \E w \in Workspaces, d \in Documents, m \in Members, now \in Instants :
            Confirm(w, d, m, now)
      \/ UNCHANGED documentVars
  BY DEF Next, Create, Accept, Issue, Expire, SelectView, MarkView, Start, Pause, Resume, End
<1> QED
  BY <1>1 DEF documentVars

\* A departure and a confirmation archive some documents.
LEMMA DocumentSteps ==
    ASSUME TypeOK, Next
    PROVE  /\ document' \in [Documents -> Document]
           /\ \A d \in Documents : DocumentStep(document[d], document'[d])
<1> DEFINE Goal == /\ document' \in [Documents -> Document]
                   /\ \A d \in Documents : DocumentStep(document[d], document'[d])
<1>1. document \in [Documents -> Document]
  BY DEF TypeOK, DocumentTypeOK
<1>2. ASSUME NEW docs \in SUBSET Documents, NEW now \in Instants, ArchiveAll(docs, now)
      PROVE  Goal
  BY <1>2, ArchiveAllSteps
<1>3. ASSUME NEW w \in Workspaces, NEW m \in Members, NEW now \in Instants,
             ArchiveAfterDeparture(w, m, now)
      PROVE  Goal
  <2>1. {d \in AffectedDrafts(w, m) : NobodyElsePending(d, m)} \in SUBSET Documents
    BY DEF AffectedDrafts
  <2> QED
    BY <1>2, <1>3, <2>1 DEF ArchiveAfterDeparture
<1>4. ASSUME NEW w \in Workspaces, NEW d \in Documents, NEW m \in Members, NEW now \in Instants,
             Confirm(w, d, m, now)
      PROVE  Goal
  <2>1. (IF NobodyElsePending(d, m) THEN {d} ELSE {}) \in SUBSET Documents
    OBVIOUS
  <2> QED
    BY <1>2, <1>4, <2>1 DEF Confirm, ConfirmDocument
<1>5. ASSUME NEW w \in Workspaces, NEW d \in Documents, NEW now \in Instants,
             CompleteGeneration(w, d, now)
      PROVE  Goal
  <2> DEFINE x == [status |-> "DRAFT", workspace |-> w, createdAt |-> now, archivedAt |-> NoInstant]
  <2>1. document' = [document EXCEPT ![d] = x] /\ document[d].status = "NONE"
    BY <1>5 DEF CompleteGeneration, CreateDraft
  <2>2. Published(x, w, now)
    BY DEF Published
  <2>3. x \in Document
    BY InstantsAreNumbers DEF Document
  <2> HIDE DEF x
  <2>4. \A e \in Documents : e # d => document'[e] = document[e]
    BY <1>1, <2>1
  <2>5. document'[d] = x
    BY <1>1, <2>1
  <2>6. DocumentStep(document[d], document'[d])
    BY <2>1, <2>2, <2>5 DEF DocumentStep
  <2>7. document' \in [Documents -> Document]
    BY <1>1, <2>1, <2>3
  <2> QED
    BY <2>4, <2>6, <2>7 DEF DocumentStep
<1>6. ASSUME document' = document
      PROVE  Goal
  BY <1>1, <1>6 DEF DocumentStep
<1> HIDE DEF Goal
<1>7. ASSUME NEW w \in Workspaces, NEW m \in Members, NEW now \in Instants, Leave(w, m, now)
      PROVE  Goal
  BY <1>3, <1>7 DEF Leave
<1>8. ASSUME NEW w \in Workspaces, NEW m \in Members, NEW n \in Members, NEW now \in Instants,
             TransferOwnership(w, m, n, now)
      PROVE  Goal
  BY <1>3, <1>8 DEF TransferOwnership
<1>9. Goal
  BY <1>4, <1>5, <1>6, <1>7, <1>8, DocumentTransactions
<1> QED
  BY <1>9 DEF Goal

\* Targets are those who are active when the document appears, and a
\* confirmation that was given keeps its time.
LEMMA ConfirmationSteps ==
    ASSUME TypeOK, Next
    PROVE  /\ target' \in [Documents -> SUBSET Members]
           /\ confirmedAt' \in [Documents -> [Members -> Instants \cup {NoInstant}]]
           /\ \A d \in Documents, m \in Members : confirmedAt[d][m] # NoInstant =>
                 confirmedAt'[d][m] = confirmedAt[d][m]
<1> DEFINE Goal == /\ target' \in [Documents -> SUBSET Members]
                   /\ confirmedAt' \in [Documents -> [Members -> Instants \cup {NoInstant}]]
                   /\ \A d \in Documents, m \in Members : confirmedAt[d][m] # NoInstant =>
                         confirmedAt'[d][m] = confirmedAt[d][m]
<1>1. /\ target \in [Documents -> SUBSET Members]
      /\ confirmedAt \in [Documents -> [Members -> Instants \cup {NoInstant}]]
  BY DEF TypeOK, DocumentTypeOK
<1>2. ASSUME NEW w \in Workspaces, NEW d \in Documents, NEW m \in Members, NEW now \in Instants,
             Confirm(w, d, m, now)
      PROVE  Goal
  <2>1. /\ confirmedAt' = [confirmedAt EXCEPT ![d][m] = IF @ = NoInstant THEN now ELSE @]
        /\ target' = target
    BY <1>2 DEF Confirm, ConfirmDocument
  <2>2. confirmedAt' \in [Documents -> [Members -> Instants \cup {NoInstant}]]
    BY <1>1, <2>1
  <2>3. \A e \in Documents, n \in Members : confirmedAt[e][n] # NoInstant =>
           confirmedAt'[e][n] = confirmedAt[e][n]
    BY <1>1, <2>1
  <2> QED
    BY <1>1, <2>1, <2>2, <2>3
<1>3. ASSUME NEW w \in Workspaces, NEW d \in Documents, NEW now \in Instants,
             CompleteGeneration(w, d, now)
      PROVE  Goal
  <2>1. target' = [target EXCEPT ![d] = Crew(w)] /\ confirmedAt' = confirmedAt
    BY <1>3 DEF CompleteGeneration, CreateDraft
  <2>2. Crew(w) \subseteq Members
    BY DEF Crew
  <2> QED
    BY <1>1, <2>1, <2>2
<1>4. ASSUME target' = target, confirmedAt' = confirmedAt
      PROVE  Goal
  BY <1>1, <1>4
<1> HIDE DEF Goal
<1>5. ASSUME NEW w \in Workspaces, NEW m \in Members, NEW now \in Instants, Leave(w, m, now)
      PROVE  Goal
  BY <1>4, <1>5 DEF Leave, ArchiveAfterDeparture
<1>6. ASSUME NEW w \in Workspaces, NEW m \in Members, NEW n \in Members, NEW now \in Instants,
             TransferOwnership(w, m, n, now)
      PROVE  Goal
  BY <1>4, <1>6 DEF TransferOwnership, ArchiveAfterDeparture
<1>7. Goal
  BY <1>2, <1>3, <1>4, <1>5, <1>6, DocumentTransactions
<1> QED
  BY <1>7 DEF Goal

-----------------------------------------------------------------------------
(* What a step may do to the rows of members, cell by cell *)

Rows == [Workspaces -> [Members -> Row]]

\* Every row but the one of m in w, of the members in others.
RowsKeptBut(w, changed) ==
    \A x \in Workspaces, n \in Members :
       (x # w \/ n \notin changed) => member'[x][n] = member[x][n]

LEMMA NewRowType ==
    ASSUME NEW role \in {"OWNER", "MEMBER"}, NEW now \in Instants
    PROVE  /\ NewRow(role, now) \in Row
           /\ NewRow(role, now).status = "ACTIVE"
           /\ NewRow(role, now).role = role
           /\ NewRow(role, now).lastViewed = FALSE
BY DEF NewRow, Row

LEMMA RowFields ==
    ASSUME NEW r \in Row
    PROVE  /\ r.status \in {"NONE", "ACTIVE", "LEFT"}
           /\ r.role \in {"OWNER", "MEMBER"}
           /\ r.joinedAt \in Instants
           /\ r.lastViewed \in BOOLEAN
BY DEF Row

LEMMA NewRowSteps ==
    ASSUME TypeOK, NEW w \in Workspaces, NEW m \in Members, NEW now \in Instants,
           NEW role \in {"OWNER", "MEMBER"},
           member' = [member EXCEPT ![w][m] = NewRow(role, now)]
    PROVE  /\ member' \in Rows
           /\ member'[w][m] = NewRow(role, now)
           /\ RowsKeptBut(w, {m})
<1>1. member \in [Workspaces -> [Members -> Row]]
  BY DEF TypeOK, MembershipTypeOK
<1>2. NewRow(role, now) \in Row
  BY NewRowType
<1> QED
  BY <1>1, <1>2 DEF Rows, RowsKeptBut

\* A row that is left.
Gone(r, r2) ==
    /\ r2 \in Row
    /\ r2.status = "LEFT"
    /\ r2.lastViewed = FALSE

LEMMA LeaveRowSteps ==
    ASSUME TypeOK, NEW w \in Workspaces, NEW m \in Members, NEW now \in Instants,
           LeaveRow(w, m, now)
    PROVE  /\ member' \in Rows
           /\ Gone(member[w][m], member'[w][m])
           /\ RowsKeptBut(w, {m})
<1>1. member \in [Workspaces -> [Members -> Row]]
  BY DEF TypeOK, MembershipTypeOK
<1>2. member' = [member EXCEPT ![w][m].status = "LEFT", ![w][m].lastViewed = FALSE]
  BY DEF LeaveRow
<1> DEFINE r2 == [[member[w][m] EXCEPT !.status = "LEFT"] EXCEPT !.lastViewed = FALSE]
<1>3. member'[w][m] = r2
  BY <1>1, <1>2
<1>4. RowsKeptBut(w, {m})
  BY <1>1, <1>2 DEF RowsKeptBut
<1>5. member[w][m] \in Row
  BY <1>1
<1>6. r2 \in Row /\ r2.status = "LEFT" /\ r2.lastViewed = FALSE
  BY <1>5 DEF Row
<1> HIDE DEF r2
<1>7. member' = [member EXCEPT ![w] = [member[w] EXCEPT ![m] = r2]]
  BY <1>1, <1>2 DEF r2
<1>8. member' \in Rows
  BY <1>1, <1>6, <1>7 DEF Rows
<1> QED
  BY <1>3, <1>4, <1>6, <1>8 DEF Gone

LEMMA TransferRowsSteps ==
    ASSUME TypeOK, NEW w \in Workspaces, NEW owner \in Members, NEW successor \in Members,
           NEW now \in Instants,
           TransferRows(w, owner, successor, now)
    PROVE  /\ member' \in Rows
           /\ Gone(member[w][owner], member'[w][owner])
           /\ member'[w][successor].status = "ACTIVE"
           /\ member'[w][successor].role = "OWNER"
           /\ member'[w][successor].lastViewed = member[w][successor].lastViewed
           /\ RowsKeptBut(w, {owner, successor})
<1>1. member \in [Workspaces -> [Members -> Row]]
  BY DEF TypeOK, MembershipTypeOK
<1>2. member' = [member EXCEPT ![w][successor].role = "OWNER",
                               ![w][owner].status = "LEFT",
                               ![w][owner].lastViewed = FALSE]
  BY DEF TransferRows
<1>3. owner # successor
  BY DEF TransferRows
<1> DEFINE o2 == [[member[w][owner] EXCEPT !.status = "LEFT"] EXCEPT !.lastViewed = FALSE]
           s2 == [member[w][successor] EXCEPT !.role = "OWNER"]
<1>4. member'[w][owner] = o2 /\ member'[w][successor] = s2
  BY <1>1, <1>2, <1>3
<1>5. RowsKeptBut(w, {owner, successor})
  BY <1>1, <1>2 DEF RowsKeptBut
<1>6. member[w][owner] \in Row /\ member[w][successor] \in Row
  BY <1>1
<1>7. member[w][successor].status = "ACTIVE"
  BY DEF TransferRows, Crew
<1>8. o2 \in Row /\ o2.status = "LEFT" /\ o2.lastViewed = FALSE
  BY <1>6 DEF Row
<1>9. /\ s2 \in Row /\ s2.status = "ACTIVE" /\ s2.role = "OWNER"
      /\ s2.lastViewed = member[w][successor].lastViewed
  BY <1>6, <1>7 DEF Row
<1>10. member' = [member EXCEPT ![w] = [[member[w] EXCEPT ![successor] = s2] EXCEPT ![owner] = o2]]
  BY <1>1, <1>2, <1>3
<1> HIDE DEF o2, s2
<1>11. member' \in Rows
  BY <1>1, <1>8, <1>9, <1>10 DEF Rows
<1> QED
  BY <1>4, <1>5, <1>8, <1>9, <1>11 DEF Gone

\* Marking a view changes the mark only.
LEMMA MarkViewedSteps ==
    ASSUME TypeOK, NEW v \in Viewers, MarkViewed(v)
    PROVE  /\ viewer[v] \in Viewing
           /\ member' \in Rows
           /\ \A w \in Workspaces, m \in Members :
                 /\ member'[w][m].status = member[w][m].status
                 /\ member'[w][m].role = member[w][m].role
           /\ \A w \in Workspaces, m \in Members : m # viewer[v].member =>
                 member'[w][m] = member[w][m]
           /\ \/ member' = member
              \/ /\ MarkIsUnique(viewer[v].member, viewer[v].rows)
                 /\ viewer[v].target \in viewer[v].rows
                 /\ \A w \in Workspaces :
                       member'[w][viewer[v].member].lastViewed =
                          IF w \in viewer[v].rows
                          THEN w = viewer[v].target
                          ELSE member[w][viewer[v].member].lastViewed
<1>1. member \in [Workspaces -> [Members -> Row]]
  BY DEF TypeOK, MembershipTypeOK
<1>2. viewer[v] \in Viewing
  BY DEF TypeOK, MembershipTypeOK, MarkViewed
<1> DEFINE k == viewer[v].member
           rows == viewer[v].rows
           t == viewer[v].target
<1>3. k \in Members /\ rows \subseteq Workspaces /\ t \in Workspaces
  BY <1>2 DEF Viewing
<1>4. CASE member' = member
  BY <1>1, <1>2, <1>4 DEF Rows
<1>5. CASE /\ t \in rows
           /\ MarkIsUnique(k, rows)
           /\ member' = [w \in Workspaces |->
                           IF w \in rows
                           THEN [member[w] EXCEPT ![k].lastViewed = (w = t)]
                           ELSE member[w]]
  <2> HIDE DEF k, rows, t
  <2>1. ASSUME NEW w \in Workspaces, NEW m \in Members
        PROVE  /\ member'[w] \in [Members -> Row]
               /\ member'[w][m].status = member[w][m].status
               /\ member'[w][m].role = member[w][m].role
               /\ m # k => member'[w][m] = member[w][m]
               /\ member'[w][k].lastViewed = IF w \in rows THEN w = t ELSE member[w][k].lastViewed
    <3> DEFINE b == (w = t)
               r2 == [member[w][k] EXCEPT !.lastViewed = b]
    <3>1. member[w] \in [Members -> Row] /\ member[w][k] \in Row /\ member[w][m] \in Row
      BY <1>1, <1>3
    <3>2. b \in BOOLEAN
      OBVIOUS
    <3>3. CASE w \in rows
      <4>1. member'[w] = [member[w] EXCEPT ![k] = r2]
        BY <1>5, <3>3
      <4> HIDE DEF b
      <4>2. /\ r2 \in Row
            /\ r2.status = member[w][k].status
            /\ r2.role = member[w][k].role
            /\ r2.lastViewed = b
        BY <3>1, <3>2 DEF Row
      <4> HIDE DEF r2
      <4>3. member'[w] \in [Members -> Row] /\ member'[w][k] = r2
        BY <1>3, <3>1, <4>1, <4>2
      <4>4. m # k => member'[w][m] = member[w][m]
        BY <1>3, <3>1, <4>1
      <4> QED
        BY <3>3, <4>2, <4>3, <4>4 DEF b
    <3>4. CASE w \notin rows
      BY <1>5, <3>1, <3>4
    <3> QED
      BY <3>3, <3>4
  <2>2. member' \in Rows
    BY <1>3, <1>5, <2>1 DEF Rows
  <2>3. \A w \in Workspaces :
           member'[w][k].lastViewed = IF w \in rows THEN w = t ELSE member[w][k].lastViewed
    BY <1>3, <2>1
  <2>4. \A w \in Workspaces, m \in Members :
           /\ member'[w][m].status = member[w][m].status
           /\ member'[w][m].role = member[w][m].role
    BY <2>1
  <2>5. \A w \in Workspaces, m \in Members : m # k => member'[w][m] = member[w][m]
    BY <2>1
  <2> QED
    BY <1>2, <1>5, <2>2, <2>3, <2>4, <2>5, Zenon DEF k, rows, t
<1> QED
  BY <1>4, <1>5 DEF MarkViewed

LEMMA RowLeftType ==
    ASSUME TypeOK, NEW w \in Workspaces, NEW m \in Members, RowLeft(w, m)
    PROVE  /\ viewer' \in [Viewers -> Viewing \cup {None}]
           /\ \A v \in Viewers :
                 /\ viewer'[v] # None => viewer[v] # None
                 /\ viewer[v] # None =>
                       /\ viewer'[v].member = viewer[v].member
                       /\ viewer'[v].rows =
                             IF viewer[v].member = m THEN viewer[v].rows \ {w} ELSE viewer[v].rows
<1>1. viewer \in [Viewers -> Viewing \cup {None}]
  BY DEF TypeOK, MembershipTypeOK
<1>2. ASSUME NEW v \in Viewers
      PROVE  /\ viewer'[v] \in Viewing \cup {None}
             /\ viewer'[v] # None => viewer[v] # None
             /\ viewer[v] # None =>
                   /\ viewer'[v].member = viewer[v].member
                   /\ viewer'[v].rows =
                         IF viewer[v].member = m THEN viewer[v].rows \ {w} ELSE viewer[v].rows
  <2>1. CASE viewer[v] # None /\ viewer[v].member = m
    <3>1. viewer[v] \in Viewing
      BY <1>1, <2>1
    <3>2. viewer'[v] = [viewer[v] EXCEPT !.rows = @ \ {w}]
      BY <2>1 DEF RowLeft
    <3> QED
      BY <2>1, <3>1, <3>2, NoneAssumption DEF Viewing
  <2>2. CASE ~(viewer[v] # None /\ viewer[v].member = m)
    BY <1>1, <2>2 DEF RowLeft
  <2> QED
    BY <2>1, <2>2
<1>3. viewer' = [v \in Viewers |-> viewer'[v]]
  BY DEF RowLeft
<1> QED
  BY <1>2, <1>3

\* The transactions that touch workspaces, members, invitations or views.
LEMMA MembershipTransactions ==
    ASSUME Next
    PROVE  \/ \E w \in Workspaces, m \in Members, now \in Instants :
                 Create(w, m, now) \/ Accept(w, m, now) \/ Leave(w, m, now)
           \/ \E w \in Workspaces, m \in Members : Issue(w, m)
           \/ \E w \in Workspaces : Expire(w)
           \/ \E w \in Workspaces, m, n \in Members, now \in Instants :
                 TransferOwnership(w, m, n, now)
           \/ \E v \in Viewers, m \in Members, w \in Workspaces : SelectView(v, m, w)
           \/ \E v \in Viewers : MarkView(v)
           \/ workspace' = workspace /\ member' = member /\ invited' = invited /\ viewer' = viewer
<1> USE DEF Start, Pause, Resume, End, CompleteGeneration, Confirm
<1>1. \/ \E w \in Workspaces, m \in Members, now \in Instants :
            Create(w, m, now) \/ Accept(w, m, now) \/ Leave(w, m, now)
      \/ \E w \in Workspaces, m \in Members : Issue(w, m)
      \/ \E w \in Workspaces : Expire(w)
      \/ \E w \in Workspaces, m, n \in Members, now \in Instants :
            TransferOwnership(w, m, n, now)
      \/ \E v \in Viewers, m \in Members, w \in Workspaces : SelectView(v, m, w)
      \/ \E v \in Viewers : MarkView(v)
      \/ membershipVars' = membershipVars
  BY DEF Next
<1> QED
  BY <1>1 DEF membershipVars

LEMMA WorkspaceFields ==
    /\ \A now \in Instants : [status |-> "OPEN", createdAt |-> now] \in Workspace
    /\ \A x \in Workspace : [x EXCEPT !.status = "DELETED"] \in Workspace
BY DEF Workspace

LEMMA MembershipType ==
    ASSUME TypeOK, Next
    PROVE  MembershipTypeOK'
<1> DEFINE Goal == MembershipTypeOK'
<1>1. /\ workspace \in [Workspaces -> Workspace]
      /\ member \in Rows
      /\ invited \subseteq Workspaces
      /\ viewer \in [Viewers -> Viewing \cup {None}]
  BY DEF TypeOK, MembershipTypeOK, Rows
<1>2. ASSUME NEW w \in Workspaces, NEW m \in Members, NEW now \in Instants, Create(w, m, now)
      PROVE  Goal
  <2>1. /\ workspace' = [workspace EXCEPT ![w] = [status |-> "OPEN", createdAt |-> now]]
        /\ member' = [member EXCEPT ![w][m] = NewRow("OWNER", now)]
        /\ invited' = invited /\ viewer' = viewer
    BY <1>2 DEF Create, CreateWorkspace
  <2>2. member' \in Rows
    BY <2>1, NewRowSteps
  <2>3. workspace' \in [Workspaces -> Workspace]
    BY <1>1, <2>1, WorkspaceFields
  <2> QED
    BY <1>1, <2>1, <2>2, <2>3 DEF MembershipTypeOK, Rows
<1>3. ASSUME NEW w \in Workspaces, NEW m \in Members, NEW now \in Instants, Accept(w, m, now)
      PROVE  Goal
  <2>1. /\ member' = [member EXCEPT ![w][m] = NewRow("MEMBER", now)]
        /\ workspace' = workspace /\ invited' = invited /\ viewer' = viewer
    BY <1>3 DEF Accept, AcceptInvitation
  <2>2. member' \in Rows
    BY <2>1, NewRowSteps
  <2> QED
    BY <1>1, <2>1, <2>2 DEF MembershipTypeOK, Rows
<1>4. ASSUME NEW w \in Workspaces, NEW m \in Members, NEW now \in Instants, Leave(w, m, now)
      PROVE  Goal
  <2>1. LeaveRow(w, m, now)
    BY <1>4 DEF Leave
  <2>2. /\ \/ workspace' = [workspace EXCEPT ![w].status = "DELETED"]
           \/ workspace' = workspace
        /\ invited' = invited
        /\ RowLeft(w, m)
    BY <2>1 DEF LeaveRow
  <2>3. workspace' \in [Workspaces -> Workspace]
    BY <1>1, <2>2, WorkspaceFields
  <2>4. member' \in Rows
    BY <2>1, LeaveRowSteps
  <2> QED
    BY <1>1, <2>2, <2>3, <2>4, RowLeftType DEF MembershipTypeOK, Rows
<1>5. ASSUME NEW w \in Workspaces, NEW m \in Members, NEW n \in Members, NEW now \in Instants,
             TransferOwnership(w, m, n, now)
      PROVE  Goal
  <2>1. TransferRows(w, m, n, now)
    BY <1>5 DEF TransferOwnership
  <2>2. workspace' = workspace /\ invited' = invited /\ RowLeft(w, m)
    BY <2>1 DEF TransferRows
  <2>3. member' \in Rows
    BY <2>1, TransferRowsSteps
  <2> QED
    BY <1>1, <2>2, <2>3, RowLeftType DEF MembershipTypeOK, Rows
<1>6. ASSUME NEW w \in Workspaces, NEW m \in Members, Issue(w, m)
      PROVE  Goal
  BY <1>1, <1>6 DEF Issue, IssueInvitation, MembershipTypeOK, Rows
<1>7. ASSUME NEW w \in Workspaces, Expire(w)
      PROVE  Goal
  BY <1>1, <1>7 DEF Expire, InvitationsExpire, MembershipTypeOK, Rows
<1>8. ASSUME NEW v \in Viewers, NEW m \in Members, NEW w \in Workspaces, SelectView(v, m, w)
      PROVE  Goal
  <2>1. ViewableBy(m) \subseteq Workspaces
    BY DEF ViewableBy
  <2>2. [member |-> m, target |-> w, rows |-> ViewableBy(m)] \in Viewing
    BY <2>1 DEF Viewing
  <2> QED
    BY <1>1, <1>8, <2>2 DEF SelectView, SelectViewed, MembershipTypeOK, Rows
<1>9. ASSUME NEW v \in Viewers, MarkView(v)
      PROVE  Goal
  <2>1. MarkViewed(v)
    BY <1>9 DEF MarkView
  <2>2. viewer' = [viewer EXCEPT ![v] = None] /\ workspace' = workspace /\ invited' = invited
    BY <2>1 DEF MarkViewed
  <2>3. member' \in Rows
    BY <2>1, MarkViewedSteps
  <2> QED
    BY <1>1, <2>2, <2>3 DEF MembershipTypeOK, Rows
<1>10. ASSUME workspace' = workspace, member' = member, invited' = invited, viewer' = viewer
       PROVE  Goal
  BY <1>1, <1>10 DEF MembershipTypeOK, Rows
<1> HIDE DEF Goal
<1>11. Goal
  BY <1>2, <1>3, <1>4, <1>5, <1>6, <1>7, <1>8, <1>9, <1>10, MembershipTransactions
<1> QED
  BY <1>11 DEF Goal

-----------------------------------------------------------------------------
(* Type correctness *)

\* Rows, clocks and statements under way keep their types.  In particular the
\* milliseconds of a recording are never negative, whatever clocks show.
THEOREM TypeCorrect == Spec => []TypeOK
<1>1. Init => TypeOK
  <2> SUFFICES ASSUME Init PROVE TypeOK
    OBVIOUS
  <2>1. NoWorkspace \in Workspace /\ NoRow \in Row
    BY InstantsAreNumbers DEF NoWorkspace, Workspace, NoRow, Row
  <2>2. MembershipTypeOK
    BY <2>1 DEF Init, MembershipInit, MembershipTypeOK
  <2>3. SessionTypeOK
    BY NoSessionType DEF Init, SessionInit, SessionTypeOK
  <2>4. NoDocument \in Document
    <3>1. (CHOOSE w \in Workspaces : TRUE) \in Workspaces
      BY MembershipAssumption
    <3> QED
      BY <3>1, InstantsAreNumbers DEF NoDocument, Document
  <2>5. DocumentTypeOK
    BY <2>4 DEF Init, DocumentInit, DocumentTypeOK
  <2> QED
    BY <2>2, <2>3, <2>5 DEF TypeOK
<1>2. TypeOK /\ [Next]_vars => TypeOK'
  <2>1. ASSUME TypeOK, Next PROVE TypeOK'
    <3>1. DocumentTypeOK'
      BY <2>1, DocumentSteps, ConfirmationSteps DEF DocumentTypeOK
    <3> QED
      BY <2>1, <3>1, MembershipType, SessionsType DEF TypeOK
  <2>2. ASSUME TypeOK, UNCHANGED vars PROVE TypeOK'
    BY <2>2 DEF vars, TypeOK, MembershipTypeOK, SessionTypeOK, DocumentTypeOK
  <2> QED
    BY <2>1, <2>2
<1> QED
  BY <1>1, <1>2, PTL DEF Spec

-----------------------------------------------------------------------------
(* Clocks *)

\* The conjuncts of RowsMeetConstraints for one session and for one document.
SessionMeets(s) ==
    /\ s.status = "RECORDING" =>
          /\ s.startedAt <= s.currentIntervalStartedAt
          /\ s.currentIntervalStartedAt <= s.lastSeenAt
          /\ s.endedAt = NoInstant
          /\ s.accumulated * TicksPerMilli <= s.currentIntervalStartedAt - s.startedAt
    /\ s.status # "RECORDING" =>
          /\ s.currentIntervalStartedAt = NoInstant
          /\ s.startedAt <= s.lastSeenAt
          /\ s.accumulated * TicksPerMilli <= s.lastSeenAt - s.startedAt
    /\ s.status = "PAUSED" => s.endedAt = NoInstant
    /\ IsOver(s) => s.endedAt = s.lastSeenAt
    /\ s.pausedAt # NoInstant => s.pausedAt >= s.startedAt

DocumentMeets(x) == x.status = "ARCHIVED" => x.archivedAt >= x.createdAt

\* Whatever is counted up to a time that is accepted fits in the time since
\* the start.
LEMMA CountFits ==
    ASSUME NEW s \in Session, SessionMeets(s), NEW at \in Instants, TimeAccepted(s, at)
    PROVE  /\ s.startedAt <= at
           /\ Counted(s, at) * TicksPerMilli <= at - s.startedAt
<1> DEFINE a == s.accumulated * TicksPerMilli
           c == Counted(s, at) * TicksPerMilli
<1>1. TicksPerMilli \in Nat
  BY SessionAssumption
<1>2. /\ s.startedAt \in Int /\ s.lastSeenAt \in Int /\ s.currentIntervalStartedAt \in Int
      /\ at \in Int
      /\ s.accumulated \in Nat /\ Counted(s, at) \in Nat
  BY SessionFields, InstantsAreNumbers, CountedCorrect
<1>3. a \in Int /\ c \in Int
  BY <1>1, <1>2
<1>4. at >= s.lastSeenAt
  BY DEF TimeAccepted
<1>5. CASE s.status = "RECORDING"
  <2>1. c <= a + (at - s.currentIntervalStartedAt)
    BY <1>5, CountedCorrect
  <2>2. a <= s.currentIntervalStartedAt - s.startedAt
    BY <1>5 DEF SessionMeets
  <2>3. s.startedAt <= s.currentIntervalStartedAt /\ s.currentIntervalStartedAt <= s.lastSeenAt
    BY <1>5 DEF SessionMeets
  <2> HIDE DEF a, c
  <2> QED
    BY <1>2, <1>3, <1>4, <2>1, <2>2, <2>3 DEF c
<1>6. CASE s.status # "RECORDING"
  <2>1. Counted(s, at) = s.accumulated
    BY <1>6, CountedCorrect
  <2>2. a <= s.lastSeenAt - s.startedAt /\ s.startedAt <= s.lastSeenAt
    BY <1>6 DEF SessionMeets
  <2> HIDE DEF a
  <2>3. c = a
    BY <2>1 DEF a
  <2> HIDE DEF c
  <2> QED
    BY <1>2, <1>3, <1>4, <2>2, <2>3 DEF c
<1> QED
  BY <1>5, <1>6

LEMMA SessionMeetsSteps ==
    ASSUME NEW s \in Session, SessionMeets(s), NEW s2, SessionStep(s, s2)
    PROVE  SessionMeets(s2)
<1>0. /\ s.startedAt \in Int /\ s.lastSeenAt \in Int /\ s.pausedAt \in Int
      /\ Instants \subseteq Int /\ s.startedAt \in Nat /\ NoInstant \in Int
      /\ TicksPerMilli \in Nat
  BY SessionFields, InstantsAreNumbers, SessionAssumption
<1>1. ASSUME NEW w \in Workspaces, NEW p \in Proofs, NEW now \in Instants,
             s2 = NewSession(w, p, now)
      PROVE  SessionMeets(s2)
  <2>1. 0 * TicksPerMilli = 0 /\ now \in Int
    BY <1>0
  <2> QED
    BY <1>0, <1>1, <2>1, NewSessionType DEF SessionMeets, IsOver
<1>2. ASSUME NEW now \in Instants, s.status = "RECORDING", TimeAccepted(s, now), s2 = Paused(s, now)
      PROVE  SessionMeets(s2)
  <2>1. s.startedAt <= now /\ Counted(s, now) * TicksPerMilli <= now - s.startedAt
    BY <1>2, CountFits
  <2>2. s.endedAt = NoInstant
    BY <1>2 DEF SessionMeets
  <2> QED
    BY <1>0, <1>2, <2>1, <2>2, PausedType DEF SessionMeets, IsOver
<1>3. ASSUME NEW now \in Instants, s.status = "PAUSED", TimeAccepted(s, now), s2 = Resumed(s, now)
      PROVE  SessionMeets(s2)
  <2>1. s.startedAt <= now /\ Counted(s, now) * TicksPerMilli <= now - s.startedAt
    BY <1>3, CountFits
  <2>2. Counted(s, now) = s.accumulated
    BY <1>3, CountedCorrect
  <2>3. s.endedAt = NoInstant
    BY <1>3 DEF SessionMeets
  <2> QED
    BY <1>0, <1>3, <2>1, <2>2, <2>3, ResumedType DEF SessionMeets, IsOver
<1>4. ASSUME NEW at \in Instants, NEW st \in {"ENDED", "DISCARDED"}, TimeAccepted(s, at),
             s2 = Stopped(s, st, at)
      PROVE  SessionMeets(s2)
  <2>1. s.startedAt <= at /\ Counted(s, at) * TicksPerMilli <= at - s.startedAt
    BY <1>4, CountFits
  <2>2. s.pausedAt # NoInstant => s.pausedAt >= s.startedAt
    BY DEF SessionMeets
  <2>3. at - s.startedAt \in Int
    BY <1>0
  <2> QED
    BY <1>0, <1>4, <2>1, <2>2, <2>3, StoppedType DEF SessionMeets, IsOver
<1> QED
  BY <1>1, <1>2, <1>3, <1>4 DEF SessionStep, Starts, Pauses, Resumes, Stops

LEMMA DocumentMeetsSteps ==
    ASSUME NEW x \in Document, DocumentMeets(x), NEW x2, DocumentStep(x, x2)
    PROVE  DocumentMeets(x2)
<1>1. ASSUME NEW w \in Workspaces, NEW now \in Instants, Published(x2, w, now)
      PROVE  DocumentMeets(x2)
  BY <1>1 DEF Published, DocumentMeets
<1>2. CASE Archives(x, x2)
  <2>1. PICK now \in Instants :
           now >= x.createdAt /\ x2 = [x EXCEPT !.status = "ARCHIVED", !.archivedAt = now]
    BY <1>2 DEF Archives
  <2>2. x2.archivedAt = now /\ x2.createdAt = x.createdAt
    BY <2>1 DEF Document
  <2> QED
    BY <2>1, <2>2 DEF DocumentMeets
<1> QED
  BY <1>1, <1>2 DEF DocumentStep

\* RowsMeetConstraints, cell by cell.
LEMMA MeetsByCell ==
    RowsMeetConstraints <=> /\ \A m \in Members, q \in RequestIds : SessionMeets(session[m][q])
                            /\ \A d \in Documents : DocumentMeets(document[d])
BY DEF RowsMeetConstraints, SessionMeets, DocumentMeets

\* Whatever instants the clocks show at each request, what the entities write
\* satisfies the check constraints, so no transaction is undone by one, and a
\* recording is never counted longer than it took.
THEOREM RowsMeetConstraintsCorrect == Spec => []RowsMeetConstraints
<1>1. Init => RowsMeetConstraints
  <2> SUFFICES ASSUME Init PROVE RowsMeetConstraints
    OBVIOUS
  <2>1. SessionMeets(NoSession)
    <3>1. 0 * TicksPerMilli = 0
      BY SessionAssumption
    <3> QED
      BY <3>1, NoSessionType DEF SessionMeets, IsOver
  <2>2. DocumentMeets(NoDocument)
    BY DEF DocumentMeets, NoDocument
  <2> QED
    BY <2>1, <2>2, MeetsByCell DEF Init, SessionInit, DocumentInit
<1>2. TypeOK /\ RowsMeetConstraints /\ [Next]_vars => RowsMeetConstraints'
  <2>1. ASSUME TypeOK, RowsMeetConstraints, Next PROVE RowsMeetConstraints'
    <3>1. ASSUME NEW m \in Members, NEW q \in RequestIds
          PROVE  SessionMeets(session'[m][q])
      <4>1. session[m][q] \in Session /\ SessionMeets(session[m][q])
        BY <2>1, MeetsByCell DEF TypeOK, SessionTypeOK
      <4> QED
        BY <2>1, <4>1, SessionSteps, SessionMeetsSteps
    <3>2. ASSUME NEW d \in Documents
          PROVE  DocumentMeets(document'[d])
      <4>1. document[d] \in Document /\ DocumentMeets(document[d])
        BY <2>1, MeetsByCell DEF TypeOK, DocumentTypeOK
      <4> QED
        BY <2>1, <4>1, DocumentSteps, DocumentMeetsSteps
    <3> QED
      BY <3>1, <3>2 DEF RowsMeetConstraints, SessionMeets, DocumentMeets
  <2>2. ASSUME RowsMeetConstraints, UNCHANGED vars PROVE RowsMeetConstraints'
    BY <2>2 DEF vars, RowsMeetConstraints
  <2> QED
    BY <2>1, <2>2
<1> QED
  BY <1>1, <1>2, TypeCorrect, PTL DEF Spec

\* The rows keep their types and the check constraints of the database at every
\* commit (the entities of the workspace, recording and document packages).
THEOREM RowsAreSoundCorrect == Spec => []RowsAreSound
BY TypeCorrect, RowsMeetConstraintsCorrect, PTL DEF RowsAreSound

\* A discard is accepted at any instant, so neither leaving nor handing over is
\* ever refused because of a recording.
THEOREM DiscardNeverRefusedCorrect == Spec => []DiscardNeverRefused
<1>1. TypeOK /\ RowsMeetConstraints => DiscardNeverRefused
  <2> SUFFICES ASSUME TypeOK, RowsMeetConstraints,
                      NEW m \in Members, NEW q \in RequestIds, NEW now \in Instants,
                      IsRunning(session[m][q])
               PROVE  Discardable(session[m][q], now)
    BY DEF DiscardNeverRefused
  <2> DEFINE s == session[m][q]
  <2>1. s \in Session /\ SessionMeets(s)
    BY MeetsByCell DEF TypeOK, SessionTypeOK
  <2>2. s.lastSeenAt \in Int /\ s.currentIntervalStartedAt \in Int /\ now \in Int
    BY <2>1, SessionFields, InstantsAreNumbers
  <2> HIDE DEF s
  <2>3. s.status = "RECORDING" => s.currentIntervalStartedAt <= s.lastSeenAt
    BY <2>1 DEF SessionMeets
  <2>4. Discardable(s, now)
    BY <2>2, <2>3 DEF Discardable, TimeAccepted, NotBeforeLastSeen
  <2> QED
    BY <2>4 DEF s
<1> QED
  BY <1>1, TypeCorrect, RowsMeetConstraintsCorrect, PTL

-----------------------------------------------------------------------------
(* What a step may do to the crew of a workspace *)

KeptAs(x) ==
    /\ workspace'[x].status = workspace[x].status
    /\ Crew(x)' = Crew(x)
    /\ Owners(x)' = Owners(x)

OthersKept(w) == \A x \in Workspaces : x # w => KeptAs(x)

Opened(w, m) ==
    /\ workspace[w].status = "NONE" /\ workspace'[w].status = "OPEN"
    /\ Crew(w)' = Crew(w) \cup {m}
    /\ Owners(w)' = Owners(w) \cup {m}
    /\ OthersKept(w)

Joined(w, m) ==
    /\ workspace[w].status = "OPEN" /\ workspace'[w].status = "OPEN"
    /\ m \notin Crew(w)
    /\ Crew(w)' = Crew(w) \cup {m}
    /\ Owners(w)' = Owners(w)
    /\ OthersKept(w)

Departed(w, m) ==
    /\ workspace[w].status = "OPEN"
    /\ m \in Crew(w)
    /\ Crew(w)' = Crew(w) \ {m}
    /\ Owners(w)' = Owners(w) \ {m}
    /\ IF Crew(w) = {m}
       THEN workspace'[w].status = "DELETED"
       ELSE workspace'[w].status = "OPEN" /\ m \notin Owners(w)
    /\ OthersKept(w)

HandedOver(w, m, n) ==
    /\ workspace[w].status = "OPEN" /\ workspace'[w].status = "OPEN"
    /\ m \in Owners(w)
    /\ n \in Crew(w) /\ n # m /\ n \notin Owners(w)
    /\ Crew(w)' = Crew(w) \ {m}
    /\ Owners(w)' = (Owners(w) \ {m}) \cup {n}
    /\ OthersKept(w)

\* A workspace none of whose rows changed keeps its crew.
LEMMA KeptRows ==
    ASSUME NEW w \in Workspaces, NEW changed, RowsKeptBut(w, changed)
    PROVE  \A x \in Workspaces : x # w => Crew(x)' = Crew(x) /\ Owners(x)' = Owners(x)
BY DEF RowsKeptBut, Crew, Owners

LEMMA CreateCrew ==
    ASSUME TypeOK, NEW w \in Workspaces, NEW m \in Members, NEW now \in Instants,
           Create(w, m, now)
    PROVE  Opened(w, m)
<1>1. /\ workspace[w].status = "NONE"
      /\ workspace' = [workspace EXCEPT ![w] = [status |-> "OPEN", createdAt |-> now]]
      /\ member' = [member EXCEPT ![w][m] = NewRow("OWNER", now)]
  BY DEF Create, CreateWorkspace
<1>2. /\ workspace'[w].status = "OPEN"
      /\ \A x \in Workspaces : x # w => workspace'[x] = workspace[x]
  BY <1>1 DEF TypeOK, MembershipTypeOK
<1>3. member'[w][m] = NewRow("OWNER", now) /\ RowsKeptBut(w, {m})
  BY <1>1, NewRowSteps
<1>4. member'[w][m].status = "ACTIVE" /\ member'[w][m].role = "OWNER"
  BY <1>3, NewRowType
<1>5. Crew(w)' = Crew(w) \cup {m}
  BY <1>3, <1>4 DEF Crew, RowsKeptBut
<1>6. Owners(w)' = Owners(w) \cup {m}
  BY <1>3, <1>4 DEF Owners, Crew, RowsKeptBut
<1> QED
  BY <1>1, <1>2, <1>3, <1>5, <1>6, KeptRows DEF Opened, OthersKept, KeptAs

LEMMA AcceptCrew ==
    ASSUME TypeOK, NEW w \in Workspaces, NEW m \in Members, NEW now \in Instants,
           Accept(w, m, now)
    PROVE  Joined(w, m)
<1>1. /\ workspace[w].status = "OPEN" /\ workspace' = workspace
      /\ m \notin Crew(w)
      /\ member' = [member EXCEPT ![w][m] = NewRow("MEMBER", now)]
  BY DEF Accept, AcceptInvitation, IsOpen
<1>2. member'[w][m] = NewRow("MEMBER", now) /\ RowsKeptBut(w, {m})
  BY <1>1, NewRowSteps
<1>3. member'[w][m].status = "ACTIVE" /\ member'[w][m].role = "MEMBER"
  BY <1>2, NewRowType
<1>4. Crew(w)' = Crew(w) \cup {m}
  BY <1>2, <1>3 DEF Crew, RowsKeptBut
<1>5. Owners(w)' = Owners(w)
  BY <1>1, <1>2, <1>3 DEF Owners, Crew, RowsKeptBut
<1> QED
  BY <1>1, <1>2, <1>4, <1>5, KeptRows DEF Joined, OthersKept, KeptAs

LEMMA LeaveCrew ==
    ASSUME TypeOK, NEW w \in Workspaces, NEW m \in Members, NEW now \in Instants,
           LeaveRow(w, m, now)
    PROVE  Departed(w, m)
<1>1. /\ workspace[w].status = "OPEN"
      /\ m \in Crew(w)
      /\ Crew(w) = {m} \/ member[w][m].role # "OWNER"
      /\ IF Crew(w) = {m}
         THEN workspace' = [workspace EXCEPT ![w].status = "DELETED"]
         ELSE workspace' = workspace
  BY DEF LeaveRow, IsActive, IsOpen, LeavePolicy
<1>2. Gone(member[w][m], member'[w][m]) /\ RowsKeptBut(w, {m})
  BY LeaveRowSteps
<1>3. Crew(w)' = Crew(w) \ {m}
  BY <1>2 DEF Crew, RowsKeptBut, Gone
<1>4. Owners(w)' = Owners(w) \ {m}
  BY <1>2 DEF Owners, Crew, RowsKeptBut, Gone
<1>5. workspace \in [Workspaces -> Workspace]
  BY DEF TypeOK, MembershipTypeOK
<1>6. \A x \in Workspaces : x # w => workspace'[x] = workspace[x]
  BY <1>1, <1>5
<1>7. CASE Crew(w) = {m}
  <2>1. workspace'[w] = [workspace[w] EXCEPT !.status = "DELETED"]
    BY <1>1, <1>5, <1>7
  <2>2. workspace'[w].status = "DELETED"
    BY <1>5, <2>1 DEF Workspace
  <2> QED
    BY <1>1, <1>2, <1>3, <1>4, <1>6, <1>7, <2>2, KeptRows DEF Departed, OthersKept, KeptAs
<1>8. CASE Crew(w) # {m}
  <2>1. m \notin Owners(w)
    BY <1>1, <1>8 DEF Owners
  <2> QED
    BY <1>1, <1>2, <1>3, <1>4, <1>6, <1>8, <2>1, KeptRows DEF Departed, OthersKept, KeptAs
<1> QED
  BY <1>7, <1>8

LEMMA TransferCrew ==
    ASSUME TypeOK, NEW w \in Workspaces, NEW m \in Members, NEW n \in Members, NEW now \in Instants,
           TransferRows(w, m, n, now)
    PROVE  HandedOver(w, m, n)
<1>1. /\ workspace[w].status = "OPEN" /\ workspace' = workspace
      /\ m # n /\ m \in Crew(w) /\ n \in Crew(w)
      /\ member[w][m].role = "OWNER" /\ member[w][n].role = "MEMBER"
  BY DEF TransferRows, IsOpen
<1>2. /\ Gone(member[w][m], member'[w][m])
      /\ member'[w][n].status = "ACTIVE" /\ member'[w][n].role = "OWNER"
      /\ RowsKeptBut(w, {m, n})
  BY TransferRowsSteps
<1>3. Crew(w)' = Crew(w) \ {m}
  BY <1>1, <1>2 DEF Crew, RowsKeptBut, Gone
<1>4. Owners(w)' = (Owners(w) \ {m}) \cup {n}
  BY <1>1, <1>2 DEF Owners, Crew, RowsKeptBut, Gone
<1>5. m \in Owners(w) /\ n \notin Owners(w)
  BY <1>1 DEF Owners
<1> QED
  BY <1>1, <1>2, <1>3, <1>4, <1>5, KeptRows DEF HandedOver, OthersKept, KeptAs

LEMMA CrewSteps ==
    ASSUME TypeOK, Next
    PROVE  \/ \E w \in Workspaces, m \in Members :
                 Opened(w, m) \/ Joined(w, m) \/ Departed(w, m)
           \/ \E w \in Workspaces, m, n \in Members : HandedOver(w, m, n)
           \/ \A x \in Workspaces : KeptAs(x)
<1> DEFINE Goal == \/ \E w \in Workspaces, m \in Members :
                         Opened(w, m) \/ Joined(w, m) \/ Departed(w, m)
                   \/ \E w \in Workspaces, m, n \in Members : HandedOver(w, m, n)
                   \/ \A x \in Workspaces : KeptAs(x)
<1>1. ASSUME NEW w \in Workspaces, NEW m \in Members, NEW now \in Instants, Create(w, m, now)
      PROVE  Goal
  BY <1>1, CreateCrew
<1>2. ASSUME NEW w \in Workspaces, NEW m \in Members, NEW now \in Instants, Accept(w, m, now)
      PROVE  Goal
  BY <1>2, AcceptCrew
<1>3. ASSUME NEW w \in Workspaces, NEW m \in Members, NEW now \in Instants, Leave(w, m, now)
      PROVE  Goal
  BY <1>3, LeaveCrew DEF Leave
<1>4. ASSUME NEW w \in Workspaces, NEW m \in Members, NEW n \in Members, NEW now \in Instants,
             TransferOwnership(w, m, n, now)
      PROVE  Goal
  BY <1>4, TransferCrew DEF TransferOwnership
<1>5. ASSUME NEW v \in Viewers, MarkView(v)
      PROVE  Goal
  <2>1. MarkViewed(v) /\ workspace' = workspace
    BY <1>5 DEF MarkView, MarkViewed
  <2>2. \A x \in Workspaces, n \in Members :
           member'[x][n].status = member[x][n].status /\ member'[x][n].role = member[x][n].role
    BY <2>1, MarkViewedSteps
  <2>3. \A x \in Workspaces : Crew(x)' = Crew(x) /\ Owners(x)' = Owners(x)
    BY <2>2 DEF Crew, Owners
  <2> QED
    BY <2>1, <2>3 DEF KeptAs
<1>6. ASSUME workspace' = workspace, member' = member
      PROVE  Goal
  BY <1>6 DEF KeptAs, Crew, Owners
<1>7. ASSUME NEW w \in Workspaces, NEW m \in Members, Issue(w, m)
      PROVE  Goal
  BY <1>6, <1>7 DEF Issue, IssueInvitation
<1>8. ASSUME NEW w \in Workspaces, Expire(w)
      PROVE  Goal
  BY <1>6, <1>8 DEF Expire, InvitationsExpire
<1>9. ASSUME NEW v \in Viewers, NEW m \in Members, NEW w \in Workspaces, SelectView(v, m, w)
      PROVE  Goal
  BY <1>6, <1>9 DEF SelectView, SelectViewed
<1> HIDE DEF Goal
<1>10. Goal
  BY <1>1, <1>2, <1>3, <1>4, <1>5, <1>6, <1>7, <1>8, <1>9, MembershipTransactions
<1> QED
  BY <1>10 DEF Goal

-----------------------------------------------------------------------------
(* One owner *)

\* OneOwner for one workspace.
Owned(w) ==
    /\ workspace[w].status = "OPEN" => \E m \in Crew(w) : Owners(w) = {m}
    /\ workspace[w].status # "OPEN" => Crew(w) = {}

LEMMA OwnersAreCrew == \A w \in Workspaces : Owners(w) \subseteq Crew(w)
BY DEF Owners

LEMMA InitiallyEmpty ==
    ASSUME Init
    PROVE  \A w \in Workspaces : /\ workspace[w].status = "NONE"
                                 /\ Crew(w) = {}
                                 /\ Owners(w) = {}
<1>1. \A w \in Workspaces : workspace[w] = NoWorkspace
  BY DEF Init, MembershipInit
<1>2. NoWorkspace.status = "NONE"
  BY DEF NoWorkspace
<1>3. NoRow.status = "NONE"
  BY DEF NoRow
<1>4. \A w \in Workspaces, m \in Members : member[w][m] = NoRow
  BY DEF Init, MembershipInit
<1>5. \A w \in Workspaces : Crew(w) = {}
  BY <1>3, <1>4 DEF Crew
<1> QED
  BY <1>1, <1>2, <1>5, OwnersAreCrew

\* For any number of members who leave, come back and hand over in any order,
\* an open workspace has one owner and a deleted one nobody.
THEOREM OneOwnerCorrect == Spec => []OneOwner
<1>1. Init => OneOwner
  BY InitiallyEmpty DEF OneOwner, IsOpen
<1>2. TypeOK /\ OneOwner /\ [Next]_vars => OneOwner'
  <2>1. ASSUME TypeOK, OneOwner, Next PROVE OneOwner'
    <3>1. \A w \in Workspaces : Owned(w)
      BY <2>1 DEF OneOwner, Owned, IsOpen
    <3>2. \A x \in Workspaces : KeptAs(x) => Owned(x)'
      BY <3>1 DEF KeptAs, Owned
    <3>3. ASSUME NEW w \in Workspaces, NEW m \in Members, Opened(w, m)
          PROVE  \A x \in Workspaces : Owned(x)'
      <4>1. Crew(w) = {} /\ Owners(w) = {}
        BY <3>1, <3>3, OwnersAreCrew DEF Opened, Owned
      <4> QED
        BY <3>2, <3>3, <4>1 DEF Opened, Owned, OthersKept
    <3>4. ASSUME NEW w \in Workspaces, NEW m \in Members, Joined(w, m)
          PROVE  \A x \in Workspaces : Owned(x)'
      BY <3>1, <3>2, <3>4 DEF Joined, Owned, OthersKept
    <3>5. ASSUME NEW w \in Workspaces, NEW m \in Members, Departed(w, m)
          PROVE  \A x \in Workspaces : Owned(x)'
      <4>1. CASE Crew(w) = {m}
        <5>1. Owned(w)'
          BY <3>5, <4>1 DEF Departed, Owned
        <5> QED
          BY <3>2, <3>5, <5>1 DEF Departed, OthersKept
      <4>2. CASE Crew(w) # {m}
        <5>1. PICK k \in Crew(w) : Owners(w) = {k}
          BY <3>1, <3>5 DEF Departed, Owned
        <5>2. Owned(w)'
          BY <3>5, <4>2, <5>1 DEF Departed, Owned
        <5> QED
          BY <3>2, <3>5, <5>2 DEF Departed, OthersKept
      <4> QED
        BY <4>1, <4>2
    <3>6. ASSUME NEW w \in Workspaces, NEW m \in Members, NEW n \in Members, HandedOver(w, m, n)
          PROVE  \A x \in Workspaces : Owned(x)'
      <4>1. Owners(w) = {m}
        BY <3>1, <3>6 DEF HandedOver, Owned
      <4>2. Owned(w)'
        BY <3>6, <4>1 DEF HandedOver, Owned
      <4> QED
        BY <3>2, <3>6, <4>2 DEF HandedOver, OthersKept
    <3>7. \A x \in Workspaces : Owned(x)'
      BY <2>1, <3>2, <3>3, <3>4, <3>5, <3>6, CrewSteps
    <3> QED
      BY <3>7 DEF OneOwner, Owned, IsOpen
  <2>2. ASSUME OneOwner, UNCHANGED vars PROVE OneOwner'
    BY <2>2 DEF vars, OneOwner, IsOpen, Crew, Owners
  <2> QED
    BY <2>1, <2>2
<1> QED
  BY <1>1, <1>2, TypeCorrect, PTL DEF Spec

-----------------------------------------------------------------------------
(* What is over stays *)

LEMMA OverStays ==
    ASSUME NEW s \in Session, NEW s2, IsOver(s), SessionStep(s, s2)
    PROVE  s2 = s
BY DEF IsOver, SessionStep, Starts, Pauses, Resumes, Stops, IsRunning

LEMMA DeletedStays ==
    ASSUME TypeOK, Next, NEW w \in Workspaces, workspace[w].status = "DELETED"
    PROVE  workspace'[w] = workspace[w]
<1> DEFINE Goal == workspace'[w] = workspace[w]
<1>1. workspace \in [Workspaces -> Workspace]
  BY DEF TypeOK, MembershipTypeOK
<1>2. ASSUME NEW x \in Workspaces, NEW m \in Members, NEW now \in Instants, Create(x, m, now)
      PROVE  Goal
  BY <1>1, <1>2 DEF Create, CreateWorkspace
<1>3. ASSUME NEW x \in Workspaces, NEW m \in Members, NEW now \in Instants, Leave(x, m, now)
      PROVE  Goal
  <2>1. /\ workspace[x].status = "OPEN"
        /\ \/ workspace' = workspace
           \/ workspace' = [workspace EXCEPT ![x].status = "DELETED"]
    BY <1>3 DEF Leave, LeaveRow, IsActive, IsOpen
  <2> QED
    BY <1>1, <2>1
<1>4. ASSUME workspace' = workspace
      PROVE  Goal
  BY <1>4
<1>5. /\ \A x \in Workspaces, m \in Members, now \in Instants :
            Accept(x, m, now) => workspace' = workspace
      /\ \A x \in Workspaces, m \in Members : Issue(x, m) => workspace' = workspace
      /\ \A x \in Workspaces : Expire(x) => workspace' = workspace
      /\ \A x \in Workspaces, m, n \in Members, now \in Instants :
            TransferOwnership(x, m, n, now) => workspace' = workspace
      /\ \A v \in Viewers, m \in Members, x \in Workspaces :
            SelectView(v, m, x) => workspace' = workspace
      /\ \A v \in Viewers : MarkView(v) => workspace' = workspace
  BY DEF Accept, AcceptInvitation, Issue, IssueInvitation, Expire, InvitationsExpire,
         TransferOwnership, TransferRows, SelectView, SelectViewed, MarkView, MarkViewed
<1> HIDE DEF Goal
<1>6. Goal
  BY <1>2, <1>3, <1>4, <1>5, MembershipTransactions
<1> QED
  BY <1>6 DEF Goal

\* No request, however late or often repeated, and nobody who comes back
\* changes an ended or discarded recording, an archived document, a
\* confirmation that was given or a deleted workspace.
THEOREM WhatIsOverStaysCorrect == Spec => WhatIsOverStays
<1> DEFINE Stays ==
      /\ \A m \in Members, q \in RequestIds :
            IsOver(session[m][q]) => session'[m][q] = session[m][q]
      /\ \A d \in Documents :
            /\ document[d].status = "ARCHIVED" => document'[d] = document[d]
            /\ \A m \in Members : confirmedAt[d][m] # NoInstant =>
                  confirmedAt'[d][m] = confirmedAt[d][m]
      /\ \A w \in Workspaces : workspace[w].status = "DELETED" =>
            workspace'[w] = workspace[w]
<1>1. ASSUME TypeOK, Next PROVE Stays
  <2>1. ASSUME NEW m \in Members, NEW q \in RequestIds, IsOver(session[m][q])
        PROVE  session'[m][q] = session[m][q]
    <3>1. session[m][q] \in Session
      BY <1>1 DEF TypeOK, SessionTypeOK
    <3> QED
      BY <1>1, <2>1, <3>1, SessionSteps, OverStays
  <2>2. ASSUME NEW d \in Documents, document[d].status = "ARCHIVED"
        PROVE  document'[d] = document[d]
    <3>1. DocumentStep(document[d], document'[d])
      BY <1>1, DocumentSteps
    <3> QED
      BY <2>2, <3>1 DEF DocumentStep, Archives
  <2> QED
    BY <1>1, <2>1, <2>2, ConfirmationSteps, DeletedStays
<1>2. TypeOK /\ [Next]_vars => [Stays]_vars
  BY <1>1
<1> QED
  BY <1>2, TypeCorrect, PTL DEF Spec, WhatIsOverStays

-----------------------------------------------------------------------------
(* The last workspace viewed *)

\* What a viewer has selected is active still: a row that is left is dropped.
SelectedIsActive ==
    \A v \in Viewers : viewer[v] # None =>
       \A w \in viewer[v].rows : member[w][viewer[v].member].status = "ACTIVE"

LastViewedInv == OneLastViewed /\ SelectedIsActive

LEMMA LastViewedNewRow ==
    ASSUME TypeOK, LastViewedInv, NEW w \in Workspaces, NEW m \in Members, NEW now \in Instants,
           NEW role \in {"OWNER", "MEMBER"},
           member' = [member EXCEPT ![w][m] = NewRow(role, now)],
           viewer' = viewer
    PROVE  LastViewedInv'
<1>0. member'[w][m] = NewRow(role, now) /\ RowsKeptBut(w, {m})
  BY DEF TypeOK, MembershipTypeOK, RowsKeptBut
<1>1. /\ member'[w][m].status = "ACTIVE" /\ member'[w][m].lastViewed = FALSE
      /\ RowsKeptBut(w, {m})
  <2>1. NewRow(role, now).status = "ACTIVE" /\ NewRow(role, now).lastViewed = FALSE
    BY NewRowType
  <2> QED
    BY <1>0, <2>1, Zenon
<1>2. \A k \in Members : ViewedBy(k)' \subseteq ViewedBy(k)
  BY <1>1 DEF ViewedBy, RowsKeptBut
<1>3. OneLastViewed'
  BY <1>1, <1>2 DEF LastViewedInv, OneLastViewed, RowsKeptBut
<1>4. SelectedIsActive'
  <2>1. ASSUME NEW v \in Viewers, viewer[v] # None, NEW x \in viewer[v].rows
        PROVE  member'[x][viewer[v].member].status = "ACTIVE"
    <3>1. viewer[v] \in Viewing
      BY <2>1 DEF TypeOK, MembershipTypeOK
    <3>2. x \in Workspaces /\ viewer[v].member \in Members
      BY <3>1 DEF Viewing
    <3>3. member[x][viewer[v].member].status = "ACTIVE"
      BY <2>1 DEF LastViewedInv, SelectedIsActive
    <3> QED
      BY <1>1, <3>2, <3>3 DEF RowsKeptBut
  <2> QED
    BY <2>1 DEF SelectedIsActive
<1> QED
  BY <1>3, <1>4 DEF LastViewedInv

LEMMA LastViewedGone ==
    ASSUME TypeOK, LastViewedInv, NEW w \in Workspaces, NEW m \in Members, NEW changed,
           member' \in Rows,
           Gone(member[w][m], member'[w][m]),
           RowsKeptBut(w, changed),
           \A n \in Members : n \in changed /\ n # m =>
              /\ member'[w][n].status = "ACTIVE"
              /\ member[w][n].status = "ACTIVE"
              /\ member'[w][n].lastViewed = member[w][n].lastViewed,
           RowLeft(w, m)
    PROVE  LastViewedInv'
<1>1. \A k \in Members : ViewedBy(k)' \subseteq ViewedBy(k)
  BY DEF ViewedBy, RowsKeptBut, Gone
<1>2. \A x \in Workspaces, k \in Members :
         member'[x][k].status = "LEFT" => ~member'[x][k].lastViewed
  <2>1. \A x \in Workspaces, k \in Members :
           member[x][k].status = "LEFT" => ~member[x][k].lastViewed
    BY DEF LastViewedInv, OneLastViewed
  <2> QED
    BY <2>1 DEF RowsKeptBut, Gone
<1>3. OneLastViewed'
  BY <1>1, <1>2 DEF LastViewedInv, OneLastViewed
<1>4. SelectedIsActive'
  <2>1. ASSUME NEW v \in Viewers, viewer'[v] # None, NEW x \in viewer'[v].rows
        PROVE  member'[x][viewer'[v].member].status = "ACTIVE"
    <3>1. /\ viewer[v] # None
          /\ viewer'[v].member = viewer[v].member
          /\ viewer'[v].rows = IF viewer[v].member = m THEN viewer[v].rows \ {w} ELSE viewer[v].rows
      BY <2>1, RowLeftType
    <3>2. viewer[v] \in Viewing
      BY <3>1 DEF TypeOK, MembershipTypeOK
    <3>3. viewer[v].member \in Members /\ viewer[v].rows \subseteq Workspaces
      BY <3>2 DEF Viewing
    <3>4. x \in viewer[v].rows /\ x \in Workspaces /\ (x = w => viewer[v].member # m)
      BY <2>1, <3>1, <3>3
    <3>5. member[x][viewer[v].member].status = "ACTIVE"
      BY <3>1, <3>4 DEF LastViewedInv, SelectedIsActive
    <3> QED
      BY <3>1, <3>3, <3>4, <3>5 DEF RowsKeptBut
  <2> QED
    BY <2>1 DEF SelectedIsActive
<1> QED
  BY <1>3, <1>4 DEF LastViewedInv

LEMMA LastViewedMarked ==
    ASSUME TypeOK, LastViewedInv, NEW v \in Viewers, MarkViewed(v)
    PROVE  LastViewedInv'
<1>0. PICK k \in Members : k = viewer[v].member
  BY MarkViewedSteps DEF Viewing
<1> DEFINE rows == viewer[v].rows
           t == viewer[v].target
<1>1. /\ viewer[v] \in Viewing
      /\ \A w \in Workspaces, m \in Members : member'[w][m].status = member[w][m].status
      /\ \A w \in Workspaces, m \in Members : m # k => member'[w][m] = member[w][m]
  BY <1>0, MarkViewedSteps
<1>2. rows \subseteq Workspaces /\ t \in Workspaces
  BY <1>1 DEF Viewing
<1>3. viewer' = [viewer EXCEPT ![v] = None] /\ viewer[v] # None
  BY DEF MarkViewed
<1>4. \A w \in rows : member[w][k].status = "ACTIVE"
  BY <1>0, <1>3 DEF LastViewedInv, SelectedIsActive
<1>5. SelectedIsActive'
  <2>1. ASSUME NEW u \in Viewers, viewer'[u] # None, NEW x \in viewer'[u].rows
        PROVE  member'[x][viewer'[u].member].status = "ACTIVE"
    <3>1. viewer'[u] = viewer[u] /\ viewer[u] # None
      BY <1>3, <2>1 DEF TypeOK, MembershipTypeOK
    <3>2. viewer[u] \in Viewing
      BY <3>1 DEF TypeOK, MembershipTypeOK
    <3>3. viewer[u].member \in Members /\ x \in Workspaces
      BY <2>1, <3>1, <3>2 DEF Viewing
    <3>4. member[x][viewer[u].member].status = "ACTIVE"
      BY <2>1, <3>1 DEF LastViewedInv, SelectedIsActive
    <3> QED
      BY <1>1, <3>1, <3>3, <3>4
  <2> QED
    BY <2>1 DEF SelectedIsActive
<1>6. CASE member' = member
  BY <1>5, <1>6 DEF LastViewedInv, OneLastViewed, ViewedBy
<1>7. CASE /\ MarkIsUnique(k, rows)
           /\ t \in rows
           /\ \A w \in Workspaces :
                 member'[w][k].lastViewed =
                    IF w \in rows THEN w = t ELSE member[w][k].lastViewed
  <2> HIDE DEF rows, t
  <2>1. \A w \in Workspaces : w \in rows /\ w # t => ~member'[w][k].lastViewed
    BY <1>7, Zenon
  <2>2. \A w \in Workspaces : w \notin rows => (member'[w][k].lastViewed <=> member[w][k].lastViewed)
    BY <1>7, Zenon
  <2>3. ViewedBy(k) \subseteq rows
    BY <1>7 DEF MarkIsUnique
  <2>4. ASSUME NEW x \in ViewedBy(k)'
        PROVE  x = t
    <3>1. x \in Workspaces /\ member'[x][k].status = "ACTIVE" /\ member'[x][k].lastViewed
      BY DEF ViewedBy
    <3>2. CASE x \in rows
      BY <2>1, <3>1, <3>2
    <3>3. CASE x \notin rows
      <4>1. member[x][k].status = "ACTIVE" /\ member[x][k].lastViewed
        BY <1>1, <1>2, <2>2, <3>1, <3>3
      <4> QED
        BY <2>3, <3>1, <3>3, <4>1 DEF ViewedBy
    <3> QED
      BY <3>2, <3>3
  <2>5. \A m \in Members : m # k => ViewedBy(m)' = ViewedBy(m)
    BY <1>1 DEF ViewedBy
  <2>6. ASSUME NEW m \in Members, NEW x \in ViewedBy(m)', NEW y \in ViewedBy(m)'
        PROVE  x = y
    <3>1. CASE m = k
      BY <2>4, <2>6, <3>1
    <3>2. CASE m # k
      <4>1. x \in ViewedBy(m) /\ y \in ViewedBy(m)
        BY <2>5, <3>2
      <4> QED
        BY <4>1 DEF LastViewedInv, OneLastViewed
    <3> QED
      BY <3>1, <3>2
  <2>7. ASSUME NEW m \in Members, NEW w \in Workspaces, member'[w][m].status = "LEFT"
        PROVE  ~member'[w][m].lastViewed
    <3>1. member[w][m].status = "LEFT"
      BY <1>1, <2>7
    <3>2. ~member[w][m].lastViewed
      BY <3>1 DEF LastViewedInv, OneLastViewed
    <3>3. CASE m # k
      BY <1>1, <3>2, <3>3
    <3>4. CASE m = k
      <4>1. w \notin rows
        BY <1>4, <3>1, <3>4 DEF rows
      <4> QED
        BY <2>2, <3>2, <3>4, <4>1
    <3> QED
      BY <3>3, <3>4
  <2> QED
    BY <1>5, <2>6, <2>7 DEF LastViewedInv, OneLastViewed
<1> QED
  BY <1>0, <1>6, <1>7, MarkViewedSteps

\* However many requests of a member race, each knowing only the rows it had
\* selected, the member has at most one last viewed workspace, and never one
\* they have left.
THEOREM OneLastViewedCorrect == Spec => []OneLastViewed
<1>1. Init => LastViewedInv
  <2> SUFFICES ASSUME Init PROVE LastViewedInv
    OBVIOUS
  <2>1. NoRow.status = "NONE" /\ \A w \in Workspaces, m \in Members : member[w][m] = NoRow
    BY DEF Init, MembershipInit, NoRow
  <2>2. \A m \in Members : ViewedBy(m) = {}
    BY <2>1 DEF ViewedBy
  <2>3. \A v \in Viewers : viewer[v] = None
    BY DEF Init, MembershipInit
  <2> QED
    BY <2>1, <2>2, <2>3 DEF LastViewedInv, OneLastViewed, SelectedIsActive
<1>2. TypeOK /\ LastViewedInv /\ [Next]_vars => LastViewedInv'
  <2> SUFFICES ASSUME TypeOK, LastViewedInv, Next \/ UNCHANGED vars
               PROVE  LastViewedInv'
    OBVIOUS
  <2>1. ASSUME NEW w \in Workspaces, NEW m \in Members, NEW now \in Instants,
               Create(w, m, now) \/ Accept(w, m, now)
        PROVE  LastViewedInv'
    <3>1. PICK role \in {"OWNER", "MEMBER"} : member' = [member EXCEPT ![w][m] = NewRow(role, now)]
      BY <2>1 DEF Create, CreateWorkspace, Accept, AcceptInvitation
    <3>2. viewer' = viewer
      BY <2>1 DEF Create, CreateWorkspace, Accept, AcceptInvitation
    <3> QED
      BY <3>1, <3>2, LastViewedNewRow
  <2>2. ASSUME NEW w \in Workspaces, NEW m \in Members, NEW now \in Instants, Leave(w, m, now)
        PROVE  LastViewedInv'
    <3>1. LeaveRow(w, m, now) /\ RowLeft(w, m)
      BY <2>2 DEF Leave, LeaveRow
    <3>2. /\ member' \in Rows
          /\ Gone(member[w][m], member'[w][m])
          /\ RowsKeptBut(w, {m})
      BY <3>1, LeaveRowSteps
    <3>3. \A n \in Members : n \in {m} => n = m
      OBVIOUS
    <3> QED
      BY <3>1, <3>2, <3>3, LastViewedGone
  <2>3. ASSUME NEW w \in Workspaces, NEW m \in Members, NEW n \in Members, NEW now \in Instants,
               TransferOwnership(w, m, n, now)
        PROVE  LastViewedInv'
    <3>1. TransferRows(w, m, n, now) /\ RowLeft(w, m) /\ m # n /\ member[w][n].status = "ACTIVE"
      BY <2>3 DEF TransferOwnership, TransferRows, Crew
    <3>2. /\ member' \in Rows
          /\ Gone(member[w][m], member'[w][m])
          /\ member'[w][n].status = "ACTIVE"
          /\ member'[w][n].lastViewed = member[w][n].lastViewed
          /\ RowsKeptBut(w, {m, n})
      BY <3>1, TransferRowsSteps
    <3>3. \A x \in Members : x \in {m, n} /\ x # m => x = n
      OBVIOUS
    <3> QED
      BY <3>1, <3>2, <3>3, LastViewedGone
  <2>4. ASSUME NEW v \in Viewers, MarkView(v)
        PROVE  LastViewedInv'
    BY <2>4, LastViewedMarked DEF MarkView
  <2>5. ASSUME member' = member, viewer' = viewer
        PROVE  LastViewedInv'
    BY <2>5 DEF LastViewedInv, OneLastViewed, SelectedIsActive, ViewedBy
  <2>6. ASSUME NEW v \in Viewers, NEW m \in Members, NEW w \in Workspaces, SelectView(v, m, w)
        PROVE  LastViewedInv'
    <3>1. /\ viewer' = [viewer EXCEPT ![v] = [member |-> m, target |-> w, rows |-> ViewableBy(m)]]
          /\ member' = member
      BY <2>6 DEF SelectView, SelectViewed
    <3>2. \A x \in ViewableBy(m) : member[x][m].status = "ACTIVE"
      BY DEF ViewableBy, IsActive, Crew
    <3>3. OneLastViewed'
      BY <3>1 DEF LastViewedInv, OneLastViewed, ViewedBy
    <3>4. SelectedIsActive'
      BY <3>1, <3>2 DEF TypeOK, MembershipTypeOK, LastViewedInv, SelectedIsActive
    <3> QED
      BY <3>3, <3>4 DEF LastViewedInv
  <2>7. ASSUME NEW w \in Workspaces, NEW m \in Members, Issue(w, m)
        PROVE  LastViewedInv'
    BY <2>5, <2>7 DEF Issue, IssueInvitation
  <2>8. ASSUME NEW w \in Workspaces, Expire(w)
        PROVE  LastViewedInv'
    BY <2>5, <2>8 DEF Expire, InvitationsExpire
  <2>9. CASE UNCHANGED vars
    BY <2>5, <2>9 DEF vars
  <2>10. CASE Next
    BY <2>1, <2>2, <2>3, <2>4, <2>5, <2>6, <2>7, <2>8, <2>10, MembershipTransactions
  <2> QED
    BY <2>9, <2>10
<1>3. LastViewedInv => OneLastViewed
  BY DEF LastViewedInv
<1> QED
  BY <1>1, <1>2, <1>3, TypeCorrect, PTL DEF Spec

-----------------------------------------------------------------------------
(* One recording of a member *)

\* A discard leaves no recording of the departed running there.
LEMMA NoneLeftRunning ==
    ASSUME TypeOK,
           NEW w \in Workspaces, NEW who \in SUBSET Members, NEW now \in Instants,
           DiscardRecordings(w, who, now),
           NEW m \in Members, NEW q \in RequestIds, IsRunning(session'[m][q])
    PROVE  /\ session'[m][q] = session[m][q]
           /\ session[m][q].workspace = w => m \notin who
<1>1. session[m][q] \in Session
  BY DEF TypeOK, SessionTypeOK
<1>2. CASE <<m, q>> \in RunningOf(w, who)
  <2>1. session'[m][q] = Discarded(session[m][q], now)
    BY <1>2 DEF DiscardRecordings
  <2>2. Discarded(session[m][q], now).status = "DISCARDED"
    <3>1. TimeAccepted(session[m][q], NotBeforeLastSeen(session[m][q], now))
      BY <1>2 DEF DiscardRecordings, Discardable
    <3> QED
      BY <1>1, <3>1, NotBeforeLastSeenType, StoppedType DEF Discarded
  <2> QED
    BY <2>1, <2>2 DEF IsRunning
<1>3. CASE <<m, q>> \notin RunningOf(w, who)
  <2>1. session'[m][q] = session[m][q]
    BY <1>3 DEF DiscardRecordings
  <2> QED
    BY <1>3, <2>1 DEF RunningOf
<1> QED
  BY <1>2, <1>3

\* A session that runs after a step ran before it in the same workspace, or was
\* started by it.
LEMMA RunningSteps ==
    ASSUME NEW s \in Session, NEW s2, SessionStep(s, s2), IsRunning(s2)
    PROVE  s.status = "NONE" \/ (IsRunning(s) /\ s2.workspace = s.workspace)
<1>1. CASE Pauses(s, s2)
  BY <1>1, PausedType DEF Pauses, IsRunning
<1>2. CASE Resumes(s, s2)
  BY <1>2, ResumedType DEF Resumes, IsRunning
<1>3. CASE Stops(s, s2)
  <2>1. s2.status \in {"ENDED", "DISCARDED"}
    BY <1>3, StoppedType DEF Stops
  <2> QED
    BY <2>1 DEF IsRunning
<1> QED
  BY <1>1, <1>2, <1>3 DEF SessionStep, Starts

\* Belonging to a workspace, as the crew steps leave it.
LEMMA ActiveKept ==
    ASSUME NEW x \in Workspaces, NEW k \in Members, IsActive(x, k)
    PROVE  /\ KeptAs(x) => IsActive(x, k)'
           /\ \A w \in Workspaces, m \in Members :
                 /\ Opened(w, m) => IsActive(x, k)'
                 /\ Joined(w, m) => IsActive(x, k)'
                 /\ Departed(w, m) /\ ~(x = w /\ (k = m \/ Crew(w) = {m})) => IsActive(x, k)'
           /\ \A w \in Workspaces, m, n \in Members :
                 HandedOver(w, m, n) /\ ~(x = w /\ k = m) => IsActive(x, k)'
<1>1. workspace[x].status = "OPEN" /\ k \in Crew(x)
  BY DEF IsActive, IsOpen
<1> USE DEF IsActive, IsOpen
<1>2. KeptAs(x) => IsActive(x, k)'
  BY <1>1 DEF KeptAs
<1>3. ASSUME NEW w \in Workspaces, x # w, OthersKept(w)
      PROVE  IsActive(x, k)'
  BY <1>1, <1>3 DEF OthersKept, KeptAs
<1>4. ASSUME NEW w \in Workspaces, NEW m \in Members, Opened(w, m) \/ Joined(w, m)
      PROVE  IsActive(x, k)'
  BY <1>1, <1>3, <1>4 DEF Opened, Joined
<1>5. ASSUME NEW w \in Workspaces, NEW m \in Members, Departed(w, m),
             ~(x = w /\ (k = m \/ Crew(w) = {m}))
      PROVE  IsActive(x, k)'
  BY <1>1, <1>3, <1>5 DEF Departed
<1>6. ASSUME NEW w \in Workspaces, NEW m \in Members, NEW n \in Members, HandedOver(w, m, n),
             ~(x = w /\ k = m)
      PROVE  IsActive(x, k)'
  BY <1>1, <1>3, <1>6 DEF HandedOver
<1> QED
  BY <1>2, <1>4, <1>5, <1>6

\* Steps that start no recording and leave members where they record.
LEMMA RecordingKept ==
    ASSUME OneRecordingOfAMember,
           \A m \in Members, q \in RequestIds :
              IsRunning(session'[m][q]) =>
                 /\ IsRunning(session[m][q])
                 /\ session'[m][q].workspace = session[m][q].workspace
                 /\ session[m][q].workspace \in Workspaces
                 /\ \A x \in Workspaces :
                       x = session[m][q].workspace /\ IsActive(x, m) => IsActive(x, m)'
    PROVE  OneRecordingOfAMember'
<1>1. ASSUME NEW m \in Members, NEW q \in RequestIds, NEW r \in RequestIds,
             IsRunning(session'[m][q])
      PROVE  /\ \A x \in Workspaces : x = session'[m][q].workspace => IsActive(x, m)'
             /\ IsRunning(session'[m][r]) => q = r
  BY <1>1 DEF OneRecordingOfAMember
<1>2. ASSUME NEW m \in Members, NEW q \in RequestIds, IsRunning(session'[m][q])
      PROVE  IsActive(session[m][q].workspace, m)'
  <2>1. PICK x \in Workspaces : x = session'[m][q].workspace
    BY <1>2
  <2>2. IsActive(x, m)'
    BY <1>1, <1>2, <2>1
  <2> QED
    BY <2>1, <2>2 DEF IsActive, IsOpen, Crew
<1> QED
  BY <1>1, <1>2 DEF OneRecordingOfAMember, IsRunning

\* A member never records twice at once, and never where they do not belong
\* any more, whoever leaves, hands over or closes a workspace meanwhile.
THEOREM OneRecordingOfAMemberCorrect == Spec => []OneRecordingOfAMember
<1>1. Init => OneRecordingOfAMember
  BY NoSessionType DEF Init, SessionInit, OneRecordingOfAMember, IsRunning
<1>2. TypeOK /\ OneRecordingOfAMember /\ [Next]_vars => OneRecordingOfAMember'
  <2> SUFFICES ASSUME TypeOK, OneRecordingOfAMember, Next
               PROVE  OneRecordingOfAMember'
    <3>1. ASSUME OneRecordingOfAMember, UNCHANGED vars PROVE OneRecordingOfAMember'
      BY <3>1 DEF vars, OneRecordingOfAMember, IsActive, IsOpen, Crew
    <3> QED
      BY <3>1
  <2>0. \A m \in Members, q \in RequestIds :
           session[m][q] \in Session /\ session[m][q].workspace \in Workspaces
    BY SessionFields DEF TypeOK, SessionTypeOK
  <2>1. ASSUME NEW w \in Workspaces, NEW m \in Members, NEW q \in RequestIds, NEW p \in Proofs,
               NEW now \in Instants, Start(w, m, q, p, now)
        PROVE  OneRecordingOfAMember'
    <3>1. /\ IsActive(w, m)
          /\ \A r \in RequestIds : ~IsRunning(session[m][r])
          /\ session' = [session EXCEPT ![m][q] = NewSession(w, p, now)]
          /\ workspace' = workspace /\ member' = member
      BY <2>1 DEF Start, StartSession, membershipVars
    <3>2. session'[m][q] = NewSession(w, p, now)
      BY <3>1 DEF TypeOK, SessionTypeOK
    <3>3. \A k \in Members, r \in RequestIds : k # m \/ r # q => session'[k][r] = session[k][r]
      BY <3>1 DEF TypeOK, SessionTypeOK
    <3>4. session'[m][q].workspace = w
      BY <3>2, NewSessionType
    <3>5. \A x \in Workspaces, k \in Members : IsActive(x, k)' <=> IsActive(x, k)
      BY <3>1 DEF IsActive, IsOpen, Crew
    <3>6. ASSUME NEW k \in Members, NEW r \in RequestIds, IsRunning(session'[k][r])
          PROVE  /\ IsActive(session[k][r].workspace, k)'
                 /\ \A o \in RequestIds : IsRunning(session'[k][o]) => r = o
      <4>1. CASE k = m
        <5>1. r = q
          BY <3>1, <3>3, <3>6, <4>1
        <5>2. \A o \in RequestIds : IsRunning(session'[k][o]) => o = q
          BY <3>1, <3>3, <4>1
        <5>3. IsActive(session[k][r].workspace, k)'
          BY <3>1, <3>4, <4>1, <5>1 DEF IsActive, IsOpen, Crew
        <5> QED
          BY <5>1, <5>2, <5>3
      <4>2. CASE k # m
        <5>1. \A o \in RequestIds : session'[k][o] = session[k][o]
          BY <3>3, <4>2
        <5>2. IsActive(session[k][r].workspace, k)
          BY <3>6, <5>1 DEF OneRecordingOfAMember
        <5>3. IsActive(session[k][r].workspace, k)'
          BY <3>1, <5>1, <5>2 DEF IsActive, IsOpen, Crew
        <5> QED
          BY <3>6, <5>1, <5>3 DEF OneRecordingOfAMember
      <4> QED
        BY <4>1, <4>2
    <3> QED
      BY <3>6 DEF OneRecordingOfAMember, IsRunning
  <2>2. ASSUME NEW w \in Workspaces, NEW m \in Members, NEW q \in RequestIds, NEW p \in Proofs,
               NEW now \in Instants,
               Pause(w, m, q, p, now) \/ Resume(w, m, q, p, now) \/ End(w, m, q, p, now)
        PROVE  OneRecordingOfAMember'
    <3>1. /\ workspace' = workspace /\ member' = member
          /\ session[m][q].status # "NONE"
          /\ \E s : session' = [session EXCEPT ![m][q] = s]
      BY <2>2 DEF Pause, PauseSession, Resume, ResumeSession, End, EndSession, IsRunning, membershipVars
    <3>2. \A k \in Members, r \in RequestIds : k # m \/ r # q => session'[k][r] = session[k][r]
      BY <3>1 DEF TypeOK, SessionTypeOK
    <3>3. SessionStep(session[m][q], session'[m][q])
      BY SessionSteps
    <3>4. \A x \in Workspaces, k \in Members : IsActive(x, k) => IsActive(x, k)'
      BY <3>1 DEF IsActive, IsOpen, Crew
    <3>5. IsRunning(session'[m][q]) =>
             IsRunning(session[m][q]) /\ session'[m][q].workspace = session[m][q].workspace
      BY <2>0, <3>1, <3>3, RunningSteps
    <3> QED
      BY <2>0, <3>2, <3>4, <3>5, RecordingKept
  <2>3. ASSUME NEW w \in Workspaces, NEW m \in Members, NEW now \in Instants, Leave(w, m, now)
        PROVE  OneRecordingOfAMember'
    <3> DEFINE who == IF Crew(w) = {m} THEN Members ELSE {m}
    <3>1. Departed(w, m) /\ DiscardRecordings(w, who, now) /\ who \in SUBSET Members
      BY <2>3, LeaveCrew DEF Leave
    <3>2. ASSUME NEW k \in Members, NEW q \in RequestIds, IsRunning(session'[k][q])
          PROVE  /\ session'[k][q] = session[k][q]
                 /\ session[k][q].workspace = w => ~(k = m \/ Crew(w) = {m})
      BY <3>1, <3>2, NoneLeftRunning
    <3> QED
      BY <2>0, <3>1, <3>2, ActiveKept, RecordingKept
  <2>4. ASSUME NEW w \in Workspaces, NEW m \in Members, NEW n \in Members, NEW now \in Instants,
               TransferOwnership(w, m, n, now)
        PROVE  OneRecordingOfAMember'
    <3>1. HandedOver(w, m, n) /\ DiscardRecordings(w, {m}, now) /\ {m} \in SUBSET Members
      BY <2>4, TransferCrew DEF TransferOwnership
    <3>2. ASSUME NEW k \in Members, NEW q \in RequestIds, IsRunning(session'[k][q])
          PROVE  /\ session'[k][q] = session[k][q]
                 /\ session[k][q].workspace = w => k # m
      BY <3>1, <3>2, NoneLeftRunning
    <3> QED
      BY <2>0, <3>1, <3>2, ActiveKept, RecordingKept
  <2>5. ASSUME session' = session,
               \/ \E w \in Workspaces, m \in Members : Opened(w, m) \/ Joined(w, m)
               \/ \A x \in Workspaces : KeptAs(x)
        PROVE  OneRecordingOfAMember'
    <3>1. \A x \in Workspaces, k \in Members : IsActive(x, k) => IsActive(x, k)'
      BY <2>5, ActiveKept
    <3> QED
      BY <2>0, <2>5, <3>1, RecordingKept
  <2>6. ASSUME NEW w \in Workspaces, NEW m \in Members, NEW now \in Instants,
               Create(w, m, now) \/ Accept(w, m, now)
        PROVE  OneRecordingOfAMember'
    <3>1. session' = session
      BY <2>6 DEF Create, Accept
    <3> QED
      BY <2>5, <2>6, <3>1, CreateCrew, AcceptCrew
  <2>7. ASSUME NEW v \in Viewers, MarkView(v)
        PROVE  OneRecordingOfAMember'
    <3>1. session' = session /\ workspace' = workspace /\ MarkViewed(v)
      BY <2>7 DEF MarkView, MarkViewed
    <3>2. \A x \in Workspaces : KeptAs(x)
      BY <3>1, MarkViewedSteps DEF KeptAs, Crew, Owners
    <3> QED
      BY <2>5, <3>1, <3>2
  <2>8. ASSUME session' = session, workspace' = workspace, member' = member
        PROVE  OneRecordingOfAMember'
    BY <2>5, <2>8 DEF KeptAs, Crew, Owners
  <2>9. ASSUME NEW w \in Workspaces, NEW m \in Members, Issue(w, m)
        PROVE  OneRecordingOfAMember'
    BY <2>8, <2>9 DEF Issue, IssueInvitation
  <2>10. ASSUME NEW w \in Workspaces, Expire(w)
         PROVE  OneRecordingOfAMember'
    BY <2>8, <2>10 DEF Expire, InvitationsExpire
  <2>11. ASSUME NEW v \in Viewers, NEW m \in Members, NEW w \in Workspaces, SelectView(v, m, w)
         PROVE  OneRecordingOfAMember'
    BY <2>8, <2>11 DEF SelectView, SelectViewed
  <2>12. ASSUME NEW w \in Workspaces, NEW d \in Documents, NEW now \in Instants,
                \/ CompleteGeneration(w, d, now)
                \/ \E m \in Members : Confirm(w, d, m, now)
         PROVE  OneRecordingOfAMember'
    <3>1. session' = session /\ membershipVars' = membershipVars
      BY <2>12 DEF CompleteGeneration, Confirm
    <3> QED
      BY <2>8, <3>1 DEF membershipVars
  <2> QED
    BY <2>1, <2>2, <2>3, <2>4, <2>6, <2>7, <2>9, <2>10, <2>11, <2>12 DEF Next
<1> QED
  BY <1>1, <1>2, TypeCorrect, PTL DEF Spec

\* Every workspace has one owner, every member one last workspace and one recording.
THEOREM OneOfEachCorrect == Spec => []OneOfEach
BY OneOwnerCorrect, OneLastViewedCorrect, OneRecordingOfAMemberCorrect, PTL DEF OneOfEach

-----------------------------------------------------------------------------
(* Archiving *)

\* Nobody has confirmed a document that does not exist.
Unasked == \A d \in Documents : document[d].status = "NONE" =>
              \A m \in Members : confirmedAt[d][m] = NoInstant

ArchiveInv == DraftAwaitsSomebody /\ Unasked

\* A step leaves no draft that awaits nobody, and archives none that awaits
\* somebody.
Settled(d) ==
    /\ document'[d].status = "DRAFT" => Pending(d)' # {}
    /\ document[d].status # "ARCHIVED" /\ document'[d].status = "ARCHIVED" => Pending(d)' = {}

LEMMA UnaskedSteps ==
    ASSUME TypeOK, Unasked, Next
    PROVE  Unasked'
<1>1. ASSUME NEW d \in Documents, document'[d].status = "NONE"
      PROVE  \A m \in Members : confirmedAt'[d][m] = NoInstant
  <2>1. document[d].status = "NONE"
    <3>1. DocumentStep(document[d], document'[d])
      BY DocumentSteps
    <3>2. document[d] \in Document
      BY DEF TypeOK, DocumentTypeOK
    <3>3. ~\E w \in Workspaces, now \in Instants : Published(document'[d], w, now)
      <4>1. SUFFICES ASSUME NEW w \in Workspaces, NEW now \in Instants,
                            document'[d] = [status |-> "DRAFT", workspace |-> w,
                                            createdAt |-> now, archivedAt |-> NoInstant]
                     PROVE  FALSE
        BY DEF Published
      <4>2. document'[d].status = "DRAFT"
        BY <4>1
      <4> QED
        BY <1>1, <4>2
    <3>4. ~Archives(document[d], document'[d])
      <4>1. SUFFICES ASSUME NEW now \in Instants,
                            document'[d] = [document[d] EXCEPT !.status = "ARCHIVED", !.archivedAt = now]
                     PROVE  FALSE
        BY DEF Archives
      <4>2. document'[d].status = "ARCHIVED"
        BY <3>2, <4>1 DEF Document
      <4> QED
        BY <1>1, <4>2
    <3> QED
      BY <1>1, <3>1, <3>3, <3>4 DEF DocumentStep
  <2>2. \A m \in Members : confirmedAt[d][m] = NoInstant
    BY <2>1 DEF Unasked
  <2>3. confirmedAt'[d] = confirmedAt[d]
    <3>1. ASSUME NEW w \in Workspaces, NEW e \in Documents, NEW m \in Members, NEW now \in Instants,
                 Confirm(w, e, m, now)
          PROVE  confirmedAt'[d] = confirmedAt[d]
      <4>1. document[e].status # "NONE"
            /\ confirmedAt' = [confirmedAt EXCEPT ![e][m] = IF @ = NoInstant THEN now ELSE @]
        BY <3>1 DEF Confirm, ConfirmDocument
      <4> QED
        BY <2>1, <4>1 DEF TypeOK, DocumentTypeOK
    <3>2. ASSUME confirmedAt' = confirmedAt
          PROVE  confirmedAt'[d] = confirmedAt[d]
      BY <3>2
    <3>3. /\ \A w \in Workspaces, m \in Members, now \in Instants :
                Leave(w, m, now) => confirmedAt' = confirmedAt
          /\ \A w \in Workspaces, m, n \in Members, now \in Instants :
                TransferOwnership(w, m, n, now) => confirmedAt' = confirmedAt
          /\ \A w \in Workspaces, e \in Documents, now \in Instants :
                CompleteGeneration(w, e, now) => confirmedAt' = confirmedAt
      BY DEF Leave, TransferOwnership, ArchiveAfterDeparture, CompleteGeneration, CreateDraft
    <3> QED
      BY <3>1, <3>2, <3>3, DocumentTransactions
  <2> QED
    BY <2>2, <2>3
<1> QED
  BY <1>1 DEF Unasked

\* A document that is left alone goes on waiting if nobody it waits for leaves.
LEMMA StillAwaited ==
    ASSUME TypeOK, DraftAwaitsSomebody, NEW d \in Documents,
           document'[d] = document[d], target' = target, confirmedAt' = confirmedAt,
           \A x \in Workspaces : x = document[d].workspace =>
              (Pending(d) # {} => Open(d) \cap Crew(x)' # {})
    PROVE  Settled(d)
<1>1. PICK x \in Workspaces : x = document[d].workspace
  BY DEF TypeOK, DocumentTypeOK, Document
<1>2. Open(d)' = Open(d)
  BY DEF Open
<1>3. Pending(d)' = Open(d)' \cap Crew(x)'
  BY <1>1 DEF Pending, Crew
<1> QED
  BY <1>1, <1>2, <1>3 DEF Settled, DraftAwaitsSomebody

LEMMA DepartureSettles ==
    ASSUME TypeOK, DraftAwaitsSomebody,
           NEW w \in Workspaces, NEW m \in Members, NEW now \in Instants,
           Crew(w)' = Crew(w) \ {m}, OthersKept(w),
           ArchiveAfterDeparture(w, m, now),
           NEW d \in Documents
    PROVE  Settled(d)
<1> DEFINE gone == {e \in AffectedDrafts(w, m) : NobodyElsePending(e, m)}
<1>1. /\ ArchiveAll(gone, now) /\ gone \in SUBSET Documents
      /\ target' = target /\ confirmedAt' = confirmedAt
  BY DEF ArchiveAfterDeparture, AffectedDrafts
<1>2. Open(d)' = Open(d)
  BY <1>1 DEF Open
<1>3. PICK x \in Workspaces : x = document[d].workspace
  BY DEF TypeOK, DocumentTypeOK, Document
<1>4. CASE d \in gone
  <2>1. document[d].status = "DRAFT" /\ x = w /\ Pending(d) \subseteq {m}
    BY <1>3, <1>4 DEF AffectedDrafts, NobodyElsePending
  <2>2. document'[d].status = "ARCHIVED" /\ document'[d].workspace = x
    BY <1>1, <1>3, <1>4, <2>1, ArchiveAllSteps
  <2>3. Pending(d)' = Open(d)' \cap Crew(x)'
    BY <2>2 DEF Pending, Crew
  <2>4. Pending(d)' = {}
    BY <1>2, <1>3, <2>1, <2>3 DEF Pending
  <2> QED
    BY <2>2, <2>4 DEF Settled
<1>5. CASE d \notin gone
  <2>1. document'[d] = document[d]
    BY <1>1, <1>5, ArchiveAllSteps
  <2>2. CASE x # w
    <3>1. Crew(x)' = Crew(x)
      BY <2>2 DEF OthersKept, KeptAs
    <3> QED
      BY <1>1, <1>3, <2>1, <3>1, StillAwaited DEF Pending
  <2>3. CASE x = w /\ m \notin Open(d)
    <3>1. Open(d) \cap Crew(x)' = Pending(d)
      BY <1>3, <2>3 DEF Pending
    <3> QED
      BY <1>1, <1>3, <2>1, <3>1, StillAwaited
  <2>4. CASE x = w /\ m \in Open(d) /\ document[d].status = "DRAFT"
    <3>1. d \in AffectedDrafts(w, m)
      BY <1>3, <2>4 DEF AffectedDrafts
    <3>2. ~(Pending(d) \subseteq {m})
      BY <1>5, <3>1 DEF NobodyElsePending
    <3>3. Open(d) \cap Crew(x)' # {}
      BY <1>3, <2>4, <3>2 DEF Pending
    <3> QED
      BY <1>1, <1>3, <2>1, <3>3, StillAwaited
  <2>5. CASE document[d].status # "DRAFT"
    BY <2>1, <2>5 DEF Settled
  <2> QED
    BY <2>2, <2>3, <2>4, <2>5
<1> QED
  BY <1>4, <1>5

LEMMA ConfirmSettles ==
    ASSUME TypeOK, DraftAwaitsSomebody,
           NEW w \in Workspaces, NEW e \in Documents, NEW m \in Members, NEW now \in Instants,
           Confirm(w, e, m, now),
           NEW d \in Documents
    PROVE  Settled(d)
<1> DEFINE docs == IF NobodyElsePending(e, m) THEN {e} ELSE {}
<1>1. /\ document[e].workspace = w
      /\ m \in target[e]
      /\ confirmedAt' = [confirmedAt EXCEPT ![e][m] = IF @ = NoInstant THEN now ELSE @]
      /\ ArchiveAll(docs, now) /\ docs \in SUBSET Documents
      /\ target' = target
      /\ membershipVars' = membershipVars
  BY DEF Confirm, ConfirmDocument
<1>2. member' = member
  BY <1>1 DEF membershipVars
<1>3. NoInstant \notin Instants
  BY InstantsAreNumbers
<1>4. Open(e)' = Open(e) \ {m}
  <2>1. confirmedAt'[e][m] # NoInstant
    BY <1>1, <1>3 DEF TypeOK, DocumentTypeOK
  <2>2. \A n \in Members : n # m => confirmedAt'[e][n] = confirmedAt[e][n]
    BY <1>1 DEF TypeOK, DocumentTypeOK
  <2>3. target[e] \subseteq Members
    BY DEF TypeOK, DocumentTypeOK
  <2> QED
    BY <1>1, <2>1, <2>2, <2>3 DEF Open
<1>5. CASE d # e
  <2>1. document'[d] = document[d] /\ confirmedAt'[d] = confirmedAt[d]
    BY <1>1, <1>5, ArchiveAllSteps DEF TypeOK, DocumentTypeOK
  <2>2. Pending(d)' = Pending(d)
    BY <1>1, <1>2, <2>1 DEF Pending, Open, Crew
  <2> QED
    BY <2>1, <2>2 DEF Settled, DraftAwaitsSomebody
<1>6. CASE d = e
  <2>1. document'[e].workspace = w
    <3>1. CASE e \in docs /\ document[e].status = "DRAFT"
      BY <1>1, <3>1, ArchiveAllSteps
    <3>2. CASE ~(e \in docs /\ document[e].status = "DRAFT")
      BY <1>1, <3>2, ArchiveAllSteps
    <3> QED
      BY <3>1, <3>2
  <2>2. Pending(e)' = Pending(e) \ {m}
    <3>1. Pending(e)' = Open(e)' \cap Crew(w)'
      BY <2>1 DEF Pending, Crew
    <3>2. Crew(w)' = Crew(w)
      BY <1>2 DEF Crew
    <3> QED
      BY <1>1, <1>4, <3>1, <3>2 DEF Pending
  <2>3. CASE e \in docs
    <3>1. Pending(e)' = {}
      BY <2>2, <2>3 DEF NobodyElsePending
    <3>2. document'[e].status # "DRAFT"
      BY <1>1, <2>3, ArchiveAllSteps
    <3> QED
      BY <1>6, <3>1, <3>2 DEF Settled
  <2>4. CASE e \notin docs
    <3>1. document'[e] = document[e]
      BY <1>1, <2>4, ArchiveAllSteps
    <3>2. Pending(e)' # {}
      BY <2>2, <2>4 DEF NobodyElsePending
    <3> QED
      BY <1>6, <3>1, <3>2 DEF Settled
  <2> QED
    BY <2>3, <2>4
<1> QED
  BY <1>5, <1>6

LEMMA PublicationSettles ==
    ASSUME TypeOK, ArchiveInv,
           NEW w \in Workspaces, NEW e \in Documents, NEW now \in Instants,
           CompleteGeneration(w, e, now),
           NEW d \in Documents
    PROVE  Settled(d)
<1> DEFINE x == [status |-> "DRAFT", workspace |-> w, createdAt |-> now, archivedAt |-> NoInstant]
<1>1. /\ document[e].status = "NONE"
      /\ Crew(w) # {}
      /\ document' = [document EXCEPT ![e] = x]
      /\ target' = [target EXCEPT ![e] = Crew(w)]
      /\ confirmedAt' = confirmedAt
      /\ membershipVars' = membershipVars
  BY DEF CompleteGeneration, CreateDraft
<1>2. member' = member
  BY <1>1 DEF membershipVars
<1>3. CASE d # e
  <2>1. document'[d] = document[d] /\ target'[d] = target[d]
    BY <1>1, <1>3 DEF TypeOK, DocumentTypeOK
  <2>2. Pending(d)' = Pending(d)
    BY <1>1, <1>2, <2>1 DEF Pending, Open, Crew
  <2> QED
    BY <2>1, <2>2 DEF Settled, ArchiveInv, DraftAwaitsSomebody
<1>4. CASE d = e
  <2>1. document'[e] = x /\ target'[e] = Crew(w)
    BY <1>1 DEF TypeOK, DocumentTypeOK
  <2>2. document'[e].status = "DRAFT" /\ document'[e].workspace = w
    BY <2>1
  <2>3. \A m \in Members : confirmedAt'[e][m] = NoInstant
    BY <1>1 DEF ArchiveInv, Unasked
  <2>4. Open(e)' = Crew(w)
    BY <2>1, <2>3 DEF Open, Crew
  <2>5. Pending(e)' = Open(e)' \cap Crew(w)'
    BY <2>2 DEF Pending, Crew
  <2>6. Crew(w)' = Crew(w)
    BY <1>2 DEF Crew
  <2> QED
    BY <1>1, <1>4, <2>2, <2>4, <2>5, <2>6 DEF Settled
<1> QED
  BY <1>3, <1>4

LEMMA EveryStepSettles ==
    ASSUME TypeOK, ArchiveInv, Next, NEW d \in Documents
    PROVE  Settled(d)
<1>1. ASSUME NEW w \in Workspaces, NEW m \in Members, NEW now \in Instants, Leave(w, m, now)
      PROVE  Settled(d)
  <2>1. Departed(w, m) /\ ArchiveAfterDeparture(w, m, now)
    BY <1>1, LeaveCrew DEF Leave
  <2> QED
    BY <2>1, DepartureSettles DEF Departed, ArchiveInv
<1>2. ASSUME NEW w \in Workspaces, NEW m \in Members, NEW n \in Members, NEW now \in Instants,
             TransferOwnership(w, m, n, now)
      PROVE  Settled(d)
  <2>1. HandedOver(w, m, n) /\ ArchiveAfterDeparture(w, m, now)
    BY <1>2, TransferCrew DEF TransferOwnership
  <2> QED
    BY <2>1, DepartureSettles DEF HandedOver, ArchiveInv
<1>3. ASSUME NEW w \in Workspaces, NEW e \in Documents, NEW now \in Instants,
             CompleteGeneration(w, e, now)
      PROVE  Settled(d)
  BY <1>3, PublicationSettles
<1>4. ASSUME NEW w \in Workspaces, NEW e \in Documents, NEW m \in Members, NEW now \in Instants,
             Confirm(w, e, m, now)
      PROVE  Settled(d)
  BY <1>4, ConfirmSettles DEF ArchiveInv
<1>5. ASSUME document' = document, target' = target, confirmedAt' = confirmedAt,
             \A x \in Workspaces : Crew(x) \subseteq Crew(x)'
      PROVE  Settled(d)
  <2>1. \A x \in Workspaces : x = document[d].workspace =>
           (Pending(d) # {} => Open(d) \cap Crew(x)' # {})
    BY <1>5 DEF Pending
  <2> QED
    BY <1>5, <2>1, StillAwaited DEF ArchiveInv
<1>6. CASE document' = document /\ target' = target /\ confirmedAt' = confirmedAt
  <2>1. ASSUME NEW w \in Workspaces, NEW m \in Members, Opened(w, m) \/ Joined(w, m)
        PROVE  \A x \in Workspaces : Crew(x) \subseteq Crew(x)'
    BY <2>1 DEF Opened, Joined, OthersKept, KeptAs
  <2>2. ASSUME \A x \in Workspaces : KeptAs(x)
        PROVE  \A x \in Workspaces : Crew(x) \subseteq Crew(x)'
    BY <2>2 DEF KeptAs
  <2>3. ASSUME NEW w \in Workspaces, NEW m \in Members, NEW now \in Instants,
               Create(w, m, now) \/ Accept(w, m, now)
        PROVE  \A x \in Workspaces : Crew(x) \subseteq Crew(x)'
    BY <2>1, <2>3, CreateCrew, AcceptCrew
  <2>4. ASSUME NEW v \in Viewers, MarkView(v)
        PROVE  \A x \in Workspaces : Crew(x) \subseteq Crew(x)'
    <3>1. MarkViewed(v)
      BY <2>4 DEF MarkView
    <3> QED
      BY <3>1, MarkViewedSteps DEF Crew
  <2>5. ASSUME member' = member
        PROVE  \A x \in Workspaces : Crew(x) \subseteq Crew(x)'
    BY <2>5 DEF Crew
  <2>6. /\ \A w \in Workspaces, m \in Members : Issue(w, m) => member' = member
        /\ \A w \in Workspaces : Expire(w) => member' = member
        /\ \A v \in Viewers, m \in Members, w \in Workspaces : SelectView(v, m, w) => member' = member
    BY DEF Issue, IssueInvitation, Expire, InvitationsExpire, SelectView, SelectViewed
  <2>7. \/ \E w \in Workspaces, m \in Members, now \in Instants : Leave(w, m, now)
        \/ \E w \in Workspaces, m, n \in Members, now \in Instants : TransferOwnership(w, m, n, now)
        \/ \A x \in Workspaces : Crew(x) \subseteq Crew(x)'
    BY <2>3, <2>4, <2>5, <2>6, MembershipTransactions
  <2> QED
    BY <1>1, <1>2, <1>5, <1>6, <2>7
<1> QED
  BY <1>1, <1>2, <1>3, <1>4, <1>6, DocumentTransactions

LEMMA ArchiveInvInductive ==
    /\ Init => ArchiveInv
    /\ TypeOK /\ ArchiveInv /\ [Next]_vars => ArchiveInv'
<1>1. Init => ArchiveInv
  <2>1. NoDocument.status = "NONE"
    BY DEF NoDocument
  <2> QED
    BY <2>1 DEF Init, DocumentInit, ArchiveInv, DraftAwaitsSomebody, Unasked
<1>2. ASSUME TypeOK, ArchiveInv, Next PROVE ArchiveInv'
  <2>1. \A d \in Documents : Settled(d)
    BY <1>2, EveryStepSettles
  <2> QED
    BY <1>2, <2>1, UnaskedSteps DEF ArchiveInv, DraftAwaitsSomebody, Settled
<1>3. ASSUME ArchiveInv, UNCHANGED vars PROVE ArchiveInv'
  BY <1>3 DEF vars, ArchiveInv, DraftAwaitsSomebody, Unasked, Pending, Open, Crew
<1> QED
  BY <1>1, <1>2, <1>3

\* However confirmations, departures and returns are interleaved, no draft is
\* left that waits for nobody who is there.
THEOREM DraftAwaitsSomebodyCorrect == Spec => []DraftAwaitsSomebody
<1>1. ArchiveInv => DraftAwaitsSomebody
  BY DEF ArchiveInv
<1> QED
  BY <1>1, ArchiveInvInductive, TypeCorrect, PTL DEF Spec

-----------------------------------------------------------------------------
(* What a workspace promises: every transaction is a promised act, settled at
   once, or leaves all that was promised alone *)

\* The documents of w, and who has confirmed d, as WorkspaceService maps them.
PublishedIn(w) == {d \in Documents : document[d].status # "NONE" /\ document[d].workspace = w}
Answered(d) == {m \in Members : confirmedAt[d][m] # NoInstant}

PublishedKept == \A w \in Workspaces : PublishedIn(w)' = PublishedIn(w)
AnsweredKept == confirmedAt' = confirmedAt

PromiseInv == TypeOK /\ OneOwner /\ ArchiveInv

LEMMA OpenIsUnanswered ==
    ASSUME TypeOK
    PROVE  \A d \in Documents : Open(d) = target[d] \ Answered(d)
BY DEF Open, Answered, TypeOK, DocumentTypeOK

-----------------------------------------------------------------------------
(* What is promised: Documents *)

LEMMA ArchivingPublishesNothing ==
    ASSUME TypeOK, NEW docs \in SUBSET Documents, NEW now \in Instants, ArchiveAll(docs, now)
    PROVE  PublishedKept
<1>1. ASSUME NEW d \in Documents
      PROVE  /\ document'[d].workspace = document[d].workspace
             /\ document'[d].status # "NONE" <=> document[d].status # "NONE"
  <2>1. CASE d \in docs /\ document[d].status = "DRAFT"
    BY <2>1, ArchiveAllSteps
  <2>2. CASE ~(d \in docs /\ document[d].status = "DRAFT")
    <3>1. document'[d] = document[d]
      BY <2>2, ArchiveAllSteps
    <3> QED
      BY <3>1
  <2> QED
    BY <2>1, <2>2
<1> QED
  BY <1>1 DEF PublishedKept, PublishedIn

\* A step archives what it leaves with nobody to wait for, and no more.
LEMMA StepsSettle ==
    ASSUME PromiseInv, TypeOK', Next
    PROVE  Promise!Settle
<1>1. ASSUME NEW d \in Documents
      PROVE  document'[d].status = "ARCHIVED" <=>
                \/ document[d].status = "ARCHIVED"
                \/ \E w \in Workspaces :
                      /\ document'[d].status # "NONE" /\ document'[d].workspace = w
                      /\ (target'[d] \ Answered(d)') \cap Crew(w)' = {}
  <2>1. Settled(d) /\ DocumentStep(document[d], document'[d])
    BY EveryStepSettles, DocumentSteps DEF PromiseInv
  <2>2. document'[d] \in Document
    BY DEF TypeOK, DocumentTypeOK
  <2>3. PICK x \in Workspaces : document'[d].workspace = x
    BY <2>2 DEF Document
  <2>4. Open(d)' = target'[d] \ Answered(d)'
    BY DEF Open, Answered, TypeOK, DocumentTypeOK
  <2>5. Pending(d)' = (target'[d] \ Answered(d)') \cap Crew(x)'
    BY <2>3, <2>4 DEF Pending, Crew
  <2>6. document[d].status = "ARCHIVED" => document'[d].status = "ARCHIVED"
    BY <2>1 DEF DocumentStep, Archives
  <2>7. document'[d].status \in {"NONE", "DRAFT", "ARCHIVED"}
    BY <2>2 DEF Document
  <2> QED
    BY <2>1, <2>3, <2>5, <2>6, <2>7 DEF Settled
<1> QED
  BY <1>1 DEF Promise!Settle, Promise!Awaited, Answered
-----------------------------------------------------------------------------
(* What is promised: Acts *)

\* The variables of the promise that membership and documents leave alone.
DocumentsKept == PublishedKept /\ target' = target /\ AnsweredKept

LEMMA OpenedIsOpen ==
    ASSUME OneOwner, NEW w \in Workspaces, NEW m \in Members, Opened(w, m), DocumentsKept
    PROVE  Promise!Open(w, m)
<1>1. Crew(w) = {} /\ Owners(w) = {}
  BY OwnersAreCrew DEF OneOwner, IsOpen, Opened
<1>2. Crew(w)' = {m} /\ Owners(w)' = {m}
  BY <1>1 DEF Opened
<1> QED
  BY <1>2 DEF Promise!Open, Opened, OthersKept, KeptAs, DocumentsKept, PublishedKept,
              AnsweredKept, PublishedIn

LEMMA JoinedIsJoin ==
    ASSUME NEW w \in Workspaces, NEW m \in Members, Joined(w, m), DocumentsKept
    PROVE  Promise!Join(w, m)
BY DEF Promise!Join, Joined, OthersKept, KeptAs, DocumentsKept, PublishedKept, AnsweredKept, PublishedIn

\* The last one closes the workspace.
LEMMA DepartedIsDepartOrClose ==
    ASSUME OneOwner, NEW w \in Workspaces, NEW m \in Members, Departed(w, m), DocumentsKept
    PROVE  Promise!Depart(w, m) \/ Promise!Close(w, m)
<1> USE DEF Departed, OthersKept, KeptAs, DocumentsKept, PublishedKept, AnsweredKept, PublishedIn
<1>1. CASE Crew(w) = {m}
  <2>1. Owners(w) = {m}
    BY <1>1 DEF OneOwner, IsOpen
  <2>2. Crew(w)' = {} /\ Owners(w)' = {}
    BY <1>1, <2>1
  <2>3. Promise!Close(w, m)
    BY <1>1, <2>1, <2>2 DEF Promise!Close
  <2> QED
    BY <2>3
<1>2. CASE Crew(w) # {m}
  <2>1. m \in Crew(w) \ Owners(w) /\ Owners(w)' = Owners(w)
    BY <1>2
  <2>2. \A x \in Workspaces : workspace'[x].status = workspace[x].status /\ Owners(x)' = Owners(x)
    BY <1>2, <2>1
  <2>3. Promise!Depart(w, m)
    BY <2>1, <2>2 DEF Promise!Depart
  <2> QED
    BY <2>3
<1> QED
  BY <1>1, <1>2

LEMMA HandedOverIsHandOver ==
    ASSUME OneOwner, NEW w \in Workspaces, NEW m \in Members, NEW n \in Members,
           HandedOver(w, m, n), DocumentsKept
    PROVE  Promise!HandOver(w, m, n)
<1> USE DEF HandedOver, OthersKept, KeptAs
<1>1. Owners(w) = {m}
  BY DEF OneOwner, IsOpen
<1>2. Owners(w)' = {n}
  BY <1>1
<1>3. \A x \in Workspaces : workspace'[x].status = workspace[x].status
  OBVIOUS
<1> QED
  BY <1>1, <1>2, <1>3 DEF Promise!HandOver, DocumentsKept, PublishedKept, AnsweredKept, PublishedIn
LEMMA GenerationIsPublish ==
    ASSUME TypeOK, NEW w \in Workspaces, NEW e \in Documents, NEW now \in Instants,
           CompleteGeneration(w, e, now)
    PROVE  Promise!Publish(w, e)
<1> DEFINE x == [status |-> "DRAFT", workspace |-> w, createdAt |-> now, archivedAt |-> NoInstant]
<1>1. /\ workspace[w].status = "OPEN"
      /\ document[e].status = "NONE"
      /\ document' = [document EXCEPT ![e] = x]
      /\ target' = [target EXCEPT ![e] = Crew(w)]
      /\ confirmedAt' = confirmedAt
      /\ membershipVars' = membershipVars
  BY DEF CompleteGeneration, CreateDraft, IsOpen
<1>2. workspace' = workspace /\ member' = member
  BY <1>1 DEF membershipVars
<1>3. \A y \in Workspaces : e \notin PublishedIn(y)
  BY <1>1 DEF PublishedIn
<1>4. ASSUME NEW y \in Workspaces
      PROVE  PublishedIn(y)' = IF y = w THEN PublishedIn(y) \cup {e} ELSE PublishedIn(y)
  <2>1. document'[e].status = "DRAFT" /\ document'[e].workspace = w
    BY <1>1 DEF TypeOK, DocumentTypeOK
  <2>2. \A d \in Documents : d # e => document'[d] = document[d]
    BY <1>1 DEF TypeOK, DocumentTypeOK
  <2> QED
    BY <1>1, <2>1, <2>2 DEF PublishedIn
<1>5. \A y \in Workspaces : Crew(y)' = Crew(y) /\ Owners(y)' = Owners(y)
  BY <1>2 DEF Crew, Owners
<1> HIDE DEF x
<1>6. [y \in Workspaces |-> PublishedIn(y)]'
         = [[y \in Workspaces |-> PublishedIn(y)] EXCEPT ![w] = @ \cup {e}]
  BY <1>4
<1>7. target' = [target EXCEPT ![e] = [y \in Workspaces |-> Crew(y)][w]]
  BY <1>1
<1>8. \A y \in Workspaces : e \notin [z \in Workspaces |-> PublishedIn(z)][y]
  BY <1>3
<1>9. UNCHANGED << [y \in Workspaces |-> workspace[y].status], [y \in Workspaces |-> Crew(y)],
                   [y \in Workspaces |-> Owners(y)],
                   [d \in Documents |-> {m \in Members : confirmedAt[d][m] # NoInstant}] >>
  BY <1>1, <1>2, <1>5
<1> QED
  BY <1>1, <1>6, <1>7, <1>8, <1>9 DEF Promise!Publish, PublishedIn

\* The first confirmation of an awaited member answers; one given again, or
\* before the member left and came back, changes nothing: a draft would have
\* had nobody to wait for.
LEMMA ConfirmIsAnswer ==
    ASSUME PromiseInv,
           NEW w \in Workspaces, NEW e \in Documents, NEW m \in Members, NEW now \in Instants,
           Confirm(w, e, m, now)
    PROVE  Promise!Answer(w, e, m) \/ UNCHANGED <<workspace, member, document, target, confirmedAt>>
<1> DEFINE docs == IF NobodyElsePending(e, m) THEN {e} ELSE {}
<1>1. /\ m \in Crew(w) /\ m \in target[e]
      /\ document[e].status # "NONE" /\ document[e].workspace = w
      /\ confirmedAt' = [confirmedAt EXCEPT ![e][m] = IF @ = NoInstant THEN now ELSE @]
      /\ ArchiveAll(docs, now) /\ docs \in SUBSET Documents
      /\ target' = target
      /\ membershipVars' = membershipVars
  BY DEF Confirm, ConfirmDocument, IsActive
<1>2. workspace' = workspace /\ member' = member
  BY <1>1 DEF membershipVars
<1>3. TypeOK
  BY DEF PromiseInv
<1>4. CASE confirmedAt[e][m] = NoInstant
  <2>1. PublishedKept
    BY <1>1, <1>3, ArchivingPublishesNothing
  <2>2. \A d \in Documents : Answered(d)' = IF d = e THEN Answered(d) \cup {m} ELSE Answered(d)
    <3>1. now # NoInstant
      BY InstantsAreNumbers
    <3> QED
      BY <1>1, <1>3, <1>4, <3>1 DEF Answered, TypeOK, DocumentTypeOK
  <2>3. \A y \in Workspaces : Crew(y)' = Crew(y) /\ Owners(y)' = Owners(y)
    BY <1>2 DEF Crew, Owners
  <2>4. m \notin Answered(e)
    BY <1>4 DEF Answered
  <2>5. [d \in Documents |-> Answered(d)]'
           = [[d \in Documents |-> Answered(d)] EXCEPT ![e] = @ \cup {m}]
    BY <2>2
  <2>6. m \in Promise!Awaited(w, e)
    BY <1>1, <2>4 DEF Promise!Awaited, Answered
  <2>7. e \in [y \in Workspaces |-> PublishedIn(y)][w]
    BY <1>1 DEF PublishedIn
  <2>8. UNCHANGED << [y \in Workspaces |-> workspace[y].status], [y \in Workspaces |-> Crew(y)],
                     [y \in Workspaces |-> Owners(y)], [y \in Workspaces |-> PublishedIn(y)],
                     target >>
    BY <1>1, <1>2, <2>1, <2>3 DEF PublishedKept
  <2>9. Promise!Answer(w, e, m)
    BY <2>5, <2>6, <2>7, <2>8 DEF Promise!Answer, PublishedIn, Answered
  <2> QED
    BY <2>9
<1>5. CASE confirmedAt[e][m] # NoInstant
  <2>1. confirmedAt' = confirmedAt
    BY <1>1, <1>3, <1>5 DEF TypeOK, DocumentTypeOK
  <2>2. m \notin Pending(e)
    BY <1>5 DEF Pending, Open
  <2>3. document[e].status = "DRAFT" => e \notin docs
    BY <2>2 DEF NobodyElsePending, PromiseInv, ArchiveInv, DraftAwaitsSomebody
  <2>4. \A d \in Documents : document'[d] = document[d]
    BY <1>1, <1>3, <2>3, ArchiveAllSteps
  <2>5. document' = document
    <3>1. document' \in [Documents -> Document] /\ document \in [Documents -> Document]
      BY <1>1, <1>3, ArchiveAllSteps DEF TypeOK, DocumentTypeOK
    <3> QED
      BY <2>4, <3>1
  <2> QED
    BY <1>1, <1>2, <2>1, <2>5
<1> QED
  BY <1>4, <1>5

-----------------------------------------------------------------------------
(* What is promised: The refinement *)

LEMMA StutterSteps ==
    ASSUME \A x \in Workspaces : KeptAs(x), UNCHANGED <<document, target, confirmedAt>>
    PROVE  UNCHANGED Promise!promiseVars
BY DEF KeptAs, Promise!promiseVars

LEMMA PromiseInit ==
    ASSUME Init
    PROVE  Promise!Init
<1>1. NoDocument.status = "NONE"
  BY DEF NoDocument
<1>2. /\ \A d \in Documents : document[d].status = "NONE"
      /\ \A d \in Documents : {m \in Members : confirmedAt[d][m] # NoInstant} = {}
      /\ target = [d \in Documents |-> {}]
  BY <1>1 DEF Init, DocumentInit
<1> QED
  BY <1>2, InitiallyEmpty DEF Promise!Init

LEMMA PromiseStep ==
    ASSUME PromiseInv, TypeOK', Next
    PROVE  (Promise!Act /\ Promise!Settle) \/ UNCHANGED Promise!promiseVars
<1> DEFINE Goal == Promise!Act \/ UNCHANGED Promise!promiseVars
<1> USE DEF PromiseInv
<1>1. ASSUME NEW w \in Workspaces, NEW m \in Members, NEW now \in Instants, Leave(w, m, now)
      PROVE  Goal
  <2>1. Departed(w, m) /\ ArchiveAfterDeparture(w, m, now)
    BY <1>1, LeaveCrew DEF Leave
  <2>2. DocumentsKept
    BY <2>1, ArchivingPublishesNothing
       DEF DocumentsKept, AnsweredKept, ArchiveAfterDeparture, AffectedDrafts
  <2> QED
    BY <2>1, <2>2, DepartedIsDepartOrClose DEF Promise!Act
<1>2. ASSUME NEW w \in Workspaces, NEW m \in Members, NEW n \in Members, NEW now \in Instants,
             TransferOwnership(w, m, n, now)
      PROVE  Goal
  <2>1. HandedOver(w, m, n) /\ ArchiveAfterDeparture(w, m, now)
    BY <1>2, TransferCrew DEF TransferOwnership
  <2>2. DocumentsKept
    BY <2>1, ArchivingPublishesNothing
       DEF DocumentsKept, AnsweredKept, ArchiveAfterDeparture, AffectedDrafts
  <2> QED
    BY <2>1, <2>2, HandedOverIsHandOver DEF Promise!Act
<1>3. ASSUME NEW w \in Workspaces, NEW e \in Documents, NEW now \in Instants,
             CompleteGeneration(w, e, now)
      PROVE  Goal
  BY <1>3, GenerationIsPublish DEF Promise!Act
<1>4. ASSUME NEW w \in Workspaces, NEW e \in Documents, NEW m \in Members, NEW now \in Instants,
             Confirm(w, e, m, now)
      PROVE  Goal
  <2>1. CASE Promise!Answer(w, e, m)
    BY <2>1 DEF Promise!Act
  <2>2. CASE UNCHANGED <<workspace, member, document, target, confirmedAt>>
    BY <2>2, StutterSteps DEF KeptAs, Crew, Owners
  <2> QED
    BY <1>4, <2>1, <2>2, ConfirmIsAnswer
<1>5. ASSUME document' = document, target' = target, confirmedAt' = confirmedAt,
             \/ \E w \in Workspaces, m \in Members : Opened(w, m) \/ Joined(w, m) \/ Departed(w, m)
             \/ \E w \in Workspaces, m, n \in Members : HandedOver(w, m, n)
             \/ \A x \in Workspaces : KeptAs(x)
      PROVE  Goal
  <2>1. DocumentsKept
    BY <1>5 DEF DocumentsKept, PublishedKept, PublishedIn, AnsweredKept
  <2>2. ASSUME NEW w \in Workspaces, NEW m \in Members, Opened(w, m) PROVE Goal
    BY <2>1, <2>2, OpenedIsOpen DEF Promise!Act
  <2>3. ASSUME NEW w \in Workspaces, NEW m \in Members, Joined(w, m) PROVE Goal
    BY <2>1, <2>3, JoinedIsJoin DEF Promise!Act
  <2>4. ASSUME NEW w \in Workspaces, NEW m \in Members, Departed(w, m) PROVE Goal
    BY <2>1, <2>4, DepartedIsDepartOrClose DEF Promise!Act
  <2>5. ASSUME NEW w \in Workspaces, NEW m \in Members, NEW n \in Members, HandedOver(w, m, n)
        PROVE Goal
    BY <2>1, <2>5, HandedOverIsHandOver DEF Promise!Act
  <2>6. ASSUME \A x \in Workspaces : KeptAs(x) PROVE Goal
    BY <1>5, <2>6, StutterSteps
  <2> HIDE DEF Goal
  <2> QED
    BY <1>5, <2>2, <2>3, <2>4, <2>5, <2>6
<1>6. Goal
  <2> HIDE DEF Goal
  <2> QED
    BY <1>1, <1>2, <1>3, <1>4, <1>5, CrewSteps, DocumentTransactions
<1> QED
  BY <1>6, StepsSettle

\* Every transaction of the workspace is an act of the promise with all that it
\* settles, for any number of workspaces, members, documents and instants:
\* looking for documents to archive only where a target confirms or departs
\* misses none.
THEOREM ImplementsPromiseCorrect == Spec => ImplementsPromise
<1>1. Init => Promise!Init
  BY PromiseInit
<1>2. PromiseInv /\ TypeOK' /\ [Next]_vars =>
         [Promise!Act /\ Promise!Settle]_Promise!promiseVars
  <2>1. ASSUME PromiseInv, TypeOK', Next
        PROVE  [Promise!Act /\ Promise!Settle]_Promise!promiseVars
    BY <2>1, PromiseStep
  <2>2. ASSUME UNCHANGED vars
        PROVE  UNCHANGED Promise!promiseVars
    BY <2>2, StutterSteps DEF vars, KeptAs, Crew, Owners
  <2> QED
    BY <2>1, <2>2
<1>3. TypeOK /\ OneOwner /\ ArchiveInv => PromiseInv
  BY DEF PromiseInv
<1> QED
  BY <1>1, <1>2, <1>3, TypeCorrect, OneOwnerCorrect, ArchiveInvInductive, PTL
     DEF Spec, ImplementsPromise, Promise!Spec
=============================================================================
