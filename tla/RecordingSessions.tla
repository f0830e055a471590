------------------------- MODULE RecordingSessions --------------------------
(***************************************************************************)
(* The rows of recording_sessions and the steps of the RecordingSession     *)
(* entity.  A session is found by its member and the request that started   *)
(* it; whoever repeats that request, with the same proof, finds it again.   *)
(***************************************************************************)
EXTENDS Membership

CONSTANTS
    RequestIds,    \* requestId of a start command
    Proofs,        \* a tab's id and control token, which only that tab has
    TicksPerMilli  \* instants are finer than the milliseconds that are added up

ASSUME SessionAssumption == TicksPerMilli \in Nat \ {0} /\ Proofs # {}

VARIABLE session  \* session[m][q]

-----------------------------------------------------------------------------
(* Rows *)

Optional == Instants \cup {NoInstant}

Session ==
    [status: {"NONE", "RECORDING", "PAUSED", "ENDED", "DISCARDED"},
     workspace: Workspaces, proof: Proofs,
     startedAt: Instants, lastSeenAt: Instants,
     currentIntervalStartedAt: Optional, pausedAt: Optional, endedAt: Optional,
     accumulated: Nat]

\* The place of a session that was not started.
NoSession ==
    [status |-> "NONE",
     workspace |-> CHOOSE w \in Workspaces : TRUE, proof |-> CHOOSE p \in Proofs : TRUE,
     startedAt |-> 0, lastSeenAt |-> 0,
     currentIntervalStartedAt |-> NoInstant, pausedAt |-> NoInstant, endedAt |-> NoInstant,
     accumulated |-> 0]

NewSession(w, p, now) ==
    [NoSession EXCEPT !.status = "RECORDING", !.workspace = w, !.proof = p,
                      !.startedAt = now, !.lastSeenAt = now,
                      !.currentIntervalStartedAt = now]

SessionTypeOK == session \in [Members -> [RequestIds -> Session]]
SessionInit == session = [m \in Members |-> [q \in RequestIds |-> NoSession]]

\* RecordingStatus.ACTIVE_STATUSES
IsRunning(s) == s.status \in {"RECORDING", "PAUSED"}
IsOver(s) == s.status \in {"ENDED", "DISCARDED"}

-----------------------------------------------------------------------------
(* The entity *)

\* Duration.between(...).toMillis()
Millis(from, to) == (to - from) \div TicksPerMilli

\* Fault: any time will do.
AnyTimeAccepted(s, at) == at \in Instants

\* validateTimeNotBeforeLastSeen, validateTimeNotBeforeCurrentInterval
TimeAccepted(s, at) ==
    /\ at >= s.lastSeenAt
    /\ s.status = "RECORDING" => at >= s.currentIntervalStartedAt

\* Fault: counts from the start of the recording instead of the interval.
CountedFromStart(s, at) ==
    IF s.status = "RECORDING" THEN s.accumulated + Millis(s.startedAt, at) ELSE s.accumulated

Counted(s, at) ==
    IF s.status = "RECORDING"
    THEN s.accumulated + Millis(s.currentIntervalStartedAt, at)
    ELSE s.accumulated

Paused(s, at) ==
    [s EXCEPT !.status = "PAUSED", !.accumulated = Counted(s, at),
              !.currentIntervalStartedAt = NoInstant, !.pausedAt = at, !.lastSeenAt = at]

Resumed(s, at) ==
    [s EXCEPT !.status = "RECORDING", !.currentIntervalStartedAt = at,
              !.pausedAt = NoInstant, !.lastSeenAt = at]

Stopped(s, status, at) ==
    [s EXCEPT !.status = status, !.accumulated = Counted(s, at),
              !.currentIntervalStartedAt = NoInstant, !.endedAt = at, !.lastSeenAt = at]

\* Fault: takes the clock as it is.
AtThatTime(s, at) == at

\* A clock that was set back does not keep a recording from being discarded.
NotBeforeLastSeen(s, at) == IF at < s.lastSeenAt THEN s.lastSeenAt ELSE at

Discardable(s, now) == TimeAccepted(s, NotBeforeLastSeen(s, now))
Discarded(s, now) == Stopped(s, "DISCARDED", NotBeforeLastSeen(s, now))

\* Fault: forgets recordings that are paused.
RecordingOf(w, who) ==
    {k \in who \X RequestIds :
        /\ session[k[1]][k[2]].status = "RECORDING"
        /\ session[k[1]][k[2]].workspace = w}

\* findAllActiveByWorkspaceIdAndMemberIdForUpdate, and for a workspace.
RunningOf(w, who) ==
    {k \in who \X RequestIds :
        IsRunning(session[k[1]][k[2]]) /\ session[k[1]][k[2]].workspace = w}

\* One that cannot be discarded would undo the whole transaction.
DiscardRecordings(w, who, now) ==
    /\ \A k \in RunningOf(w, who) : Discardable(session[k[1]][k[2]], now)
    /\ session' = [m \in Members |-> [q \in RequestIds |->
                      IF <<m, q>> \in RunningOf(w, who)
                      THEN Discarded(session[m][q], now)
                      ELSE session[m][q]]]

-----------------------------------------------------------------------------
(* Requests of a tab.  Every one validates access first. *)

\* Fault: a repeated request whose recording is over starts another.
RestartSession(w, m, q, p, now) ==
    /\ IsActive(w, m)
    /\ \A r \in RequestIds : ~IsRunning(session[m][r])
    /\ session' = [session EXCEPT ![m][q] = NewSession(w, p, now)]

\* A start that was answered and repeated, or that is late, finds its session
\* and changes nothing; so does one with another proof, which is refused.
StartSession(w, m, q, p, now) ==
    /\ IsActive(w, m)
    /\ session[m][q].status = "NONE"
    /\ \A r \in RequestIds : ~IsRunning(session[m][r])
    /\ session' = [session EXCEPT ![m][q] = NewSession(w, p, now)]

\* validateControlledBy and validateControlProof
Controls(w, p, s) == s.workspace = w /\ s.proof = p

PauseSession(w, m, q, p, now) ==
    LET s == session[m][q] IN
    /\ IsActive(w, m)
    /\ Controls(w, p, s)
    /\ s.status = "RECORDING"
    /\ TimeAccepted(s, now)
    /\ session' = [session EXCEPT ![m][q] = Paused(s, now)]

ResumeSession(w, m, q, p, now) ==
    LET s == session[m][q] IN
    /\ IsActive(w, m)
    /\ Controls(w, p, s)
    /\ s.status = "PAUSED"
    /\ TimeAccepted(s, now)
    /\ session' = [session EXCEPT ![m][q] = Resumed(s, now)]

EndSession(w, m, q, p, now) ==
    LET s == session[m][q] IN
    /\ IsActive(w, m)
    /\ Controls(w, p, s)
    /\ IsRunning(s)
    /\ TimeAccepted(s, now)
    /\ session' = [session EXCEPT ![m][q] = Stopped(s, "ENDED", now)]
=============================================================================
