-------------------------- MODULE WorkspaceService --------------------------
(***************************************************************************)
(* The transactions on a workspace: membership, recordings and              *)
(* confirmations together.  Each locks the workspace row before it reads,   *)
(* so each is one step - but for the last workspace viewed, which locks the *)
(* member's rows only.  A check that fails undoes the whole transaction.    *)
(***************************************************************************)
EXTENDS RecordingSessions, Confirmations

vars == <<workspace, member, invited, viewer, session, document, target, confirmedAt>>

-----------------------------------------------------------------------------
(* Transactions *)

Create(w, m, now) ==
    CreateWorkspace(w, m, now) /\ UNCHANGED <<session, documentVars>>

Issue(w, m) == IssueInvitation(w, m) /\ UNCHANGED <<session, documentVars>>

Expire(w) == InvitationsExpire(w) /\ UNCHANGED <<session, documentVars>>

Accept(w, m, now) ==
    AcceptInvitation(w, m, now) /\ UNCHANGED <<session, documentVars>>

\* The last one takes the workspace along, and every recording in it.
Leave(w, m, now) ==
    /\ LeaveRow(w, m, now)
    /\ DiscardRecordings(w, IF Crew(w) = {m} THEN Members ELSE {m}, now)
    /\ ArchiveAfterDeparture(w, m, now)

TransferOwnership(w, owner, successor, now) ==
    /\ TransferRows(w, owner, successor, now)
    /\ DiscardRecordings(w, {owner}, now)
    /\ ArchiveAfterDeparture(w, owner, now)

SelectView(v, m, w) == SelectViewed(v, m, w) /\ UNCHANGED <<session, documentVars>>
MarkView(v) == MarkViewed(v) /\ UNCHANGED <<session, documentVars>>

Start(w, m, q, p, now) ==
    StartSession(w, m, q, p, now) /\ UNCHANGED <<membershipVars, documentVars>>
Pause(w, m, q, p, now) ==
    PauseSession(w, m, q, p, now) /\ UNCHANGED <<membershipVars, documentVars>>
Resume(w, m, q, p, now) ==
    ResumeSession(w, m, q, p, now) /\ UNCHANGED <<membershipVars, documentVars>>
End(w, m, q, p, now) ==
    EndSession(w, m, q, p, now) /\ UNCHANGED <<membershipVars, documentVars>>

CompleteGeneration(w, d, now) ==
    CreateDraft(w, d, now) /\ UNCHANGED <<membershipVars, session>>
Confirm(w, d, m, now) ==
    ConfirmDocument(w, d, m, now) /\ UNCHANGED <<membershipVars, session>>

-----------------------------------------------------------------------------
Init == MembershipInit /\ SessionInit /\ DocumentInit

Next ==
    \/ \E w \in Workspaces, m \in Members, now \in Instants :
          Create(w, m, now) \/ Accept(w, m, now) \/ Leave(w, m, now)
    \/ \E w \in Workspaces, m \in Members : Issue(w, m)
    \/ \E w \in Workspaces : Expire(w)
    \/ \E w \in Workspaces, m, n \in Members, now \in Instants :
          TransferOwnership(w, m, n, now)
    \/ \E v \in Viewers, m \in Members, w \in Workspaces : SelectView(v, m, w)
    \/ \E v \in Viewers : MarkView(v)
    \/ \E w \in Workspaces, m \in Members, q \in RequestIds, p \in Proofs, now \in Instants :
          \/ Start(w, m, q, p, now)
          \/ Pause(w, m, q, p, now)
          \/ Resume(w, m, q, p, now)
          \/ End(w, m, q, p, now)
    \/ \E w \in Workspaces, d \in Documents, now \in Instants :
          \/ CompleteGeneration(w, d, now)
          \/ \E m \in Members : Confirm(w, d, m, now)

Spec == Init /\ [][Next]_vars

-----------------------------------------------------------------------------
(* Properties *)

TypeOK == MembershipTypeOK /\ SessionTypeOK /\ DocumentTypeOK

\* An open workspace has exactly one owner among its active members, and a
\* deleted one has nobody left (docs/adr/410), however ownership went round
\* and whoever left and came back.
OneOwner ==
    \A w \in Workspaces :
       /\ IsOpen(w) => \E m \in Crew(w) : Owners(w) = {m}
       /\ ~IsOpen(w) => Crew(w) = {}

\* A member has at most one last viewed workspace, and never one they left,
\* though two requests may each clear only the rows they knew of.
OneLastViewed ==
    \A m \in Members :
       /\ \A x, y \in ViewedBy(m) : x = y
       /\ \A w \in Workspaces : member[w][m].status = "LEFT" => ~member[w][m].lastViewed

\* A member records once at a time, in all workspaces together, and only where
\* they are an active member: nobody else could ever end the recording, and it
\* would keep them from starting another.
OneRecordingOfAMember ==
    \A m \in Members : \A q, r \in RequestIds :
       IsRunning(session[m][q]) =>
          /\ IsActive(session[m][q].workspace, m)
          /\ IsRunning(session[m][r]) => q = r

\* What there is one of, whatever members and tabs do beside each other: an
\* owner of each workspace, a last workspace of each member, a recording.
OneOfEach == OneOwner /\ OneLastViewed /\ OneRecordingOfAMember

\* Whatever a clock shows, a running recording can be discarded, so it never
\* keeps its member from leaving (RecordingSession.notBeforeLastSeen).
DiscardNeverRefused ==
    \A m \in Members, q \in RequestIds, now \in Instants :
       IsRunning(session[m][q]) => Discardable(session[m][q], now)

\* The check constraints of recording_sessions and documents never refuse what
\* the entities write, and what is added up is never more than the recording
\* lasted, whatever the clocks did at each pause.
RowsMeetConstraints ==
    /\ \A m \in Members, q \in RequestIds : LET s == session[m][q] IN
          /\ s.status = "RECORDING" =>
                /\ s.startedAt <= s.currentIntervalStartedAt
                /\ s.currentIntervalStartedAt <= s.lastSeenAt
                /\ s.endedAt = NoInstant
                /\ s.accumulated * TicksPerMilli <= s.currentIntervalStartedAt - s.startedAt
          /\ s.status # "RECORDING" =>
                /\ s.currentIntervalStartedAt = NoInstant
                /\ s.startedAt <= s.lastSeenAt
                /\ s.accumulated * TicksPerMilli <= s.lastSeenAt - s.startedAt
          /\ s.status = "PAUSED" => s.endedAt = NoInstant
          /\ IsOver(s) => s.endedAt = s.lastSeenAt
          /\ s.pausedAt # NoInstant => s.pausedAt >= s.startedAt
    /\ \A d \in Documents : document[d].status = "ARCHIVED" =>
          document[d].archivedAt >= document[d].createdAt

\* The rows of the service, with the types of their columns and what the check
\* constraints of the database ask of them.
RowsAreSound == TypeOK /\ RowsMeetConstraints

\* A draft waits for an active member.  Archiving is looked for only where a
\* target confirms or departs, so a draft that awaited nobody would stay one
\* for ever (archiveAfterMemberDeparture, archiveIfNoPendingTargets).
DraftAwaitsSomebody ==
    \A d \in Documents : document[d].status = "DRAFT" => Pending(d) # {}

\* What is over stays as it was recorded: an ended or discarded recording, an
\* archived document, a confirmation and a deleted workspace, whatever requests
\* are repeated and whoever comes back.
WhatIsOverStays ==
    [][/\ \A m \in Members, q \in RequestIds :
             IsOver(session[m][q]) => session'[m][q] = session[m][q]
       /\ \A d \in Documents :
             /\ document[d].status = "ARCHIVED" => document'[d] = document[d]
             /\ \A m \in Members : confirmedAt[d][m] # NoInstant =>
                   confirmedAt'[d][m] = confirmedAt[d][m]
       /\ \A w \in Workspaces : workspace[w].status = "DELETED" =>
             workspace'[w] = workspace[w]]_vars

-----------------------------------------------------------------------------
(* What the workspace promises *)

Promise ==
    INSTANCE WorkspacePromise WITH
        stage <- [w \in Workspaces |-> workspace[w].status],
        crew <- [w \in Workspaces |-> Crew(w)],
        owners <- [w \in Workspaces |-> Owners(w)],
        published <- [w \in Workspaces |->
                         {d \in Documents : document[d].status # "NONE" /\ document[d].workspace = w}],
        asked <- target,
        answered <- [d \in Documents |-> {m \in Members : confirmedAt[d][m] # NoInstant}],
        archive <- {d \in Documents : document[d].status = "ARCHIVED"}

\* Looking only where a target confirms or departs, and only at the drafts that
\* one had not confirmed, archives the same documents at the same moments as
\* looking at everything after every step; and roles change hands as promised.
ImplementsPromise == Promise!Spec
=============================================================================
