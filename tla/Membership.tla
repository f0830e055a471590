----------------------------- MODULE Membership -----------------------------
(***************************************************************************)
(* Workspaces and who belongs to them: the rows of workspaces and           *)
(* workspace_members, the invitations, and the last workspace a member      *)
(* viewed.  The operators here are the steps of the entities and of their   *)
(* repositories; WorkspaceService puts them together into transactions.     *)
(***************************************************************************)
EXTENDS Integers

CONSTANTS
    Workspaces, Members,
    Viewers,     \* requests that record the last workspace viewed
    MaxTime,     \* bound: clocks show instants up to this one
    None

ASSUME MembershipAssumption == MaxTime \in Nat /\ Workspaces # {}

\* What a clock may show.  Instances have a clock each and a clock may be set
\* back, so a transaction may read any instant.
Instants == 0..MaxTime
NoInstant == -1

VARIABLES
    workspace, \* workspace[w]: the Workspace row
    member,    \* member[w][m]: the latest WorkspaceMember row of m in w
    invited,   \* workspaces with an invitation that has not expired
    viewer     \* viewer[v]: the statement of WorkspaceLastViewedService under way

membershipVars == <<workspace, member, invited, viewer>>

-----------------------------------------------------------------------------
(* Rows *)

Workspace == [status: {"NONE", "OPEN", "DELETED"}, createdAt: Instants]
NoWorkspace == [status |-> "NONE", createdAt |-> 0]

\* A row that was left is never taken up again: coming back inserts a new one,
\* and the older ones stay LEFT, so the latest says everything.
Row == [status: {"NONE", "ACTIVE", "LEFT"}, role: {"OWNER", "MEMBER"},
        joinedAt: Instants, lastViewed: BOOLEAN]
NoRow == [status |-> "NONE", role |-> "MEMBER", joinedAt |-> 0, lastViewed |-> FALSE]
NewRow(role, now) ==
    [status |-> "ACTIVE", role |-> role, joinedAt |-> now, lastViewed |-> FALSE]

\* The rows a FOR UPDATE statement has selected and not locked yet.
Viewing == [member: Members, target: Workspaces, rows: SUBSET Workspaces]

ASSUME NoneAssumption == None \notin Viewing

MembershipTypeOK ==
    /\ workspace \in [Workspaces -> Workspace]
    /\ member \in [Workspaces -> [Members -> Row]]
    /\ invited \subseteq Workspaces
    /\ viewer \in [Viewers -> Viewing \cup {None}]

MembershipInit ==
    /\ workspace = [w \in Workspaces |-> NoWorkspace]
    /\ member = [w \in Workspaces |-> [m \in Members |-> NoRow]]
    /\ invited = {}
    /\ viewer = [v \in Viewers |-> None]

-----------------------------------------------------------------------------
(* Queries *)

IsOpen(w) == workspace[w].status = "OPEN"

\* Members whose row has no left_at; the workspace may be deleted.
Crew(w) == {m \in Members : member[w][m].status = "ACTIVE"}
Owners(w) == {m \in Crew(w) : member[w][m].role = "OWNER"}

\* existsActiveByWorkspaceIdAndMemberId
IsActive(w, m) == IsOpen(w) /\ m \in Crew(w)

\* Active rows of m that its views see.
ViewableBy(m) == {w \in Workspaces : IsActive(w, m)}
ViewedBy(m) == {w \in Workspaces : member[w][m].status = "ACTIVE" /\ member[w][m].lastViewed}

-----------------------------------------------------------------------------
(* Steps *)

\* WorkspaceService.create
CreateWorkspace(w, m, now) ==
    /\ workspace[w].status = "NONE"
    /\ workspace' = [workspace EXCEPT ![w] = [status |-> "OPEN", createdAt |-> now]]
    /\ member' = [member EXCEPT ![w][m] = NewRow("OWNER", now)]
    /\ UNCHANGED <<invited, viewer>>

IssueInvitation(w, m) ==
    /\ IsActive(w, m)
    /\ invited' = invited \cup {w}
    /\ UNCHANGED <<workspace, member, viewer>>

InvitationsExpire(w) ==
    /\ w \in invited
    /\ invited' = invited \ {w}
    /\ UNCHANGED <<workspace, member, viewer>>

\* Accepting again while active changes nothing.
AcceptInvitation(w, m, now) ==
    /\ w \in invited
    /\ IsOpen(w)
    /\ m \notin Crew(w)
    /\ member' = [member EXCEPT ![w][m] = NewRow("MEMBER", now)]
    /\ UNCHANGED <<workspace, invited, viewer>>

\* The row a statement has selected is not the row the member comes back with.
RowLeft(w, m) ==
    viewer' = [v \in Viewers |->
                  IF viewer[v] # None /\ viewer[v].member = m
                  THEN [viewer[v] EXCEPT !.rows = @ \ {w}]
                  ELSE viewer[v]]

\* Fault: the owner may go before handing over.
LeavePolicyForAll(w, m) == m \in Crew(w)

\* validateLeavePolicy: only the last one may leave as the owner.
LeavePolicy(w, m) == Crew(w) = {m} \/ member[w][m].role # "OWNER"

\* WorkspaceMember.leave and Workspace.delete.
LeaveRow(w, m, now) ==
    /\ IsActive(w, m)
    /\ now >= member[w][m].joinedAt
    /\ LeavePolicy(w, m)
    /\ member' = [member EXCEPT ![w][m].status = "LEFT", ![w][m].lastViewed = FALSE]
    /\ IF Crew(w) = {m}
       THEN /\ now >= workspace[w].createdAt
            /\ workspace' = [workspace EXCEPT ![w].status = "DELETED"]
       ELSE UNCHANGED workspace
    /\ RowLeft(w, m)
    /\ UNCHANGED invited

\* WorkspaceMember.receiveOwnership and leaveAfterOwnershipTransfer.
TransferRows(w, owner, successor, now) ==
    /\ owner # successor
    /\ IsOpen(w)
    /\ {owner, successor} \subseteq Crew(w)
    /\ member[w][owner].role = "OWNER"
    /\ member[w][successor].role = "MEMBER"
    /\ now >= member[w][owner].joinedAt
    /\ member' = [member EXCEPT ![w][successor].role = "OWNER",
                                ![w][owner].status = "LEFT",
                                ![w][owner].lastViewed = FALSE]
    /\ RowLeft(w, owner)
    /\ UNCHANGED <<workspace, invited>>

-----------------------------------------------------------------------------
(* The last workspace viewed.  This transaction does not lock a workspace: it *)
(* selects the active rows of the member FOR UPDATE, and what it has selected *)
(* may change until it has the locks. *)

SelectViewed(v, m, w) ==
    /\ viewer[v] = None
    /\ IsActive(w, m)
    /\ viewer' = [viewer EXCEPT ![v] = [member |-> m, target |-> w, rows |-> ViewableBy(m)]]
    /\ UNCHANGED <<workspace, member, invited>>

\* Fault: no unique index.
MarkIsFree(m, locked) == m \in Members

\* uk_workspace_members_member_last_viewed: no active row of m outside the
\* locked ones, which were cleared, bears the mark.
MarkIsUnique(m, locked) == ViewedBy(m) \subseteq locked

\* With the locks it clears the rows that are still there and marks the target.
MarkViewed(v) ==
    /\ viewer[v] # None
    /\ LET m == viewer[v].member
           locked == viewer[v].rows
       IN  IF viewer[v].target \in locked /\ MarkIsUnique(m, locked)
           THEN member' = [w \in Workspaces |->
                              IF w \in locked
                              THEN [member[w] EXCEPT ![m].lastViewed = (w = viewer[v].target)]
                              ELSE member[w]]
           ELSE UNCHANGED member
    /\ viewer' = [viewer EXCEPT ![v] = None]
    /\ UNCHANGED <<workspace, invited>>
=============================================================================
