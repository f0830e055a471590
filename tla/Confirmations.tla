--------------------------- MODULE Confirmations ----------------------------
(***************************************************************************)
(* The documents of a workspace and who has confirmed them: the rows of     *)
(* documents and document_confirmations.  A document is archived once       *)
(* nobody it waits for is left; the code looks for this only where a target *)
(* confirms or departs.                                                     *)
(***************************************************************************)
EXTENDS Membership

CONSTANT Documents

VARIABLES
    document,    \* document[d]
    target,      \* target[d]: members with a DocumentConfirmation row
    confirmedAt  \* confirmedAt[d][m]

documentVars == <<document, target, confirmedAt>>

Document ==
    [status: {"NONE", "DRAFT", "ARCHIVED"}, workspace: Workspaces,
     createdAt: Instants, archivedAt: Instants \cup {NoInstant}]

NoDocument ==
    [status |-> "NONE", workspace |-> CHOOSE w \in Workspaces : TRUE,
     createdAt |-> 0, archivedAt |-> NoInstant]

DocumentTypeOK ==
    /\ document \in [Documents -> Document]
    /\ target \in [Documents -> SUBSET Members]
    /\ confirmedAt \in [Documents -> [Members -> Instants \cup {NoInstant}]]

DocumentInit ==
    /\ document = [d \in Documents |-> NoDocument]
    /\ target = [d \in Documents |-> {}]
    /\ confirmedAt = [d \in Documents |-> [m \in Members |-> NoInstant]]

-----------------------------------------------------------------------------
\* findSummary: a row without a time is pending while its member is active.
\* Those who left are excluded, and counted again if they come back.
Open(d) == {m \in target[d] : confirmedAt[d][m] = NoInstant}
Pending(d) == Open(d) \cap Crew(document[d].workspace)

\* Document.archive: an archived document stays as it is.
ArchiveAccepted(d, now) == document[d].status = "DRAFT" => now >= document[d].createdAt

\* Fault: archives again, with another time.
ArchivedAgain(d, now) == [document[d] EXCEPT !.status = "ARCHIVED", !.archivedAt = now]

Archived(d, now) ==
    IF document[d].status = "DRAFT"
    THEN [document[d] EXCEPT !.status = "ARCHIVED", !.archivedAt = now]
    ELSE document[d]

ArchiveAll(docs, now) ==
    /\ \A d \in docs : ArchiveAccepted(d, now)
    /\ document' = [d \in Documents |-> IF d \in docs THEN Archived(d, now) ELSE document[d]]

-----------------------------------------------------------------------------
(* Steps *)

\* The draft a generation leaves, waiting for all who are active then.
CreateDraft(w, d, now) ==
    /\ IsOpen(w)
    /\ document[d].status = "NONE"
    /\ Crew(w) # {}
    /\ document' = [document EXCEPT ![d] = [status |-> "DRAFT", workspace |-> w,
                                            createdAt |-> now, archivedAt |-> NoInstant]]
    /\ target' = [target EXCEPT ![d] = Crew(w)]
    /\ UNCHANGED confirmedAt

\* Fault: waits for those who left, too.
NobodyElseOpen(d, m) == Open(d) \subseteq {m}

\* The summary after m confirmed or departed has no pending target.
NobodyElsePending(d, m) == Pending(d) \subseteq {m}

\* The first time counts.
ConfirmDocument(w, d, m, now) ==
    /\ IsActive(w, m)
    /\ document[d].status # "NONE"
    /\ document[d].workspace = w
    /\ m \in target[d]
    /\ confirmedAt' = [confirmedAt EXCEPT ![d][m] = IF @ = NoInstant THEN now ELSE @]
    /\ ArchiveAll(IF NobodyElsePending(d, m) THEN {d} ELSE {}, now)
    /\ UNCHANGED target

\* Fault: looks at the drafts m had confirmed.
ConfirmedDrafts(w, m) ==
    {d \in Documents : document[d].status = "DRAFT" /\ document[d].workspace = w
                       /\ m \in target[d] \ Open(d)}

\* findAffectedDrafts
AffectedDrafts(w, m) ==
    {d \in Documents : document[d].status = "DRAFT" /\ document[d].workspace = w /\ m \in Open(d)}

\* archiveAfterMemberDeparture, with m no longer among the active members.
ArchiveAfterDeparture(w, m, now) ==
    /\ ArchiveAll({d \in AffectedDrafts(w, m) : NobodyElsePending(d, m)}, now)
    /\ UNCHANGED <<target, confirmedAt>>
=============================================================================
