------------------------- MODULE MCWorkspaceService -------------------------
(* WorkspaceService for TLC.  The runs look at two slices each of an instance: *)
(* documents among three members, and a recording under clocks that go         *)
(* anywhere; recordings in two workspaces, and views of them.                  *)
EXTENDS WorkspaceService, FiniteSets, TLC

CONSTANTS m1, m2, m3, w1, w2, v1, v2, q1, q2, p1, p2, d1, d2

\* Members, requests, viewers and documents are alike.
Symmetry ==
    Permutations(Members) \cup Permutations(RequestIds)
    \cup Permutations(Viewers) \cup Permutations(Documents)

-----------------------------------------------------------------------------

LoneMember == Cardinality({m \in Members : \E w \in Workspaces : member[w][m] # NoRow}) <= 1
NoViews ==
    /\ \A v \in Viewers : viewer[v] = None
    /\ \A w \in Workspaces, m \in Members : ~member[w][m].lastViewed
NoRecordings == \A m \in Members, q \in RequestIds : session[m][q] = NoSession
NoDocuments == \A d \in Documents : document[d] = NoDocument

\* No clock has shown more than t.
Before(t) ==
    /\ \A w \in Workspaces :
          workspace[w].createdAt <= t /\ \A m \in Members : member[w][m].joinedAt <= t
    /\ \A d \in Documents :
          /\ document[d].createdAt <= t /\ document[d].archivedAt <= t
          /\ \A m \in Members : confirmedAt[d][m] <= t

DocumentsOrClocks == \/ NoRecordings /\ Before(1)
                     \/ NoDocuments /\ LoneMember

\* One member may record again while the other records once.
AFewRecordings ==
    Cardinality({mq \in Members \X RequestIds : session[mq[1]][mq[2]] # NoSession}) <= 3
RecordingsOrViews == \/ NoViews /\ AFewRecordings
                     \/ NoRecordings
=============================================================================
