--------------------------- MODULE DocumentViewer ---------------------------
(***************************************************************************)
(* The document on screen: loaded by its address, stepped through with the   *)
(* other documents of its recording, copied, confirmed, and with the card of *)
(* those who confirmed it.                                                   *)
(*                                                                          *)
(* Documents come and go on the server; what the tab knows of each outlives   *)
(* the visit.  The confirmation belongs to the screen and not to one document.*)
(* An answer is what the server has when it arrives.                          *)
(***************************************************************************)
EXTENDS Naturals, Sequences, Functions, FiniteSets

CONSTANTS
    Documents,   \* the documents of one recording, as the server orders them
    MaxMoves,    \* steps by the user and by others       (bound)
    MaxFaults    \* requests lost, and sessions ended     (bound)

DocumentViewerAssumption ==
    /\ Documents \in Seq(Nat \ {0}) /\ Documents # <<>> /\ IsInjective(Documents)
    /\ MaxMoves \in Nat /\ MaxFaults \in Nat

Ids == Range(Documents)
None == 0

\* The documents in s, as the server orders them.
Before(d, e) == \E i, j \in DOMAIN Documents : i < j /\ Documents[i] = d /\ Documents[j] = e
InOrder(s) ==
    CHOOSE t \in [1..Cardinality(s) -> s] : \A i, j \in DOMAIN t : i < j => Before(t[i], t[j])

VARIABLES
    offered,    \* the documents that the server still gives
    mine,       \* mine[d], whether the user has to confirm document d, and has
    others,     \* the documents that someone else has to confirm, or has
    session,
    shown,      \* the document of the address, None after the way to the login
    page,       \* page[d], the cached document
    members,    \* members[d], the cached confirmations of it
    list,       \* the cached documents of the recording
    confirming, \* the last use of the mutation that confirms
    copy,       \* the last copy from the button on screen
    sure,       \* (history) confirmed as the screen was told, and not left since
    told,       \* (history) told to be gone, and not given since
    empty,      \* (history) the documents that nobody had to confirm, at some time
    moves, faults

server == <<offered, mine, others, session>>
caches == <<page, members, list>>
history == <<sure, told, empty>>
vars == <<server, shown, caches, confirming, copy, history, moves, faults>>

-----------------------------------------------------------------------------
(* The queries *)

Empty == [known |-> FALSE, data |-> <<>>, error |-> "none", fetching |-> FALSE]
Start(e) == [e EXCEPT !.fetching = TRUE, !.error = IF e.known THEN @ ELSE "none"]
Succeeded(data) == [Empty EXCEPT !.known = TRUE, !.data = data]
Failed(e, error) == [e EXCEPT !.error = error, !.fetching = FALSE]

IsUnauthorized(e) == e.error = "unauthorized"
\* 400, 403, 404
IsUnavailableError(e) == e.error = "unavailable"

-----------------------------------------------------------------------------
(* What the screen makes of them *)

\* Fault: a failure is waited for.
StatusWithoutLogin(e) == IF e.known THEN "ready" ELSE "loading"
Status(e) ==
    CASE IsUnavailableError(e) -> "error"
      [] ~IsUnavailableError(e) /\ e.known -> "ready"
      [] ~e.known /\ e.error = "other" -> "error"
      [] OTHER -> "loading"

View == IF shown = None THEN "login" ELSE Status(page[shown])
Detail == page[shown].data
SendsToLogin == shown # None /\ IsUnauthorized(page[shown])

\* The confirmations are asked for with the count that is drawn.
MembersMounted(d, status) == shown = d /\ status = "ready"
\* Fault: without an answer the list is empty.
StatusOfItems(e) == "ready"
MembersStatus(e) ==
    CASE e.known -> "ready"
      [] ~e.known /\ e.error # "none" /\ ~e.fetching -> "failed"
      [] OTHER -> "loading"
\* What the card says instead of names.
Notice(e) == IF MembersStatus(e) # "ready" THEN MembersStatus(e)
             ELSE IF e.data = <<>> THEN "nobody" ELSE "names"

DocumentIds == IF list.known THEN list.data ELSE <<>>
CurrentIndex == IF shown \in Range(DocumentIds)
                THEN CHOOSE i \in DOMAIN DocumentIds : DocumentIds[i] = shown ELSE 0
\* Fault: drawn whenever there is a list.
StepperAlways == View = "ready" /\ DocumentIds # <<>>
StepperShown == View = "ready" /\ CurrentIndex # 0
\* The stepper's own limits: no step before the first or beyond the last.
Enabled(offset) == IF offset < 0 THEN CurrentIndex > 1 ELSE CurrentIndex < Len(DocumentIds)

IsConfirming == confirming.stage \in {"sent", "handled", "refreshing"}
ButtonShown == View = "ready" /\ Detail.mine # "NOT_REQUIRED"
Pressable == ButtonShown /\ Detail.mine # "CONFIRMED" /\ ~IsConfirming

-----------------------------------------------------------------------------

MyConfirmationState == {"NOT_REQUIRED", "PENDING", "CONFIRMED"}
PageData == [mine: MyConfirmationState]
EntryOf(data) ==
    [known: BOOLEAN, data: data \cup {<<>>}, error: {"none", "unauthorized", "unavailable", "other"},
     fetching: BOOLEAN]
NoConfirmation == [document |-> None, stage |-> "idle", outcome |-> "none", awaits |-> {}]
NoCopy == [document |-> None, stage |-> "idle"]

TypeOK ==
    /\ offered \subseteq Ids /\ others \subseteq Ids /\ session \in BOOLEAN
    /\ mine \in [Ids -> MyConfirmationState]
    /\ shown \in Ids \cup {None}
    /\ \A d \in Ids : page[d] \in EntryOf(PageData) /\ (page[d].known => page[d].data # <<>>)
    /\ members \in [Ids -> EntryOf({<<"somebody">>})]
    /\ list.known => list.data \in {InOrder(s) : s \in SUBSET Ids}
    /\ confirming \in [document: Ids \cup {None}, stage: {"idle", "sent", "handled", "refreshing"},
                       outcome: {"none", "ok", "conflict", "unauthorized"},
                       awaits: SUBSET {"page", "members"}]
    /\ (confirming.stage = "refreshing") = (confirming.awaits # {})
    /\ copy \in [document: Ids \cup {None}, stage: {"idle", "writing", "marked"}]
    /\ (copy.document # None => copy.document = shown /\ View = "ready")
    /\ sure \subseteq Ids /\ told \subseteq Ids /\ empty \subseteq Ids
    /\ moves \in 0..MaxMoves /\ faults \in 0..MaxFaults

NobodyOf(d) == mine[d] = "NOT_REQUIRED" /\ d \notin others

Init ==
    /\ offered = Ids /\ session = TRUE
    /\ mine \in [Ids -> {"NOT_REQUIRED", "PENDING"}]
    /\ others \in SUBSET Ids
    /\ shown = Documents[1]
    /\ page = [d \in Ids |-> IF d = shown THEN Start(Empty) ELSE Empty]
    /\ members = [d \in Ids |-> Empty] /\ list = Empty
    /\ confirming = NoConfirmation /\ copy = NoCopy
    /\ sure = {} /\ told = {} /\ empty = {d \in Ids : NobodyOf(d)}
    /\ moves = 0 /\ faults = 0

Moves == moves < MaxMoves /\ moves' = moves + 1 /\ UNCHANGED faults
Faults == faults < MaxFaults /\ faults' = faults + 1 /\ UNCHANGED moves
\* The browser has run the effects before it comes to the user.
Open == shown # None /\ ~SendsToLogin

-----------------------------------------------------------------------------
(* The server *)

DocumentGoes(d) ==
    /\ d \in offered /\ offered' = offered \ {d} /\ Moves
    /\ UNCHANGED <<mine, others, session, shown, caches, confirming, copy, history>>

\* Someone else leaves the workspace, or comes back.
OthersChange(d) ==
    /\ others' = (others \ {d}) \cup ({d} \ others) /\ Moves
    /\ empty' = empty \cup {e \in Ids : mine[e] = "NOT_REQUIRED" /\ e \notin others'}
    /\ UNCHANGED <<offered, mine, session, shown, caches, confirming, copy, sure, told>>

SessionEnds ==
    /\ session /\ session' = FALSE /\ Faults /\ sure' = {}
    /\ UNCHANGED <<offered, mine, others, shown, caches, confirming, copy, told, empty>>

-----------------------------------------------------------------------------
(* Answers.  What hangs on the document is mounted with it and asked for; a    *)
(* document that is not drawn any more takes its button along.                 *)

\* Fault: one button for all the documents.
CopyStays(c, d, status) == IF status = "ready" THEN c ELSE NoCopy
\* The button is keyed by the document.
CopyOf(c, d, status) == IF status = "ready" /\ c.document = d THEN c ELSE NoCopy

Awaited(part, d) ==
    IF confirming.stage = "refreshing" /\ confirming.document = d
    THEN LET rest == confirming.awaits \ {part} IN
         IF rest = {} THEN [confirming EXCEPT !.stage = "idle", !.awaits = {}]
         ELSE [confirming EXCEPT !.awaits = rest]
    ELSE confirming

\* The document d is now drawn as entry e has it.
Drawn(d, e) ==
    LET mounts == shown = d /\ Status(e) = "ready" /\ View # "ready" IN
    /\ copy' = IF shown = d THEN CopyOf(copy, d, Status(e)) ELSE copy
    /\ members' = IF mounts THEN [members EXCEPT ![d] = Start(@)] ELSE members
    /\ list' = IF mounts THEN Start(list) ELSE list

PageReceived(d, e) ==
    /\ page' = [page EXCEPT ![d] = e]
    /\ Drawn(d, e)
    /\ confirming' = Awaited("page", d)
    /\ told' = IF IsUnavailableError(e) THEN told \cup {d}
               ELSE IF e.error = "none" THEN told \ {d} ELSE told

PageAnswered(d) ==
    /\ page[d].fetching
    /\ PageReceived(d, CASE ~session -> Failed(page[d], "unauthorized")
                         [] session /\ d \notin offered -> Failed(page[d], "unavailable")
                         [] OTHER -> Succeeded([mine |-> mine[d]]))
    /\ UNCHANGED <<server, shown, sure, empty, moves, faults>>

PageFails(d) ==
    /\ page[d].fetching /\ Faults
    /\ PageReceived(d, Failed(page[d], "other"))
    /\ sure' = {}
    /\ UNCHANGED <<server, shown, empty>>

MembersReceived(d, e) ==
    /\ members' = [members EXCEPT ![d] = e]
    /\ confirming' = Awaited("members", d)
    /\ UNCHANGED <<server, shown, page, list, copy, told, empty>>

MembersAnswered(d) ==
    /\ members[d].fetching
    /\ MembersReceived(d, CASE ~session -> Failed(members[d], "unauthorized")
                            [] session /\ d \notin offered -> Failed(members[d], "unavailable")
                            [] OTHER -> Succeeded(IF NobodyOf(d) THEN <<>> ELSE <<"somebody">>))
    /\ UNCHANGED <<sure, moves, faults>>

MembersFails(d) ==
    /\ members[d].fetching /\ Faults
    /\ MembersReceived(d, Failed(members[d], "other"))
    /\ sure' = {}

ListAnswered ==
    /\ list.fetching
    /\ list' = IF session THEN Succeeded(InOrder(offered)) ELSE Failed(list, "unauthorized")
    /\ UNCHANGED <<server, shown, page, members, confirming, copy, history, moves, faults>>

-----------------------------------------------------------------------------
(* The user *)

\* The screen goes to document d: what hangs on it is mounted at once if the
\* document is known.
GoTo(d) ==
    LET ready == Status(page[d]) = "ready" IN
    /\ shown' = d
    /\ page' = [page EXCEPT ![d] = Start(@)]
    /\ members' = IF ready THEN [members EXCEPT ![d] = Start(@)] ELSE members
    /\ list' = IF ready THEN Start(list) ELSE list
    /\ copy' = CopyOf(copy, d, Status(page[d]))
    /\ sure' = {}

Step(offset) ==
    /\ Open /\ StepperShown /\ Enabled(offset) /\ Moves
    /\ CurrentIndex + offset \in DOMAIN DocumentIds
    /\ GoTo(DocumentIds[CurrentIndex + offset])
    /\ UNCHANGED <<server, confirming, told, empty>>

\* Reconnected, or the window focused: all that is mounted is asked for again.
Refetch ==
    /\ Open /\ Moves
    /\ page' = [page EXCEPT ![shown] = Start(@)]
    /\ members' = IF View = "ready" THEN [members EXCEPT ![shown] = Start(@)] ELSE members
    /\ list' = IF View = "ready" THEN Start(list) ELSE list
    /\ UNCHANGED <<server, shown, confirming, copy, history>>

RetryLoad ==
    /\ Open /\ View = "error" /\ Moves
    /\ page' = [page EXCEPT ![shown] = Start(@)]
    /\ UNCHANGED <<server, shown, members, list, confirming, copy, history>>

\* The pointer enters the count: a list that could not be had is asked for again.
RetryIfFailed ==
    /\ Open /\ View = "ready" /\ Moves
    /\ MembersStatus(members[shown]) = "failed"
    /\ members' = [members EXCEPT ![shown] = Start(@)]
    /\ UNCHANGED <<server, shown, page, list, confirming, copy, history>>

Copy ==
    /\ Open /\ View = "ready" /\ Moves
    /\ copy' = [document |-> shown, stage |-> "writing"]
    /\ UNCHANGED <<server, shown, caches, confirming, history>>
CopySucceeds ==
    /\ copy.stage = "writing" /\ copy' = [copy EXCEPT !.stage = "marked"]
    /\ UNCHANGED <<server, shown, caches, confirming, history, moves, faults>>
CopyTimesOut ==
    /\ copy.stage # "idle" /\ copy' = NoCopy
    /\ UNCHANGED <<server, shown, caches, confirming, history, moves, faults>>

Confirm ==
    /\ Open /\ Pressable /\ Moves
    /\ confirming' = [NoConfirmation EXCEPT !.document = shown, !.stage = "sent"]
    /\ UNCHANGED <<server, shown, caches, copy, history>>

ServerConfirms ==
    LET d == confirming.document
        accepted == session /\ d \in offered /\ mine[d] # "NOT_REQUIRED" IN
    /\ confirming.stage = "sent"
    /\ mine' = IF accepted THEN [mine EXCEPT ![d] = "CONFIRMED"] ELSE mine
    /\ confirming' = [confirming EXCEPT !.stage = "handled",
                        !.outcome = IF ~session THEN "unauthorized"
                                    ELSE IF accepted THEN "ok" ELSE "conflict"]
    /\ UNCHANGED <<offered, others, session, shown, caches, copy, history, moves, faults>>

\* Fault: the end of the refetch is not waited for.
AwaitsNothing(d) == {}
\* What the answer waits for: the parts of the document that are mounted.
Awaits(d) == IF shown # d THEN {} ELSE IF View = "ready" THEN {"page", "members"} ELSE {"page"}

ConfirmAnswered ==
    LET d == confirming.document
        refreshes == confirming.outcome \in {"ok", "conflict"} IN
    /\ confirming.stage = "handled"
    /\ page' = IF refreshes /\ shown = d THEN [page EXCEPT ![d] = Start(@)] ELSE page
    /\ members' = IF refreshes /\ MembersMounted(d, View) THEN [members EXCEPT ![d] = Start(@)]
                  ELSE members
    /\ confirming' = IF refreshes /\ Awaits(d) # {}
                     THEN [confirming EXCEPT !.stage = "refreshing", !.awaits = Awaits(d)]
                     ELSE [confirming EXCEPT !.stage = "idle"]
    /\ shown' = IF confirming.outcome = "unauthorized" THEN None ELSE shown
    /\ copy' = IF confirming.outcome = "unauthorized" THEN NoCopy ELSE copy
    /\ sure' = IF confirming.outcome = "ok" /\ shown = d THEN sure \cup {d} ELSE sure
    /\ UNCHANGED <<server, list, told, empty, moves, faults>>

ConfirmFails ==
    /\ confirming.stage \in {"sent", "handled"} /\ Faults
    /\ confirming' = [confirming EXCEPT !.stage = "idle"]
    /\ sure' = {}
    /\ UNCHANGED <<server, shown, caches, copy, told, empty>>

ToLogin ==
    /\ SendsToLogin
    /\ shown' = None /\ copy' = NoCopy /\ confirming' = NoConfirmation /\ sure' = {}
    /\ UNCHANGED <<server, caches, told, empty, moves, faults>>

-----------------------------------------------------------------------------

Steps == \E offset \in {-1, 1} : Step(offset)

Next ==
    \/ \E d \in Ids :
         \/ DocumentGoes(d) \/ OthersChange(d)
         \/ PageAnswered(d) \/ PageFails(d) \/ MembersAnswered(d) \/ MembersFails(d)
    \/ ListAnswered \/ SessionEnds \/ Steps \/ Refetch \/ RetryLoad \/ RetryIfFailed
    \/ Copy \/ CopySucceeds \/ CopyTimesOut
    \/ Confirm \/ ServerConfirms \/ ConfirmAnswered \/ ConfirmFails \/ ToLogin

\* Requests are answered or fail at their time limit, and effects run.
Fairness ==
    /\ \A d \in Ids : WF_vars(PageAnswered(d)) /\ WF_vars(MembersAnswered(d))
    /\ WF_vars(ListAnswered) /\ WF_vars(ServerConfirms) /\ WF_vars(ConfirmAnswered)
    /\ WF_vars(ToLogin)

Spec == Init /\ [][Next]_vars
FairSpec == Spec /\ Fairness

-----------------------------------------------------------------------------
(* Properties *)

\* A step leads to a document that the server orders on that side of the one
\* shown, whatever has gone from the list meanwhile (useDocumentStepper).
StepsInOrder ==
    [][\A offset \in {-1, 1} : Step(offset) =>
          LET at(d) == CHOOSE i \in DOMAIN Documents : Documents[i] = d IN
          IF offset > 0 THEN at(shown') > at(shown) ELSE at(shown') < at(shown)]_vars

\* "Copied" is said of the document that was copied (DocumentViewer: what it
\* said of the last one does not stay).
MarkIsOfThisDocument == copy.stage = "marked" => copy.document = shown

\* That nobody has to confirm a document is said only if so it was, at some time
\* (ConfirmedMembersCard).
NoticeIsTrue ==
    View = "ready" /\ Notice(members[shown]) = "nobody" => shown \in empty

\* The button of a document that the screen has confirmed cannot be pressed
\* again while the screen stays and nothing fails (useConfirmDocumentMutation).
ConfirmedStays == shown \in sure => ~(Open /\ Pressable)

\* Loading and confirming come to an end (useDocumentViewer, useConfirmDocument).
Busy == View = "loading" \/ IsConfirming
BusyEnds == Busy ~> ~Busy

\* A document that the tab was told is gone is not shown until it is given again
\* (useDocumentViewer: even one that was received).
GoneIsHidden == shown \in told => View # "ready"

\* What the screen shows of a confirmation is of the document shown
\* (DocumentViewer: nothing of the last document stays).
SpinnerIsOfThisDocument == ButtonShown /\ IsConfirming => confirming.document = shown

\* A document that was confirmed is not to be confirmed again when nothing failed
\* (DocumentViewer: the button cannot be pressed any more).
ConfirmedOnce ==
    [][Confirm => ~(mine[shown] = "CONFIRMED" /\ confirming.document = shown
                    /\ confirming.stage = "idle" /\ faults = 0)]_vars
=============================================================================
