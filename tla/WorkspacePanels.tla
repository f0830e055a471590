-------------------------- MODULE WorkspacePanels --------------------------
(* What lies beside the screens of a workspace. On the left, the sidebar and, *)
(* on chat screens, the list of chats: a panel floats while it is hovered or  *)
(* focused, and a press on its button moves it into the rail, which holds one *)
(* panel. On the right of a chat, the records found for one of its answers,   *)
(* named by the address. One tab, one layout.                                 *)
EXTENDS Integers, Sequences, FiniteSets

CONSTANTS
  Sessions,       \* chats that have been held
  Messages,       \* useSearchMessages: every chat's messages, [id, role, evidences]
  AddressIds,     \* numbers an address may name as its messageId
  Folders,        \* pages of the workspace's tree
  Parent,         \* the page each of them names as its parent, or Root
  MaxHistory      \* bound: entries of the tab's history

VARIABLES
  history, at,    \* entries of the tab's history, and the one on screen
  picked,         \* pickedPanel
  peek,           \* isPeeking of each panel
  timer,          \* is a panel about to be closed
  pointer, focus, \* the panel, with its button, that has the pointer, the keyboard
  expanded        \* expandedFolderIds of the sidebar that is drawn

vars == <<history, at, picked, peek, timer, pointer, focus, expanded>>
panelVars == <<picked, peek, timer, pointer, focus>>

Panels == {"sidebar", "chatList"}
None == "none"
Root == "root"
Home == "home"
NewChat == "newChat"
Places == {Home, NewChat} \union Sessions
NoId == 0
Entry == [place: Places, messageId: {NoId} \union AddressIds]

Message == [id: Nat \ {NoId}, role: {"USER", "ASSISTANT"}, evidences: Nat]

(* SEARCH_MESSAGES_MOCK: messages are numbered, and an answer with evidence    *)
(* follows the question that it answers.                                       *)
PanelsAssumption ==
  /\ {Home, NewChat} \intersect Sessions = {}
  /\ AddressIds \subseteq Int
  /\ Messages \in Seq(Message)
  /\ \A i, j \in 1..Len(Messages): Messages[i].id = Messages[j].id => i = j
  /\ \A i \in 1..Len(Messages):
       Messages[i].role = "ASSISTANT" /\ Messages[i].evidences > 0 =>
         /\ Messages[i].id \in AddressIds
         /\ i > 1 /\ Messages[i - 1].role = "USER"
  /\ MaxHistory \in Nat \ {0}

Place == history[at].place
IsChatActive == Place # Home
-----------------------------------------------------------------------------
(* The left side. *)

(* The list of chats has a button on chat screens only.                        *)
IsMounted(p) == p = "sidebar" \/ IsChatActive
DockedPanel == IF picked = "chatList" /\ ~IsChatActive THEN None ELSE picked
IsDocked(p) == DockedPanel = p
Floats(p) == IsMounted(p) /\ peek[p] /\ ~IsDocked(p)
DrawnIn(p) == IF IsDocked(p) THEN "rail" ELSE IF Floats(p) THEN "float" ELSE None

(* The pages reached from the root through those of opened.                     *)
PagesThrough(opened) ==
  LET Down[n \in 0..Cardinality(Folders)] ==
        IF n = 0 THEN {f \in Folders : Parent[f] = Root}
        ELSE LET above == Down[n - 1]
             IN  above \union {f \in Folders : Parent[f] \in above \intersect opened}
  IN  Down[Cardinality(Folders)]
(* toWorkspaceTree: pages below one that is not in the list are left out.      *)
Tree == PagesThrough(Folders)
HasChildren(f) == \E g \in Tree: Parent[g] = f
(* SidebarTreeList: the rows below open folders.                               *)
Rows == PagesThrough(expanded)

(* The sidebar's state goes with the place in which it is drawn.               *)
KeepsTree == expanded' = IF DrawnIn("sidebar")' = DrawnIn("sidebar") THEN expanded ELSE {}
-----------------------------------------------------------------------------
(* The right side. *)

ConversationMessages == IF Place \in Sessions THEN Messages ELSE <<>>
Ids == 1..Len(ConversationMessages)
IsAnswer(i) == ConversationMessages[i].role = "ASSISTANT"
HasEvidence(i) == IsAnswer(i) /\ ConversationMessages[i].evidences > 0

(* The address names a message by a positive whole number, or none.            *)
OpenedMessageId == IF history[at].messageId > 0 THEN history[at].messageId ELSE NoId

(* useOpenedSearchEvidences: how many records the panel shows.                 *)
OpenedEvidences ==
  LET opened == {i \in Ids : IsAnswer(i) /\ ConversationMessages[i].id = OpenedMessageId}
  IN  IF opened = {} THEN 0 ELSE ConversationMessages[CHOOSE i \in opened : TRUE].evidences
EvidenceRailIsOpen == IsChatActive /\ OpenedEvidences > 0

(* toSearchTurns: a question opens a turn, and the first answer to it closes   *)
(* it; other answers are not drawn.                                            *)
Questions == {i \in Ids : ~IsAnswer(i)}
AnswersTo(q) == {i \in Ids : i = q + 1 /\ IsAnswer(i)}
DrawnAnswers == UNION {AnswersTo(q) : q \in Questions}
(* SearchTurn: the button below an answer that has evidence.                   *)
\* Fault: the button below every answer.
AllAnswers == DrawnAnswers
EvidenceButtons == {i \in DrawnAnswers : HasEvidence(i)}
ButtonIsOpen(i) == OpenedMessageId = ConversationMessages[i].id

(* findLatestAnswerWithEvidence, and the button in the bar above.              *)
WithEvidence == {i \in Ids : HasEvidence(i)}
LatestAnswer == CHOOSE i \in WithEvidence : \A j \in WithEvidence: j <= i
ToggleIsShown == IsChatActive /\ WithEvidence # {}
\* Fault: judged by the address.
ToggleByAddress == OpenedMessageId # NoId
ToggleIsOpen == OpenedEvidences > 0

SetMessageId(id) == history' = [history EXCEPT ![at].messageId = id]

(* "N records": opens the answer's, or leaves them open.                       *)
OpenEvidence(i) ==
  /\ i \in EvidenceButtons
  /\ SetMessageId(ConversationMessages[i].id)
  /\ UNCHANGED <<at, panelVars, expanded>>

PressToggle ==
  /\ ToggleIsShown
  /\ SetMessageId(IF ToggleIsOpen THEN NoId ELSE ConversationMessages[LatestAnswer].id)
  /\ UNCHANGED <<at, panelVars, expanded>>
-----------------------------------------------------------------------------
(* The pointer, the keyboard and the panels. *)

Init ==
  /\ \E entry \in Entry: history = <<entry>>
  /\ at = 1
  /\ picked = None
  /\ peek = [p \in Panels |-> FALSE]
  /\ timer = [p \in Panels |-> FALSE]
  /\ pointer = None
  /\ focus = None
  /\ expanded = {}

(* From outside, or from the other panel, which starts its timer.              *)
PointerEnter(p) ==
  /\ IsMounted(p)
  /\ pointer # p
  /\ pointer' = p
  /\ peek' = [peek EXCEPT ![p] = TRUE]
  /\ timer' = [q \in Panels |-> IF q = p THEN FALSE ELSE timer[q] \/ pointer = q]
  /\ UNCHANGED <<history, at, picked, focus>>
  /\ KeepsTree

\* Fault: the timer is not set.
PointerLeaveOnly ==
  /\ pointer # None
  /\ pointer' = None
  /\ UNCHANGED <<history, at, picked, peek, timer, focus, expanded>>

PointerLeave ==
  /\ pointer # None
  /\ pointer' = None
  /\ timer' = [timer EXCEPT ![pointer] = TRUE]
  /\ UNCHANGED <<history, at, picked, peek, focus, expanded>>

(* PEEK_CLOSE_DELAY_MS have passed.                                            *)
CloseTimer(p) ==
  /\ timer[p]
  /\ timer' = [timer EXCEPT ![p] = FALSE]
  /\ peek' = [peek EXCEPT ![p] = FALSE]
  /\ UNCHANGED <<history, at, picked, pointer, focus>>
  /\ KeepsTree

\* Fault: without onBlur.
MoveFocusOnly(p) ==
  /\ p # None => IsMounted(p)
  /\ focus # p
  /\ focus' = p
  /\ peek' = [q \in Panels |-> q = p \/ peek[q]]
  /\ timer' = [q \in Panels |-> timer[q] /\ q # p]
  /\ UNCHANGED <<history, at, picked, pointer>>
  /\ KeepsTree

(* The keyboard moves to panel p, or to none of them: the one left is closed.  *)
MoveFocus(p) ==
  /\ p # None => IsMounted(p)
  /\ focus # p
  /\ focus' = p
  /\ peek' = [q \in Panels |-> q = p \/ (peek[q] /\ q # focus)]
  /\ timer' = [q \in Panels |-> timer[q] /\ q # focus /\ q # p]
  /\ UNCHANGED <<history, at, picked, pointer>>
  /\ KeepsTree

Escape ==
  /\ focus # None
  /\ peek' = [peek EXCEPT ![focus] = FALSE]
  /\ timer' = [timer EXCEPT ![focus] = FALSE]
  /\ UNCHANGED <<history, at, picked, pointer, focus>>
  /\ KeepsTree

(* A panel's button is pressed, by the keyboard that is on it, or the pointer, *)
(* which brings the keyboard along. A panel that is taken away from under the  *)
(* pointer tells nobody that the pointer has left it.                          *)
ToggleDock(p) ==
  /\ IsMounted(p)
  /\ p \in {pointer, focus}
  /\ focus' = p
  /\ peek' = [q \in Panels |-> peek[q] /\ q # p /\ q # focus]
  /\ timer' = [q \in Panels |-> timer[q] /\ q # p /\ q # focus]
  /\ picked' = IF IsDocked(p) THEN None ELSE p
  /\ pointer' \in IF focus = p /\ pointer = p THEN {p, None} ELSE {pointer}
  /\ UNCHANGED <<history, at>>
  /\ KeepsTree

(* A folder's row is pressed.                                                  *)
ToggleFolder(f) ==
  /\ DrawnIn("sidebar") # None
  /\ "sidebar" \in {pointer, focus}
  /\ f \in Rows
  /\ HasChildren(f)
  /\ expanded' = IF f \in expanded THEN expanded \ {f} ELSE expanded \union {f}
  /\ UNCHANGED <<history, at, panelVars>>

(* The list of chats goes when the chat screens are left; pickedPanel stays.   *)
Unmounts ==
  LET goes == history'[at'].place = Home
      Left(q) == goes /\ q = "chatList"
  IN  /\ peek' = [q \in Panels |-> peek[q] /\ ~Left(q)]
      /\ timer' = [q \in Panels |-> timer[q] /\ ~Left(q)]
      /\ pointer' = IF Left(pointer) THEN None ELSE pointer
      /\ focus' = IF Left(focus) THEN None ELSE focus
      /\ UNCHANGED picked
      /\ KeepsTree

(* To another screen; addresses made by the program name no message.           *)
\* Fault: the search part of the address is kept.
AtSameMessage(place) == [place |-> place, messageId |-> history[at].messageId]
At(place) == [place |-> place, messageId |-> NoId]
Push(place) ==
  /\ at < MaxHistory
  /\ history' = Append(SubSeq(history, 1, at), At(place))
  /\ at' = at + 1

NavigateToHome == Place # Home /\ Push(Home) /\ Unmounts
NavigateToExplore == ~IsChatActive /\ Push(NewChat) /\ Unmounts
(* The rows and the button are in the list of chats.                           *)
ChatListIsDrawn == DrawnIn("chatList") # None
NavigateToChatSession == ChatListIsDrawn /\ (\E s \in Sessions: Push(s)) /\ Unmounts
NavigateToNewChat ==
  /\ ChatListIsDrawn
  /\ history' = [history EXCEPT ![at] = At(NewChat)]
  /\ UNCHANGED at
  /\ Unmounts

Traverse ==
  /\ at' \in {at - 1, at + 1} \intersect (1..Len(history))
  /\ UNCHANGED history
  /\ Unmounts

Next ==
  \/ \E p \in Panels: PointerEnter(p) \/ CloseTimer(p) \/ ToggleDock(p)
  \/ \E p \in Panels \union {None}: MoveFocus(p)
  \/ PointerLeave
  \/ Escape
  \/ \E f \in Folders: ToggleFolder(f)
  \/ \E i \in Ids: OpenEvidence(i)
  \/ PressToggle
  \/ NavigateToHome \/ NavigateToExplore \/ NavigateToChatSession
  \/ NavigateToNewChat \/ Traverse

(* A timer of the browser fires.                                               *)
(* A timer that is not stopped fires.                                          *)
Fairness == \A p \in Panels: WF_vars(CloseTimer(p))

Spec == Init /\ [][Next]_vars /\ Fairness
-----------------------------------------------------------------------------
(* The types of the variables.                                                 *)
TypeOK ==
  /\ history \in Seq(Entry)
  /\ Len(history) \in 1..MaxHistory
  /\ at \in 1..Len(history)
  /\ picked \in Panels \union {None}
  /\ peek \in [Panels -> BOOLEAN]
  /\ timer \in [Panels -> BOOLEAN]
  /\ pointer \in Panels \union {None}
  /\ focus \in Panels \union {None}
  /\ expanded \subseteq Folders

(* useDockablePanel: no panel floats that was left alone: the pointer or the   *)
(* keyboard is in it, or its timer runs. Held also by a panel that floats      *)
(* again because the other one has taken the rail.                             *)
FloatsForAReason ==
  \A p \in Panels: Floats(p) => timer[p] \/ p \in {pointer, focus}

(* useDockablePanel: a panel left by the pointer and the keyboard is closed.   *)
FloatEnds ==
  \A p \in Panels: Floats(p) /\ p \notin {pointer, focus} ~> ~Floats(p) \/ p \in {pointer, focus}

(* The rail on the right is of an answer on screen, whose button is the only   *)
(* one that is drawn as open; and with the rail closed, none is.               *)
OpenedIsOnScreen ==
  Cardinality({i \in EvidenceButtons : ButtonIsOpen(i)}) = IF EvidenceRailIsOpen THEN 1 ELSE 0

(* SearchEvidenceToggle: a press on the button above changes whether the rail  *)
(* is open, also where the address names an answer without evidence, or none.  *)
(* The panel has no button of its own to close it.                             *)
ToggleTurnsTheRail ==
  /\ [][PressToggle => EvidenceRailIsOpen' # EvidenceRailIsOpen]_vars
  /\ [](EvidenceRailIsOpen => ToggleIsShown)

(* useOpenedEvidenceMessage: another chat begins without the records of the    *)
(* last one, and Back finds a chat as it was left.                             *)
RecordsStayWithTheirEntry ==
  [][at' # at =>
       /\ history' # history => ~EvidenceRailIsOpen'
       /\ \A i \in 1..at: history'[i] = history[i]]_vars

(* useWorkspaceTree's comment: folders stay open when the sidebar is closed    *)
(* and opened again, since its component remains.                              *)
TreeStaysOpen ==
  [][expanded' # expanded => \E f \in Folders: ToggleFolder(f)]_vars
=============================================================================
