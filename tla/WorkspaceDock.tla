--------------------------- MODULE WorkspaceDock ---------------------------
(* The dock at the bottom of every screen of a workspace: a round button that *)
(* opens into a field for a question. Any letter typed outside a field opens  *)
(* it too. A question asked elsewhere is taken to the chat screen, in the     *)
(* state of the new history entry. One tab, whose layout stays mounted.       *)
EXTENDS Integers, Sequences

CONSTANTS
  MaxDrafts,    \* bound: texts the user begins
  MaxHistory    \* bound: entries of the tab's history

DockAssumption == MaxDrafts \in Nat /\ MaxHistory \in Nat \ {0}

VARIABLES
  history,      \* the tab's history: pages, and the question taken along
  at,           \* the entry on screen
  byUser,       \* isExpandedByUser
  message,      \* what the field holds
  composing,    \* is a letter being composed in the field
  focus,        \* what has the keyboard: the page, a control, or the field
  fate,         \* recorded for the properties: what became of every draft
  taken         \* recorded: has the dock taken a key that acts on a control

vars == <<history, at, byUser, message, composing, focus, fate, taken>>

(* What the field holds: nothing, only blanks, or a draft, known by its number. *)
Empty == 0
Blank == -1
Drafts == 1..MaxDrafts
Message == {Empty, Blank} \union Drafts
Fates == {"none", "writing", "asked", "emptied", "discarded"}
ChatPages == {"chat", "session"}
Pages == ChatPages \union {"home", "other"}
Entry == [page: Pages, question: {Empty} \union Drafts]

Page == history[at].page
IsChatActive == Page \in ChatPages
IsExpanded == IsChatActive \/ byUser
CanSubmit == message \in Drafts

Init ==
  /\ \E page \in Pages: history = <<[page |-> page, question |-> Empty]>>
  /\ at = 1
  /\ byUser = FALSE
  /\ message = Empty
  /\ composing = FALSE
  /\ focus = "page"
  /\ fate = [d \in Drafts |-> "none"]
  /\ taken = FALSE

(* A letter begins a draft unless one is being written.                        *)
NextDrafts == {d \in Drafts : fate[d] = "none" /\ \A e \in 1..(d - 1): fate[e] # "none"}
Holds(m) ==
  /\ message' = m
  /\ fate' = [d \in Drafts |->
       IF d = m THEN "writing" ELSE IF d = message THEN "discarded" ELSE fate[d]]
AddsLetter == IF CanSubmit THEN Holds(message) ELSE \E d \in NextDrafts: Holds(d)
AddsBlank == Holds(IF message = Empty THEN Blank ELSE message)

(* useTypeToStartChat, outside a field: a letter is taken to the dock's field. *)
Opens == byUser' = TRUE /\ focus' = "field" /\ composing' = FALSE

TypeLetter ==
  /\ focus # "field"
  /\ AddsLetter
  /\ Opens
  /\ UNCHANGED <<history, at, taken>>

(* A blank is a key of one letter too, whatever has the focus.                 *)
TypeBlank ==
  /\ focus # "field"
  /\ AddsBlank
  /\ Opens
  /\ taken' = (taken \/ focus = "control")
  /\ UNCHANGED <<history, at>>

(* The first key of a composed letter opens the dock without it.               *)
TypeComposed ==
  /\ focus # "field"
  /\ Opens
  /\ UNCHANGED <<history, at, message, fate, taken>>

(* Keys the dock leaves alone: Tab moves the focus.                            *)
MoveFocus ==
  /\ focus' \in {"control", "page"} \union (IF IsExpanded THEN {"field"} ELSE {})
  /\ focus' # focus
  /\ composing' = FALSE
  /\ UNCHANGED <<history, at, byUser, message, fate, taken>>

(* The round button of the closed dock.                                        *)
Expand ==
  /\ ~IsExpanded
  /\ Opens
  /\ UNCHANGED <<history, at, message, fate, taken>>

(* Writing in the field: a letter, a blank, or anything else replaced.         *)
Change ==
  /\ focus = "field"
  /\ \/ AddsLetter
     \/ AddsBlank
     \/ \E m \in {Empty, Blank} \union NextDrafts: Holds(m)
  /\ composing' \in BOOLEAN
  /\ UNCHANGED <<history, at, byUser, focus, taken>>

\* Fault: a press outside empties the field, as Escape does.
PressOutsideEmpties ==
  /\ byUser' = FALSE
  /\ message' = Empty
  /\ composing' = FALSE
  /\ focus' \in {"page", "control"}
  /\ UNCHANGED <<history, at, fate, taken>>

(* A press outside the dock closes it if the user has opened it; a field that  *)
(* is no longer drawn loses the focus.                                         *)
PressOutside ==
  /\ byUser' = FALSE
  /\ composing' = FALSE
  /\ focus' \in {"page", "control"}
  /\ UNCHANGED <<history, at, message, fate, taken>>

(* Escape in the field: closed and emptied.                                    *)
Reset ==
  /\ focus = "field"
  /\ byUser' = FALSE
  /\ Holds(Empty)
  /\ composing' = FALSE
  /\ focus' = IF IsChatActive THEN "field" ELSE "page"
  /\ UNCHANGED <<history, at, taken>>

(* The history forgets what was ahead.                                         *)
Push(page, question) ==
  /\ at < MaxHistory
  /\ history' = Append(SubSeq(history, 1, at), [page |-> page, question |-> question])
  /\ at' = at + 1

(* Enter in the field, unless it ends a composition, or the button beside it.  *)
Submits == CanSubmit /\ IsExpanded /\ ~composing
Becomes(f) == fate' = [fate EXCEPT ![message] = f]

(* On a chat screen there is nowhere to go yet: the field is emptied.          *)
SubmitOnChat ==
  /\ Submits
  /\ IsChatActive
  /\ message' = Empty
  /\ focus' = "field"
  /\ Becomes("emptied")
  /\ UNCHANGED <<history, at, byUser, composing, taken>>

\* Fault: the field is not emptied.
SubmitAndKeep ==
  /\ Submits
  /\ ~IsChatActive
  /\ Push("chat", message)
  /\ byUser' = FALSE
  /\ Becomes("asked")
  /\ UNCHANGED <<message, composing, focus, taken>>

\* Fault: taken to the chat screen from the chat screen, too.
SubmitAnywhere ==
  /\ Submits
  /\ Push("chat", message)
  /\ message' = Empty
  /\ byUser' = FALSE
  /\ Becomes("asked")
  /\ UNCHANGED <<composing, focus, taken>>

(* Elsewhere the question is taken to the chat screen.                         *)
SubmitElsewhere ==
  /\ Submits
  /\ ~IsChatActive
  /\ Push("chat", message)
  /\ message' = Empty
  /\ byUser' = FALSE
  /\ Becomes("asked")
  /\ UNCHANGED <<composing, focus, taken>>

(* A screen that is left by a link or a button; the field of a dock that is    *)
(* not drawn there loses the focus.                                            *)
Stays == UNCHANGED <<byUser, message, fate, taken>>
Arrives(page) ==
  /\ composing' = FALSE
  /\ focus' = IF focus = "field" /\ page \notin ChatPages /\ ~byUser THEN "page" ELSE focus

NavigateToHome == Page # "home" /\ Push("home", Empty) /\ Arrives("home") /\ Stays
NavigateToExplore == ~IsChatActive /\ Push("chat", Empty) /\ Arrives("chat") /\ Stays
NavigateToChatSession == IsChatActive /\ Push("session", Empty) /\ Arrives("session") /\ Stays
NavigateToOther == Push("other", Empty) /\ Arrives("other") /\ Stays

(* A new chat takes the place of the one on screen.                            *)
NavigateToNewChat ==
  /\ IsChatActive
  /\ history' = [history EXCEPT ![at] = [page |-> "chat", question |-> Empty]]
  /\ Arrives("chat")
  /\ Stays
  /\ UNCHANGED at

(* Back and forward.                                                           *)
Traverse ==
  /\ at' \in {at - 1, at + 1} \intersect (1..Len(history))
  /\ Arrives(history[at'].page)
  /\ Stays
  /\ UNCHANGED history

(* The browser keeps an entry's state when the page is loaded again.           *)
Reload ==
  /\ Holds(Empty)
  /\ byUser' = FALSE
  /\ composing' = FALSE
  /\ focus' = "page"
  /\ UNCHANGED <<history, at, taken>>

Navigate == \/ NavigateToHome \/ NavigateToExplore \/ NavigateToChatSession
            \/ NavigateToOther \/ NavigateToNewChat \/ Traverse \/ Reload

Next == \/ TypeLetter \/ TypeBlank \/ TypeComposed \/ MoveFocus \/ Expand \/ Change
        \/ PressOutside \/ Reset \/ SubmitOnChat \/ SubmitElsewhere \/ Navigate

Spec == Init /\ [][Next]_vars
-----------------------------------------------------------------------------
(* The types of the variables.                                                 *)
TypeOK ==
  /\ history \in Seq(Entry)
  /\ Len(history) \in 1..MaxHistory
  /\ at \in 1..Len(history)
  /\ byUser \in BOOLEAN
  /\ message \in Message
  /\ composing \in BOOLEAN
  /\ focus \in {"page", "control", "field"}
  /\ fate \in [Drafts -> Fates]
  /\ taken \in BOOLEAN

(* useWorkspaceDock: what is being written is kept over presses outside, other *)
(* screens, and Back; it leaves the field by the user's hand alone.            *)
KeptWhileWritten == \A d \in Drafts: fate[d] = "writing" <=> message = d

(* A question is asked once: a second Enter or press finds an empty field, and *)
(* no two entries of the history, nor one of them and the field, hold it.      *)
AskedOnce ==
  /\ \A i, j \in 1..Len(history):
       history[i].question # Empty /\ history[i].question = history[j].question => i = j
  /\ \A i \in 1..Len(history): history[i].question # Empty => history[i].question # message

(* useNavigateToChat: Back leads from a question to the screen that it was     *)
(* asked on, which is none of the chat screens.                                *)
BackToWhereItWasAsked ==
  \A i \in 1..Len(history): history[i].question # Empty =>
    /\ history[i].page = "chat"
    /\ i > 1
    /\ history[i - 1].page \notin ChatPages

(* WorkspaceDock's comment: wherever the user was, the question is taken along *)
(* to the chat screen.                                                         *)
QuestionIsTaken == \A d \in Drafts: fate[d] # "emptied"

(* useTypeToStartChat's comment: the keys it leaves alone are chosen so that   *)
(* it takes no key from another control.                                       *)
ControlsKeepTheirKeys == ~taken
=============================================================================
