------------------------------ MODULE DockHint ------------------------------
(* The hint above the dock of a workspace: it tells how a chat is started, in *)
(* the first few visits. A visit is the life of a browser tab: what was       *)
(* decided for it is in the tab's sessionStorage, the number of visits that   *)
(* have shown the hint in the browser's localStorage, which all tabs share.   *)
EXTENDS Integers, FiniteSets

CONSTANTS
  Tabs,
  MaxSeen,      \* DOCK_HINT_MAX_SEEN_COUNT
  Storages,     \* what the browser's storage may do: "works", "full" or "blocked"
  MaxVisits     \* bound: visits of a behaviour

HintAssumption ==
  /\ MaxSeen \in Nat
  /\ Storages \subseteq {"works", "full", "blocked"}
  /\ MaxVisits \in Nat

VARIABLES
  storage,      \* which storage this browser has
  seen,         \* localStorage: visits that have shown the hint
  tab,          \* the tabs
  visits,       \* visits begun
  shown,        \* visits in which the hint has been on screen
  raced         \* (history) a tab read the count that another was about to write

vars == <<storage, seen, tab, visits, shown, raced>>

Decisions == {"none", "shown", "hidden"}
Phases == {"closed", "idle", "effect", "write"}

(* decision is the tab's sessionStorage. onChat, byUser and hint belong to the *)
(* mounted dock, decided is its hasDecidedRef, and count what an effect has    *)
(* read and not yet written. counted, saw and opened record, for the           *)
(* properties, what this visit has done.                                       *)
Tab == [phase: Phases, decision: Decisions, onChat: BOOLEAN, byUser: BOOLEAN,
        hint: BOOLEAN, decided: BOOLEAN, count: 0..MaxSeen,
        counted: 0..MaxVisits, saw: BOOLEAN, opened: BOOLEAN]

Closed == [phase |-> "closed", decision |-> "none", onChat |-> FALSE, byUser |-> FALSE,
           hint |-> FALSE, decided |-> FALSE, count |-> 0,
           counted |-> 0, saw |-> FALSE, opened |-> FALSE]

IsExpanded(d) == d.onChat \/ d.byUser

(* Reading and writing the two storages, whose failures are caught.            *)
ReadVisitDecision(d) == IF storage = "blocked" THEN "none" ELSE d.decision
ReadSeenCount == IF storage = "blocked" THEN MaxSeen ELSE seen
\* Fault: the decision is not kept for the visit.
DecidedNowhere(d, decision) == d.decision
Decided(d, decision) == IF storage = "works" THEN decision ELSE d.decision
\* Fault: the count is not written.
WrittenNowhere(n) == seen
WrittenCount(n) == IF storage = "works" THEN n ELSE seen

(* The dock is drawn: nothing has been decided in this mount.                  *)
Mounted(d, onChat) ==
  [d EXCEPT !.phase = "effect", !.onChat = onChat, !.byUser = FALSE,
            !.hint = FALSE, !.decided = FALSE]

Init ==
  /\ storage \in Storages
  /\ seen = 0
  /\ tab = [t \in Tabs |-> Closed]
  /\ visits = 0
  /\ shown = 0
  /\ raced = FALSE

Idle(t) == tab[t].phase = "idle"

(* A tab is opened at a screen of the workspace: a visit begins.               *)
Open(t, onChat) ==
  /\ tab[t].phase = "closed"
  /\ visits < MaxVisits
  /\ visits' = visits + 1
  /\ tab' = [tab EXCEPT ![t] = Mounted(Closed, onChat)]
  /\ UNCHANGED <<storage, seen, shown, raced>>

(* The tab is closed, and its sessionStorage goes with it.                     *)
Close(t) ==
  /\ Idle(t)
  /\ tab' = [tab EXCEPT ![t] = Closed]
  /\ UNCHANGED <<storage, seen, visits, shown, raced>>

(* The page is loaded again, or the workspace is left and entered again.       *)
Remount(t, onChat) ==
  /\ Idle(t)
  /\ tab' = [tab EXCEPT ![t] = Mounted(@, onChat)]
  /\ UNCHANGED <<storage, seen, visits, shown, raced>>

(* From one screen of the workspace to another: the dock stays mounted.        *)
Navigate(t) ==
  /\ Idle(t)
  /\ tab' = [tab EXCEPT ![t].onChat = ~@, ![t].phase = "effect"]
  /\ UNCHANGED <<storage, seen, visits, shown, raced>>

(* The user opens or closes the dock, on a screen that does not keep it open.  *)
Toggle(t) ==
  /\ Idle(t)
  /\ ~tab[t].onChat
  /\ tab' = [tab EXCEPT ![t].byUser = ~@, ![t].phase = "effect",
                        ![t].opened = @ \/ ~tab[t].byUser]
  /\ UNCHANGED <<storage, seen, visits, shown, raced>>

(* The effects of a change of isDockExpanded.                                  *)
\* Fault: without hasDecidedRef.
DecidingAgain(t) == tab[t].phase = "effect" /\ ~IsExpanded(tab[t])

Deciding(t) ==
  /\ tab[t].phase = "effect"
  /\ ~tab[t].decided
  /\ ~IsExpanded(tab[t])

\* Fault: without the effect that hides the hint.
DecideNothingMore(t) ==
  /\ tab[t].phase = "effect"
  /\ ~Deciding(t)
  /\ tab' = [tab EXCEPT ![t].phase = "idle"]
  /\ UNCHANGED <<storage, seen, visits, shown, raced>>

(* Decided before in this mount, or the dock is open, which hides the hint.    *)
DecideNothing(t) ==
  /\ tab[t].phase = "effect"
  /\ ~Deciding(t)
  /\ tab' = [tab EXCEPT ![t].phase = "idle", ![t].hint = @ /\ ~IsExpanded(tab[t])]
  /\ UNCHANGED <<storage, seen, visits, shown, raced>>

(* The first time the hint is on screen in a visit.                            *)
Seen(t, hint) == IF hint /\ ~tab[t].saw THEN shown + 1 ELSE shown

(* This visit has decided, before the page was drawn anew.                     *)
FollowDecision(t) ==
  /\ Deciding(t)
  /\ ReadVisitDecision(tab[t]) # "none"
  /\ LET hint == ReadVisitDecision(tab[t]) = "shown" IN
       /\ tab' = [tab EXCEPT ![t].phase = "idle", ![t].decided = TRUE,
                             ![t].hint = hint, ![t].saw = @ \/ hint]
       /\ shown' = Seen(t, hint)
  /\ UNCHANGED <<storage, seen, visits, raced>>

(* All visits that may show it have.                                           *)
HasSeenEnough(t) ==
  /\ Deciding(t)
  /\ ReadVisitDecision(tab[t]) = "none"
  /\ ReadSeenCount >= MaxSeen
  /\ tab' = [tab EXCEPT ![t].phase = "idle", ![t].decided = TRUE,
                        ![t].decision = Decided(tab[t], "hidden")]
  /\ UNCHANGED <<storage, seen, visits, shown, raced>>

(* Nothing keeps another tab from reading the count between this and the write. *)
ReadCount(t) ==
  /\ Deciding(t)
  /\ ReadVisitDecision(tab[t]) = "none"
  /\ ReadSeenCount < MaxSeen
  /\ tab' = [tab EXCEPT ![t].phase = "write", ![t].decided = TRUE,
                        ![t].count = ReadSeenCount]
  /\ raced' = (raced \/ \E u \in Tabs \ {t}: tab[u].phase = "write")
  /\ UNCHANGED <<storage, seen, visits, shown>>

(* The visit is counted, and its decision kept.                                *)
CountVisit(t) ==
  /\ tab[t].phase = "write"
  /\ seen' = WrittenCount(tab[t].count + 1)
  /\ tab' = [tab EXCEPT ![t] =
                [@ EXCEPT !.phase = "idle", !.count = 0, !.decision = Decided(tab[t], "shown"),
                          !.hint = TRUE, !.saw = TRUE,
                          !.counted = IF storage = "works" THEN tab[t].counted + 1
                                      ELSE tab[t].counted]]
  /\ shown' = Seen(t, TRUE)
  /\ UNCHANGED <<storage, visits, raced>>

Next ==
  \E t \in Tabs:
    \/ \E onChat \in BOOLEAN: Open(t, onChat) \/ Remount(t, onChat)
    \/ Close(t)
    \/ Navigate(t)
    \/ Toggle(t)
    \/ DecideNothing(t)
    \/ FollowDecision(t)
    \/ HasSeenEnough(t)
    \/ ReadCount(t)
    \/ CountVisit(t)

Spec == Init /\ [][Next]_vars
-----------------------------------------------------------------------------
(* The types of the variables: the stored count never passes its limit, even  *)
(* if tabs overwrite each other's counts.                                     *)
TypeOK ==
  /\ storage \in Storages
  /\ seen \in 0..MaxSeen
  /\ tab \in [Tabs -> Tab]
  /\ visits \in 0..MaxVisits
  /\ shown \in 0..MaxVisits
  /\ raced \in BOOLEAN
  /\ \A t \in Tabs: tab[t].phase = "write" => tab[t].count < MaxSeen

(* useDockHint: the hint is shown in at most MaxSeen visits, however often a  *)
(* visit loads its page again, changes its screen or opens the dock. The hook *)
(* keeps to that where a count that is written stays: not in a browser whose  *)
(* storage is full, nor over two tabs that decide at the same moment.         *)
HintLimit == storage # "full" /\ ~raced => shown <= MaxSeen

(* useDockHint: drawing the dock again within a visit does not use up another *)
(* of the visits in which it is shown.                                        *)
CountedOnce == \A t \in Tabs: tab[t].counted <= 1

(* The hint never stands above an open dock: the press that it asks for, or a *)
(* step to the chat screen, hides it.                                          *)
HintGoes == \A t \in Tabs: Idle(t) /\ tab[t].hint => ~IsExpanded(tab[t])

(* hasDecidedRef: while the dock is mounted, the hint appears once at most: it *)
(* does not come back when the dock is closed again.                           *)
StaysGone ==
  [][\A t \in Tabs:
       tab'[t].hint /\ ~tab[t].hint /\ tab[t].decided => tab[t].phase = "write"]_vars

(* useDockHint's comment: having opened the dock, the user has done what the  *)
(* hint asks for, and it is not shown again in this visit.                    *)
NotAgainInVisit ==
  [][\A t \in Tabs: tab[t].opened /\ tab'[t].opened => ~(tab'[t].hint /\ ~tab[t].hint)]_vars

(* useDockHint's comment: a browser whose storage cannot be used is not shown *)
(* the hint at all, as it would be shown it every time. That is so where it   *)
(* cannot be read; where it is full, every visit is shown the hint.           *)
NotWithoutStorage == storage # "works" => shown = 0
=============================================================================
