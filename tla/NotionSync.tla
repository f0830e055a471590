----------------------------- MODULE NotionSync -----------------------------
(* The card on a workspace's home that imports its Notion pages: it starts an *)
(* import, asks for its state every second, and shows the result for a while. *)
(* One card, which may be left and entered again; the imports are the server's*)
(* and go on without it. Notion's side of the server is external.             *)
EXTENDS Integers, FiniteSets

CONSTANTS
  MaxRuns,      \* bound: imports of the workspace
  MaxFailures   \* bound: requests that fail, the query client's own retries included

SyncAssumption == MaxRuns \in Nat /\ MaxFailures \in Nat

VARIABLES
  runs,         \* the server: what became of each import
  mounted,      \* is the card on screen
  importRunId,  \* the import the card asks about, or NoRun
  isStartFailed,
  start,        \* the request to start one: none, under way, or answered with its id
  cache,        \* the query client: the state of each import's query
  fetching,     \* imports whose state is being asked for
  timer,        \* does the timer that ends a result run
  failures,     \* requests that have failed
  accepted      \* recorded for the properties: the import that was started or
                \* joined, until its result or a failed request is shown

vars == <<runs, mounted, importRunId, isStartFailed, start, cache, fetching, timer,
          failures, accepted>>
serverVars == <<runs, failures>>

Runs == 1..MaxRuns
NoRun == 0
RunStates == {"none", "running", "completed", "failed"}
Ended == {"completed", "failed"}
NoStart == [state |-> "none", id |-> NoRun]
Starts == [state: {"none", "sent", "answered"}, id: Runs \union {NoRun}]
Query == [status: {"pending", "success", "error"}, data: RunStates]

Init ==
  /\ runs = [r \in Runs |-> "none"]
  /\ mounted = TRUE
  /\ importRunId = NoRun
  /\ isStartFailed = FALSE
  /\ start = NoStart
  /\ cache = [r \in Runs |-> [status |-> "pending", data |-> "none"]]
  /\ fetching = {}
  /\ timer = FALSE
  /\ failures = 0
  /\ accepted = NoRun

(* What the card knows of the import that it asks about.                       *)
Status == IF importRunId = NoRun THEN "none" ELSE cache[importRunId].data
IsStatusError == importRunId # NoRun /\ cache[importRunId].status = "error"
IsStarting == start.state # "none"
IsSynced == Status = "completed"
IsSyncFailed == isStartFailed \/ IsStatusError \/ Status = "failed"
IsSyncing == IsStarting \/ (importRunId # NoRun /\ ~IsSynced /\ ~IsSyncFailed)
HasResult == isStartFailed \/ IsStatusError \/ Status \in Ended

(* The effect on the result: its timer is stopped and set again when one of    *)
(* the values that it depends on has changed.                                  *)
\* Fault: a dependency is missing.
DependenciesWithoutError == <<isStartFailed, Status>>
Dependencies == <<isStartFailed, IsStatusError, Status>>
Effects == timer' = IF Dependencies' = Dependencies THEN timer ELSE HasResult'

(* The query asks at once for an import that the card turns to, unless it is   *)
(* being asked for already.                                                    *)
Asks(r) == fetching' = IF r = importRunId THEN fetching ELSE fetching \union {r}

(* "Sync now", which is a spinner or "done" while it may not be pressed.       *)
StartSync ==
  /\ mounted
  /\ ~IsSyncing
  /\ ~IsSynced
  /\ start' = [state |-> "sent", id |-> NoRun]
  /\ isStartFailed' = FALSE
  /\ UNCHANGED <<serverVars, mounted, importRunId, cache, fetching, accepted>>
  /\ Effects

(* 202 with a new import's id, or 409 with that of the one that is running.    *)
Running == {r \in Runs : runs[r] = "running"}
New == {r \in Runs : runs[r] = "none" /\ \A q \in 1..(r - 1): runs[q] # "none"}
StartedOr(r) == [runs EXCEPT ![r] = "running"]

ServerStarts ==
  /\ start.state = "sent"
  /\ \E r \in IF Running # {} THEN Running ELSE New:
       /\ runs' = StartedOr(r)
       /\ start' = [state |-> "answered", id |-> r]
  /\ UNCHANGED <<mounted, importRunId, isStartFailed, cache, fetching, timer, failures, accepted>>

(* onSuccess: the card turns to the import.                                    *)
StartSucceeds ==
  /\ start.state = "answered"
  /\ start' = NoStart
  /\ importRunId' = start.id
  /\ Asks(start.id)
  /\ accepted' = start.id
  /\ UNCHANGED <<serverVars, mounted, isStartFailed, cache>>
  /\ Effects

(* onError: refused, or the answer is lost. Past the bound, starts are refused. *)
HasNoMoreRuns == start.state = "sent" /\ Running \union New = {}
StartFails ==
  /\ IsStarting
  /\ failures < MaxFailures \/ HasNoMoreRuns
  /\ failures' = IF HasNoMoreRuns THEN failures ELSE failures + 1
  /\ start' = NoStart
  /\ isStartFailed' = TRUE
  /\ UNCHANGED <<runs, mounted, importRunId, cache, fetching, accepted>>
  /\ Effects

(* A second has passed: asked again unless the last request failed, or the     *)
(* import has ended.                                                           *)
\* Fault: the condition is turned round.
PollsEnded(r) == cache[r].data \in Ended
Polls(r) == cache[r].status # "error" /\ cache[r].data \notin Ended

Poll ==
  /\ mounted
  /\ importRunId \notin fetching \union {NoRun}
  /\ Polls(importRunId)
  /\ fetching' = fetching \union {importRunId}
  /\ UNCHANGED <<serverVars, mounted, importRunId, isStartFailed, start, cache, timer, accepted>>

(* The window gets the focus: what is on screen is asked for again.            *)
Focus ==
  /\ mounted
  /\ importRunId \notin fetching \union {NoRun}
  /\ fetching' = fetching \union {importRunId}
  /\ UNCHANGED <<serverVars, mounted, importRunId, isStartFailed, start, cache, timer, accepted>>

Shows(r) == accepted' = IF accepted = r THEN NoRun ELSE accepted

\* Fault: the query's key does not name the import.
FetchSucceedsForAll(r) ==
  /\ r \in fetching
  /\ fetching' = fetching \ {r}
  /\ cache' = [q \in Runs |-> [status |-> "success", data |-> runs[r]]]
  /\ IF runs[r] \in Ended THEN Shows(r) ELSE UNCHANGED accepted
  /\ UNCHANGED <<serverVars, mounted, importRunId, isStartFailed, start>>
  /\ Effects

FetchSucceeds(r) ==
  /\ r \in fetching
  /\ fetching' = fetching \ {r}
  /\ cache' = [cache EXCEPT ![r] = [status |-> "success", data |-> runs[r]]]
  /\ IF runs[r] \in Ended THEN Shows(r) ELSE UNCHANGED accepted
  /\ UNCHANGED <<serverVars, mounted, importRunId, isStartFailed, start>>
  /\ Effects

(* What was received before stays beside the error.                            *)
FetchFails(r) ==
  /\ r \in fetching
  /\ failures < MaxFailures
  /\ failures' = failures + 1
  /\ fetching' = fetching \ {r}
  /\ cache' = [cache EXCEPT ![r].status = "error"]
  /\ Shows(r)
  /\ UNCHANGED <<runs, mounted, importRunId, isStartFailed, start>>
  /\ Effects

\* Fault: a start that has failed is not forgotten.
ResetImportOnly ==
  /\ timer
  /\ importRunId' = NoRun
  /\ UNCHANGED <<serverVars, mounted, isStartFailed, start, cache, fetching, accepted>>
  /\ Effects

(* SYNC_RESULT_RESET_DELAY_MS have passed: back to the beginning.              *)
ResetResult ==
  /\ timer
  /\ importRunId' = NoRun
  /\ isStartFailed' = FALSE
  /\ UNCHANGED <<serverVars, mounted, start, cache, fetching, accepted>>
  /\ Effects

(* The home is left: the card, its timer and its callbacks go; what was asked  *)
(* for is answered nevertheless.                                               *)
Unmount ==
  /\ mounted
  /\ mounted' = FALSE
  /\ importRunId' = NoRun
  /\ isStartFailed' = FALSE
  /\ start' = NoStart
  /\ runs' \in {runs} \union
       IF start.state = "sent" /\ Running = {} THEN {StartedOr(r) : r \in New} ELSE {}
  /\ timer' = FALSE
  /\ accepted' = NoRun
  /\ UNCHANGED <<cache, fetching, failures>>

Mount ==
  /\ ~mounted
  /\ mounted' = TRUE
  /\ UNCHANGED <<serverVars, importRunId, isStartFailed, start, cache, fetching, timer, accepted>>

RunEnds(r) ==
  /\ runs[r] = "running"
  /\ \E state \in Ended: runs' = [runs EXCEPT ![r] = state]
  /\ UNCHANGED <<mounted, importRunId, isStartFailed, start, cache, fetching, timer, failures, accepted>>

Next ==
  \/ StartSync \/ ServerStarts \/ StartSucceeds \/ StartFails
  \/ Poll \/ Focus
  \/ \E r \in Runs: FetchSucceeds(r) \/ FetchFails(r) \/ RunEnds(r)
  \/ ResetResult
  \/ Unmount \/ Mount

(* Timers fire, requests are answered or fail, and imports end.                *)
Fairness ==
  /\ WF_vars(ServerStarts) /\ WF_vars(StartSucceeds \/ StartFails)
  /\ WF_vars(Poll) /\ WF_vars(ResetResult)
  /\ \A r \in Runs: WF_vars(FetchSucceeds(r) \/ FetchFails(r)) /\ WF_vars(RunEnds(r))

Spec == Init /\ [][Next]_vars /\ Fairness
-----------------------------------------------------------------------------
(* The types of the variables.                                                 *)
TypeOK ==
  /\ runs \in [Runs -> RunStates]
  /\ mounted \in BOOLEAN
  /\ importRunId \in Runs \union {NoRun}
  /\ isStartFailed \in BOOLEAN
  /\ start \in Starts
  /\ cache \in [Runs -> Query]
  /\ fetching \subseteq Runs
  /\ timer \in BOOLEAN
  /\ failures \in 0..MaxFailures
  /\ accepted \in Runs \union {NoRun}

(* useNotionSync: "done" and a reason for a failure are those of the import    *)
(* that the card asked about, and it has ended that way.                       *)
ResultIsTrue ==
  /\ IsSynced => runs[importRunId] = "completed"
  /\ Status = "failed" => runs[importRunId] = "failed"

(* useNotionSync: a result on screen has its timer, which nothing stops while  *)
(* the result stays: it gives way to the beginning.                            *)
ResultHasItsTimer == HasResult => timer
ResultEnds == HasResult ~> ~HasResult

(* useNotionSync: syncing comes to an end: with a result, a failure or the     *)
(* card left, though answers are lost and the import ends unseen.              *)
SyncingEnds == IsSyncing ~> ~IsSyncing

(* startNotionImportApi's comment: an import that is running already is        *)
(* followed under its own id, as one that was started now.                     *)
AcceptedIsTracked == accepted # NoRun => importRunId = accepted
=============================================================================
