-------------------------- MODULE DocumentProduction --------------------------
(***************************************************************************)
(* What the generation pipeline promises to the members of a workspace,     *)
(* without attempts, leases, threads or sweeps: an accepted recording is    *)
(* classified once, each topic of that answer ends in one document or one   *)
(* failure, a failure can be taken up again a bounded number of times, and  *)
(* the input is given up only when nothing can come of it any more.         *)
(* DocumentGeneration implements it (see Production there).                 *)
(***************************************************************************)
EXTENDS Naturals

CONSTANTS Recordings, Topics, Classification, MaxUserRetries

Tasks == Topics \cup {Classification}

VARIABLES
    alive,    \* the workspace has not been deleted
    outcome,  \* outcome[r][x]: what became of the classification or a topic
    retries,  \* retries[r][x]: how often a member took a failure up again
    topics,   \* topics[r]: the registered topics
    input     \* input[r]: the transcript

promises == <<alive, outcome, retries, topics, input>>

Outcome == {"NONE", "OPEN", "DONE", "FAILED", "GONE"}

Init ==
    /\ alive = TRUE
    /\ outcome = [r \in Recordings |-> [x \in Tasks |-> "NONE"]]
    /\ retries = [r \in Recordings |-> [x \in Tasks |-> 0]]
    /\ topics = [r \in Recordings |-> {}]
    /\ input = [r \in Recordings |-> "NONE"]

Accept(r) ==
    /\ alive
    /\ input[r] = "NONE"
    /\ input' = [input EXCEPT ![r] = "HELD"]
    /\ \/ outcome' = [outcome EXCEPT ![r][Classification] = "OPEN"]
       \/ UNCHANGED outcome    \* nothing to classify
    /\ UNCHANGED <<alive, retries, topics>>

Classify(r, answer) ==
    /\ alive
    /\ outcome[r][Classification] = "OPEN"
    /\ topics' = [topics EXCEPT ![r] = answer]
    /\ outcome' = [outcome EXCEPT ![r] =
          [x \in Tasks |-> IF x = Classification THEN "DONE"
                           ELSE IF x \in answer THEN "OPEN" ELSE "NONE"]]
    /\ UNCHANGED <<alive, retries, input>>

Produce(r, t) ==
    /\ alive
    /\ outcome[r][t] = "OPEN"
    /\ outcome' = [outcome EXCEPT ![r][t] = "DONE"]
    /\ UNCHANGED <<alive, retries, topics, input>>

GiveUp(r, x) ==
    /\ outcome[r][x] = "OPEN"
    /\ outcome' = [outcome EXCEPT ![r][x] = "FAILED"]
    /\ UNCHANGED <<alive, retries, topics, input>>

TakeUpAgain(r, x) ==
    /\ alive
    /\ outcome[r][x] = "FAILED"
    /\ retries[r][x] < MaxUserRetries
    /\ outcome' = [outcome EXCEPT ![r][x] = "OPEN"]
    /\ retries' = [retries EXCEPT ![r][x] = @ + 1]
    /\ UNCHANGED <<alive, topics, input>>

\* Failures are forgotten; with the last of them, if no document was produced,
\* the input goes too, and the classification that needed it.
Forget(r, doomed) ==
    /\ \A x \in doomed : outcome[r][x] = "FAILED"
    /\ outcome' = [outcome EXCEPT ![r] = [x \in Tasks |-> IF x \in doomed THEN "GONE" ELSE @[x]]]
    /\ retries' = [retries EXCEPT ![r] = [x \in Tasks |-> IF x \in doomed THEN 0 ELSE @[x]]]
    /\ UNCHANGED <<alive, topics, input>>

GiveUpInput(r) ==
    LET kept == {x \in Tasks : outcome[r][x] \notin {"NONE", "GONE", "FAILED"}}
    IN  /\ input[r] = "HELD"
        /\ kept \subseteq {Classification}
        /\ outcome[r][Classification] # "OPEN"
        /\ input' = [input EXCEPT ![r] = "DELETED"]
        /\ outcome' = [outcome EXCEPT ![r] =
              [x \in Tasks |-> IF @[x] = "NONE" THEN "NONE" ELSE "GONE"]]
        /\ retries' = [retries EXCEPT ![r] = [x \in Tasks |-> 0]]
        /\ UNCHANGED <<alive, topics>>

DeleteWorkspace ==
    /\ alive
    /\ alive' = FALSE
    /\ UNCHANGED <<outcome, retries, topics, input>>

\* One of the three ways in which an open task ends.
Resolve(r, x) ==
    \/ x = Classification /\ \E answer \in SUBSET Topics : Classify(r, answer)
    \/ x # Classification /\ Produce(r, x)
    \/ GiveUp(r, x)

Next ==
    \/ \E r \in Recordings :
          \/ Accept(r)
          \/ \E x \in Tasks : Resolve(r, x) \/ TakeUpAgain(r, x)
          \/ \E doomed \in SUBSET Tasks : Forget(r, doomed)
          \/ GiveUpInput(r)
    \/ DeleteWorkspace

Spec == Init /\ [][Next]_promises

\* Nothing stays open for ever.
FairSpec == Spec /\ \A r \in Recordings, x \in Tasks : WF_promises(Resolve(r, x))
=============================================================================
