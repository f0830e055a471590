------------------------------ MODULE Scripts ------------------------------
(* The scripts of the frontend: CommitScript and DocumentScripts, side by      *)
(* side.  They share ClaudeSession and nothing else, so a behaviour is one of  *)
(* the commit script or one of runs of the document scripts.                   *)
EXTENDS Integers, Sequences, ClaudeSession

CONSTANTS
    Paths, Contents, Starts, Branches, Messages,        \* CommitScript
    MaxRounds, MaxLines, MaxEdits,
    Runs, Script, Overlap, Days, Commits, Repos, Files, Endings,  \* DocumentScripts
    Situations      \* what a behaviour may be about, by name: the script, and
                    \* what starts and steps may be                    (bounds)

VARIABLES
    situation,
    git, made, pushed, commitPc, commitOpts, changes, proposal, approved, round, approvedIn,
    typed, lines, commitExit, said, edits,
    repo, changed, review, html, pr, links, gists, pc, opts, base, targets, outcome, exit

Committing == INSTANCE CommitScript WITH pc <- commitPc, opts <- commitOpts, exit <- commitExit
Documents == INSTANCE DocumentScripts

ASSUME ScriptsAssumption ==
    Committing!CommitScriptAssumption /\ Documents!DocumentScriptsAssumption

commitVars ==
    <<git, made, pushed, commitPc, commitOpts, changes, proposal, approved, round, approvedIn,
      typed, lines, commitExit, said, edits>>
documentVars ==
    <<repo, changed, review, html, pr, links, gists, pc, opts, base, targets, outcome, exit>>
vars == <<situation, commitVars, documentVars>>

-----------------------------------------------------------------------------
(* The bounds of a situation *)

Within == Situations[situation]

StartsWithin ==
    /\ git \in Within.starts /\ Committing!Init
    /\ repo \in Within.repos
    /\ changed \in SUBSET Within.files
    /\ review \in Within.left.review /\ pr \in Within.left.pr
    /\ html \in {h \in [Days -> Within.left.html] : \A d \in Days \ Within.days : h[d] = "none"}
    /\ Documents!Init
    /\ \A d \in Days \ Within.days : links.local[d] = 0

CommitsWithin ==
    /\ Committing!Next
    /\ commitPc = "claude" => round < Within.rounds
    /\ lines' <= Within.lines /\ edits' <= Within.edits
    /\ commitPc' \in {"start", "git", "done"} \/ commitOpts'.protected \in Within.protected
DocumentsWithin ==
    /\ Documents!Next
    /\ \A r \in Runs \ Within.runs : pc'[r] = "start"
    /\ \A r \in Within.runs : pc'[r] \in {"start", "done"} \/ opts'[r].day \in Within.days

Init ==
    /\ situation \in DOMAIN Situations
    /\ StartsWithin

Next ==
    /\ UNCHANGED situation
    /\ \/ Within.script = "commit" /\ CommitsWithin /\ UNCHANGED documentVars
       \/ Within.script = "documents" /\ DocumentsWithin /\ UNCHANGED commitVars

Spec == Init /\ [][Next]_vars

-----------------------------------------------------------------------------
(* What the scripts promise.  Their modules say where the code does.           *)

TypeOK == Committing!TypeOK /\ Documents!TypeOK

\* Nothing of the repository changes but at the paths that were approved, the old names of
\* approved renames among them: what has meanwhile been put at such a path goes in unseen.
TouchesOnlyApproved == Committing!TouchesOnlyApproved

\* A run that ends well has committed all that was approved.
FinishedIsCommitted == Committing!FinishedIsCommitted

\* An unsound proposal is never committed.
ApprovedIsSound == Committing!ApprovedIsSound

\* What origin/develop has is not taken for the branch's own.
ComparesOwnCommits == Documents!ComparesOwnCommits

\* Every file that a reader of the branch would have to see is given to claude.
NothingLeftOut == Documents!NothingLeftOut

\* explain-diff, run on its own, succeeds with a page that its own session wrote.
ExplainsItself == Documents!ExplainsItself

\* A PR text that create-pr-content wrote and reports complete does not name the local path of
\* that day's page.
NoLocalPaths == Documents!NoLocalPaths

\* The commit script makes the commits that were approved; the document scripts compare with
\* the right commits and leave no change out; explain-diff ends with a page of its own, and
\* the PR text that create-pr-content wrote does not name that page's local path.  (Whose page
\* create-pr-content publishes, and whether a review is new, nobody makes sure of: see the end
\* of DocumentScripts.)
ScriptsAreSound ==
    /\ TypeOK
    /\ FinishedIsCommitted /\ ApprovedIsSound
    /\ ComparesOwnCommits /\ NothingLeftOut /\ ExplainsItself /\ NoLocalPaths
=============================================================================
