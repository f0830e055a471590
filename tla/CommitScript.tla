---------------------------- MODULE CommitScript ----------------------------
(***************************************************************************)
(* src/frontend/scripts/commit.mjs: claude proposes how to split the        *)
(* changes of the working tree into commits, the user approves in the       *)
(* terminal, and the script adds, commits and pushes.                       *)
(*                                                                          *)
(* git is the three trees HEAD, index and working tree over a few paths, as *)
(* the commands of the script read and write them.  The user types lines    *)
(* whenever they like, and may go on editing.                               *)
(***************************************************************************)
EXTENDS Integers, Sequences, FiniteSets, ClaudeSession

CONSTANTS
    Paths,
    Contents,       \* what a file may hold
    Starts,         \* the trees that a run may find: [head, index, tree]
    Branches,       \* what the branch may be: [protected, upstream]
    Messages,       \* whether a proposed message is empty: a set of BOOLEANs
    MaxRounds,      \* proposals                                       (bound)
    MaxLines,       \* lines typed                                     (bound)
    MaxEdits        \* edits while the script runs                     (bound)

None == "none"
Tree == [Paths -> Contents \cup {None}]
Opts == [push: BOOLEAN, protected: BOOLEAN, upstream: {None, "origin/branch", "other"}]

CommitScriptAssumption ==
    /\ None \notin Paths /\ None \notin Contents
    /\ Starts \subseteq [head: Tree, index: Tree, tree: Tree]
    /\ Branches \subseteq [protected: BOOLEAN, upstream: {None, "origin/branch", "other"}]
    /\ MaxRounds \in Nat /\ MaxLines \in Nat /\ MaxEdits \in Nat

VARIABLES
    git,        \* head, index, tree: what each path holds there
    made,       \* the commits made: the paths each changed
    pushed,     \* where the branch was pushed to, or None
    pc,
    opts,       \* --no-push, and what git tells of the branch
    changes,    \* what listChanges returned
    proposal,   \* the proposal under review
    approved,   \* the commits of the proposal that was approved
    round,      \* proposals received so far; approvedIn: when the line that
    approvedIn, \* approved was typed
    typed,      \* lines typed and not yet read, with their round
    lines,      \* lines typed so far
    exit,       \* exit code, or "none" while the script runs
    said,       \* what the closing report says of the push
    edits

trees == <<git, made, pushed>>
talk == <<proposal, approved, round, approvedIn>>
terminal == <<typed, lines>>
vars == <<trees, pc, opts, changes, talk, terminal, exit, said, edits>>

Change == [path: Paths, from: Paths \cup {None}]

TypeOK ==
    /\ git \in [head: Tree, index: Tree, tree: Tree]
    /\ made \in Seq(SUBSET Paths)
    /\ pushed \in {None, "origin/branch"}
    /\ pc \in {"start", "git", "claude", "ask", "add", "commit", "confirm", "push",
               "report", "done"}
    /\ opts \in Opts
    /\ changes \subseteq Change
    /\ proposal.commits \in Seq(SUBSET Change) /\ proposal.problems \in BOOLEAN
    /\ approved \in Seq(SUBSET Change)
    /\ round \in 0..MaxRounds /\ approvedIn \in 0..MaxRounds
    /\ typed \in Seq([line: {"y", "n", "", "text", "eof"}, round: 0..MaxRounds])
    /\ lines \in 0..MaxLines /\ edits \in 0..MaxEdits
    /\ exit \in EXIT \cup {None} /\ said \in {None, "pushed", "not pushed"}

Init ==
    /\ git \in Starts
    /\ made = <<>> /\ pushed = None /\ pc = "start"
    /\ opts = [push |-> TRUE, protected |-> FALSE, upstream |-> None]
    /\ changes = {} /\ proposal = [commits |-> <<>>, problems |-> FALSE]
    /\ approved = <<>> /\ round = 0 /\ approvedIn = 0
    /\ typed = <<>> /\ lines = 0
    /\ exit = None /\ said = None /\ edits = 0

Exit(code) == pc' = "done" /\ exit' = code
GoOn(to) == pc' = to /\ UNCHANGED exit

-----------------------------------------------------------------------------
(* git status *)

Added(p) == git.head[p] = None /\ git.index[p] # None
Removed(p) == git.head[p] # None /\ git.index[p] = None

\* A staged rename: a removed path's content under the name of an added one.
RenamedFrom(p) ==
    LET sources == {q \in Paths : Removed(q) /\ git.head[q] = git.index[p]}
        rivals == {r \in Paths : Added(r) /\ git.index[r] = git.index[p]}
    IN IF Added(p) /\ sources # {} /\ p = CHOOSE r \in rivals : TRUE
       THEN CHOOSE q \in sources : TRUE ELSE None

IsSource(q) == \E p \in Paths : RenamedFrom(p) = q

\* The entries of git status: a rename's source has one of its own only when
\* an untracked file took its name.
Listed == {p \in Paths : \/ git.tree[p] # git.index[p]
                         \/ git.index[p] # git.head[p] /\ ~IsSource(p)}
\* Fault: a change that is no rename gets an empty old name.
ListedWithEmpty == {[path |-> p, from |-> IF IsSource(p) THEN RenamedFrom(p) ELSE ""] : p \in Listed}
ListChanges == {[path |-> p, from |-> RenamedFrom(p)] : p \in Listed}

-----------------------------------------------------------------------------
(* Before the session *)

\* parseArgs, --help and a wrong option; checkClaudeCli, loadToken.
Start ==
    /\ pc = "start"
    /\ \/ \E code \in {"OK", "UNKNOWN", "CLI_MISSING", "TOKEN_MISSING"} : Exit(code)
          /\ UNCHANGED opts
       \/ \E push \in BOOLEAN : opts' = [opts EXCEPT !.push = push] /\ GoOn("git")
    /\ UNCHANGED <<trees, changes, talk, terminal, said, edits>>

\* The branch (none: detached HEAD), its upstream and the changes; a conflict
\* ends the run, and so does --dry-run.
ReadRepository ==
    /\ pc = "git"
    /\ changes' = ListChanges
    /\ \E b \in Branches :
          opts' = [opts EXCEPT !.protected = b.protected, !.upstream = b.upstream]
    /\ \/ Exit("GIT")
       \/ changes' = {} /\ Exit("NO_TARGET")
       \/ changes' # {} /\ (Exit("OK") \/ GoOn("claude"))
    /\ UNCHANGED <<trees, talk, terminal, said, edits>>

-----------------------------------------------------------------------------
(* The proposal *)

\* buildPolicy names the candidates: both names of a rename.
Candidates ==
    {c.path : c \in changes} \cup ({c.from : c \in changes} \ {None})

\* What claude may answer: names it was told of, and one it was not.
Proposals ==
    UNION {[1..n -> [names: SUBSET (Candidates \cup {"unknown"}), message: Messages]] : n \in 1..2}

\* changeByPath and normalizePath: an entry of its own comes before a rename's
\* source, since untracked files are listed last.
ChangeOf(name) ==
    IF \E c \in changes : c.path = name
    THEN {c \in changes : c.path = name}
    ELSE {c \in changes : c.from = name}

FilesOf(commit) == UNION {ChangeOf(n) : n \in commit.names}

\* Fault: compares the names within a commit only.
NamedTwiceInOne(p) ==
    \E i \in DOMAIN p : \E m, n \in p[i].names :
        m # n /\ ChangeOf(m) # {} /\ ChangeOf(m) = ChangeOf(n)
\* Each change goes to one commit, by one of its names.
NamedTwice(p) ==
    \E i, j \in DOMAIN p : \E m \in p[i].names, n \in p[j].names :
        <<i, m>> # <<j, n>> /\ ChangeOf(m) # {} /\ ChangeOf(m) = ChangeOf(n)

\* validateProposal.  Of a proposal that has problems only that is kept.
Validated(p) ==
    LET problems == \/ \E i \in DOMAIN p : \E n \in p[i].names : ChangeOf(n) = {}
                    \/ NamedTwice(p)
                    \/ \E i \in DOMAIN p : FilesOf(p[i]) = {} \/ ~p[i].message
    IN [problems |-> problems,
        commits |-> IF problems THEN <<>> ELSE [i \in DOMAIN p |-> FilesOf(p[i])]]

\* A session without a structured answer ends the run, one without a failure
\* to name included.
SessionFails ==
    \E code \in {ClassifyFailure(o) : o \in Outcomes} : Exit(IF code = "OK" THEN "UNKNOWN" ELSE code)

\* runClaude: no session writes to the repository.
Claude ==
    /\ pc = "claude" /\ round < MaxRounds
    /\ \/ SessionFails /\ UNCHANGED <<proposal, round>>
       \/ /\ \E p \in Proposals : proposal' = Validated(p)
          /\ round' = round + 1
          /\ GoOn("ask")
    /\ UNCHANGED <<trees, opts, changes, approved, approvedIn, terminal, said, edits>>

-----------------------------------------------------------------------------
(* The terminal *)

\* A line is typed: at a question, or ahead of it.  The end of the input is
\* the last one.
Type(line) ==
    /\ pc \notin {"start", "done"} /\ lines < MaxLines
    /\ \A i \in DOMAIN typed : typed[i].line # "eof"
    /\ typed' = Append(typed, [line |-> line, round |-> round])
    /\ lines' = lines + 1
    /\ UNCHANGED <<trees, pc, opts, changes, talk, exit, said, edits>>

\* ask: takes the first line; the end of the input stays.
Asked(line) ==
    /\ typed # <<>>
    /\ line = Head(typed)
    /\ typed' = IF line.line = "eof" THEN typed ELSE Tail(typed)
    /\ UNCHANGED lines

Cancels(line) ==
    \/ line \in {"n", "eof"}
    \/ line = "" /\ ~proposal.problems
Approves(line) == line = "y" /\ ~proposal.problems

\* The answer: no, yes, or a wish that goes to claude with the problems found.
Ask ==
    /\ pc = "ask"
    /\ \E line \in {typed[i] : i \in DOMAIN typed} :
        /\ Asked(line)
        /\ \/ Cancels(line.line) /\ Exit("CANCELLED") /\ UNCHANGED <<approved, approvedIn>>
           \/ /\ Approves(line.line)
              /\ approved' = proposal.commits /\ approvedIn' = line.round
              /\ GoOn("add")
           \/ /\ ~Cancels(line.line) /\ ~Approves(line.line)
              /\ GoOn("claude") /\ UNCHANGED <<approved, approvedIn>>
    /\ UNCHANGED <<trees, opts, changes, proposal, round, said, edits>>

\* Ctrl+C, once the terminal is read.
Interrupt ==
    /\ pc \in {"ask", "confirm", "claude"}
    /\ pc = "claude" => round > 0
    /\ Exit("CANCELLED")
    /\ UNCHANGED <<trees, opts, changes, talk, terminal, said, edits>>

-----------------------------------------------------------------------------
(* git add, git commit *)

\* Fault: leaves a rename's source out.
PathspecOfPaths(files) == {c.path : c \in files}
CommitPathspec(files) == {c.path : c \in files} \cup ({c.from : c \in files} \ {None})

Current == CommitPathspec(approved[Len(made) + 1])

\* git add refuses a path that neither the index nor the working tree has.
Matches(p) == git.index[p] # None \/ git.tree[p] # None

\* The working tree of these paths, over what the tree t has.
Taken(t, paths) == [p \in Paths |-> IF p \in paths THEN git.tree[p] ELSE t[p]]

Add ==
    /\ pc = "add"
    /\ \/ Exit("GIT") /\ UNCHANGED git
       \/ /\ \A p \in Current : Matches(p)
          /\ git' = [git EXCEPT !.index = Taken(@, Current)]
          /\ GoOn("commit")
    /\ UNCHANGED <<made, pushed, opts, changes, talk, terminal, said, edits>>

\* Fault: git commit without --only.
CommittedIndex(paths) == git.index
\* git commit --only
Committed(paths) == Taken(git.head, paths)

AfterCommits(n) ==
    CASE n < Len(approved) -> "add"
      [] n = Len(approved) /\ ~opts.push -> "report"
      [] n = Len(approved) /\ opts.push -> IF opts.protected THEN "confirm" ELSE "push"

\* git refuses a path it does not know and an empty commit; a hook may refuse
\* any other.
Commit ==
    LET head == Committed(Current) IN
    /\ pc = "commit"
    /\ \/ Exit("GIT") /\ UNCHANGED <<git, made>>
       \/ /\ \A p \in Current : git.index[p] # None \/ git.head[p] # None
          /\ head # git.head
          /\ git' = [git EXCEPT !.head = head, !.index = Taken(@, Current)]
          /\ made' = Append(made, {p \in Paths : head[p] # git.head[p]})
          /\ GoOn(AfterCommits(Len(made) + 1))
    /\ UNCHANGED <<pushed, opts, changes, talk, terminal, said, edits>>

-----------------------------------------------------------------------------
(* git push, and the end *)

\* A protected branch asks once more.
Confirm ==
    /\ pc = "confirm"
    /\ \E line \in {typed[i] : i \in DOMAIN typed} :
          Asked(line) /\ GoOn(IF line.line = "y" THEN "push" ELSE "report")
    /\ UNCHANGED <<trees, opts, changes, talk, said, edits>>

\* pushBranch names the remote and the branch, whatever the upstream is.
Push ==
    /\ pc = "push"
    /\ \/ Exit("PUSH_FAILED") /\ UNCHANGED pushed
       \/ pushed' = "origin/branch" /\ GoOn("report")
    /\ UNCHANGED <<git, made, opts, changes, talk, terminal, said, edits>>

Report ==
    /\ pc = "report"
    /\ said' = IF opts.push THEN "pushed" ELSE "not pushed"
    /\ Exit("OK")
    /\ UNCHANGED <<trees, opts, changes, talk, terminal, edits>>

\* printProposal: the branch that the push goes to, as the user is told.
PushTarget == IF opts.upstream = None THEN "origin/branch" ELSE opts.upstream

\* The user edits, creates or deletes a file meanwhile.
Edit(p, content) ==
    /\ pc \notin {"start", "done"} /\ edits < MaxEdits
    /\ git.tree[p] # content
    /\ git' = [git EXCEPT !.tree[p] = content]
    /\ edits' = edits + 1
    /\ UNCHANGED <<made, pushed, pc, opts, changes, talk, terminal, exit, said>>

Next ==
    \/ Start \/ ReadRepository \/ Claude \/ Ask \/ Interrupt
    \/ Add \/ Commit \/ Confirm \/ Push \/ Report
    \/ \E line \in {"y", "n", "", "text", "eof"} : Type(line)
    \/ \E p \in Paths, content \in Contents \cup {None} : Edit(p, content)

Spec == Init /\ [][Next]_vars

-----------------------------------------------------------------------------
(* Properties *)

PathspecOf(commits) == UNION {CommitPathspec(commits[i]) : i \in DOMAIN commits}

\* Nothing of the repository changes but what was approved: a commit changes
\* its own paths in HEAD, and the index of other paths stays as the user left
\* it.  (executeCommits: add, then commit --only.)
TouchesOnlyApproved ==
    [][\A p \in Paths :
          /\ git'.index[p] # git.index[p] => p \in PathspecOf(approved)
          /\ git'.head[p] # git.head[p] =>
                /\ Len(made') = Len(made) + 1
                /\ p \in CommitPathspec(approved[Len(made')])]_vars

\* A run that ends well has committed all that was approved: no change of it is
\* left behind, not the removal of a renamed file's old name either.
FinishedIsCommitted ==
    exit = "OK" /\ edits = 0 =>
        \A i \in DOMAIN approved : \A c \in approved[i] : \A p \in {c.path, c.from} \ {None} :
            git.head[p] = git.tree[p] /\ git.index[p] = git.tree[p]

\* A proposal that names a file twice, names one that was not changed or leaves
\* a commit empty is never committed: each approved change is one that was
\* listed, in one commit.  (validateProposal, the answers to it.)
ApprovedIsSound ==
    /\ \A i \in DOMAIN approved : approved[i] # {} /\ approved[i] \subseteq changes
    /\ \A i, j \in DOMAIN approved : i # j => approved[i] \cap approved[j] = {}

-----------------------------------------------------------------------------
(* What the script says of itself, and does not do *)

\* buildPolicy: staged files are candidates and added again.  A staged rename
\* or removal matches nothing any more, and git add refuses it.
StagedCanBeAdded == pc = "add" /\ edits = 0 => \A p \in Current : Matches(p)

\* printProposal and executeCommits: a change that is in no commit stays as it
\* is.  A new file under a renamed one's old name is committed with it.
LeftoverStays ==
    \A c \in changes : edits = 0 /\ (\A i \in DOMAIN approved : c \notin approved[i])
        => \A i \in DOMAIN made : c.path \notin made[i]

\* The closing report says that the branch was pushed when it was.
ReportIsTrue == said = "pushed" => pushed # None

\* The branch that is pushed is the one that was shown for approval.
PushesWhatWasShown == pushed # None => pushed = PushTarget

\* What is committed was approved by a line typed when it was shown.
ApprovalFollowsTheProposal == approved # <<>> => approvedIn = round
=============================================================================
