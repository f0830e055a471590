--------------------------- MODULE DocumentScripts ---------------------------
(***************************************************************************)
(* The scripts of src/frontend/scripts that have claude write a document    *)
(* about a branch: review.mjs (a review), explain-diff.mjs (an HTML page)   *)
(* and create-pr-content.mjs (the text of a pull request and the page,      *)
(* which it publishes as a gist).  Runs may follow each other or overlap;   *)
(* they meet in the files, the names of which the branch and the day give.  *)
(*                                                                          *)
(* A ref is the set of commits it reaches, {} one that does not exist.      *)
(***************************************************************************)
EXTENDS Integers, FiniteSets, ClaudeSession

CONSTANTS
    Runs,
    Script,         \* [Runs -> {"review", "explain", "pr"}]
    Overlap,        \* whether a run may start while another is under way
    Days,
    Commits,
    Repos,          \* what the repository may be: [local, remote, server, head]
    Files,          \* the changed files: [in, generated, deleted]; in: the
                    \* commit, "tree" (not committed) or "untracked"
    Endings         \* the outcomes of a session

None == "none"
Earlier == "earlier"    \* who wrote what was there before any run
Ref == SUBSET Commits

DocumentScriptsAssumption ==
    /\ Overlap \in BOOLEAN
    /\ Script \in [Runs -> {"review", "explain", "pr"}]
    /\ Repos \subseteq [local: Ref, remote: Ref, server: Ref, head: Ref]
    /\ Days # {} /\ Endings \subseteq Outcomes
    /\ None \notin Runs /\ Earlier \notin Runs

VARIABLES
    repo, changed,
    review, html, pr,   \* the files, the page by its day: who wrote each
    links,              \* in the PR text: local paths by day, and gists by run
    gists,              \* the gists: [of, by]: the page's author, the run
    pc, opts, base, targets, outcome, exit

files == <<review, html, pr, links, gists>>
vars == <<repo, changed, files, pc, opts, base, targets, outcome, exit>>

Author == Runs \cup {None, Earlier}
Opts == [tree: BOOLEAN, dryRun: BOOLEAN, day: Days, issue: BOOLEAN]

TypeOK ==
    /\ repo \in [local: Ref, remote: Ref, server: Ref, head: Ref]
    /\ changed \subseteq Files
    /\ review \in Author /\ html \in [Days -> Author] /\ pr \in Author
    /\ links \in [local: [Days -> 0..2], gists: SUBSET Runs]
    /\ gists \subseteq [of: Author \ {None}, by: Runs]
    /\ pc \in [Runs -> {"start", "base", "targets", "issue", "prepare", "claude", "check",
                        "publish", "link", "done"}]
    /\ opts \in [Runs -> Opts]
    /\ base \in [Runs -> Ref]
    /\ targets \in [Runs -> SUBSET Files]
    /\ outcome \in [Runs -> Outcome]
    /\ exit \in [Runs -> EXIT \cup {None}]

NoLinks == [local |-> [d \in Days |-> 0], gists |-> {}]
NoOptions == [tree |-> FALSE, dryRun |-> FALSE, day |-> CHOOSE d \in Days : TRUE, issue |-> FALSE]
NoOutcome == CHOOSE o \in Outcomes : ~o.spawned

\* Earlier runs may have left their files, a PR text with a link or a path.
Init ==
    /\ repo \in Repos
    /\ changed \in SUBSET {f \in Files : f.in \in repo.head \cup {"tree", "untracked"}}
    /\ review \in {None, Earlier}
    /\ html \in [Days -> {None, Earlier}]
    /\ pr \in {None, Earlier}
    /\ \E n \in [Days -> {0, 1}] :
          links = [local |-> n, gists |-> {}] /\ (pr = None => links = NoLinks)
    /\ gists = {}
    /\ pc = [r \in Runs |-> "start"]
    /\ opts = [r \in Runs |-> NoOptions]
    /\ base = [r \in Runs |-> {}] /\ targets = [r \in Runs |-> {}]
    /\ outcome = [r \in Runs |-> NoOutcome]
    /\ exit = [r \in Runs |-> None]

Exit(r, code) == pc' = [pc EXCEPT ![r] = "done"] /\ exit' = [exit EXCEPT ![r] = code]
GoOn(r, to) == pc' = [pc EXCEPT ![r] = to] /\ UNCHANGED exit

-----------------------------------------------------------------------------
(* Before the session *)

\* parseArgs and the checks that end a run before it has read anything.
Refusals == {"OK", "UNKNOWN", "CLI_MISSING", "TOKEN_MISSING", "GIT", "NO_TARGET"}

ReviewOptions == [tree: BOOLEAN, dryRun: BOOLEAN, day: Days, issue: {FALSE}]
ExplainOptions == [tree: BOOLEAN, dryRun: BOOLEAN, day: Days, issue: {FALSE}]
PrOptions == [tree: {FALSE}, dryRun: BOOLEAN, day: Days, issue: BOOLEAN]
Options(r) ==
    CASE Script[r] = "review" -> ReviewOptions
      [] Script[r] = "explain" -> ExplainOptions
      [] Script[r] = "pr" -> PrOptions

Start(r) ==
    /\ pc[r] = "start"
    /\ Overlap \/ \A s \in Runs : pc[s] \in {"start", "done"}
    /\ \/ \E code \in Refusals : Exit(r, code) /\ UNCHANGED opts
       \/ /\ \E o \in Options(r) : opts' = [opts EXCEPT ![r] = o]
          /\ GoOn(r, "base")
    /\ UNCHANGED <<repo, changed, files, base, targets, outcome>>

\* Fault: origin/develop is read before it is fetched.
BaseOfStale(before, now) ==
    IF now.local = {} \/ now.local \subseteq before.remote THEN before.remote ELSE now.local
\* resolveBaseRef: local develop, unless origin/develop has all of it.
BaseOf(before, now) ==
    IF now.local = {} \/ now.local \subseteq now.remote THEN now.remote ELSE now.local

\* A fetch brings origin/develop up to date, or fails and is passed over.  The
\* review and the page need a common ancestor.
Base(r) ==
    /\ pc[r] = "base"
    /\ repo' \in {repo, [repo EXCEPT !.remote = repo.server]}
    /\ base' = [base EXCEPT ![r] = BaseOf(repo, repo')]
    /\ IF \/ repo'.local = {} /\ repo'.remote = {}
          \/ Script[r] # "pr" /\ base'[r] \cap repo'.head = {}
       THEN Exit(r, "GIT") ELSE GoOn(r, "targets")
    /\ UNCHANGED <<changed, files, opts, targets, outcome>>

\* isReviewTarget, isExplainTarget: what was deleted is explained, not reviewed.
IsReviewTarget(f) == ~f.deleted /\ ~f.generated
IsExplainTarget(f) == ~f.generated

\* git diff base...HEAD, or of the merge base with the working tree
Diff(r) == {f \in changed : \/ f.in \in repo.head \ base[r]
                            \/ opts[r].tree /\ f.in = "tree"}

\* Fault: the untracked files are forgotten.
NoUntracked(r) == {}
Untracked(r) == {f \in changed : opts[r].tree /\ f.in = "untracked"}

ReviewTargets(r) == {f \in Diff(r) \cup Untracked(r) : IsReviewTarget(f)}
ExplainTargets(r) == {f \in Diff(r) \cup Untracked(r) : IsExplainTarget(f)}

\* A run without targets ends; a pull request is made of commits, not files.
Targets(r) ==
    /\ pc[r] = "targets"
    /\ \/ /\ Script[r] # "pr"
          /\ targets' = [targets EXCEPT
                ![r] = IF Script[r] = "review" THEN ReviewTargets(r) ELSE ExplainTargets(r)]
          /\ IF targets'[r] = {} THEN Exit(r, "NO_TARGET") ELSE GoOn(r, "prepare")
       \/ /\ Script[r] = "pr"
          /\ IF repo.head \subseteq base[r] THEN Exit(r, "NO_TARGET") ELSE GoOn(r, "issue")
          /\ UNCHANGED targets
    /\ UNCHANGED <<repo, changed, files, opts, base, outcome>>

\* resolveIssueNumber: the option, or the branch's number, or the only one in
\* the messages of its commits.
Issue(r) ==
    /\ pc[r] = "issue"
    /\ \/ GoOn(r, "prepare")
       \/ ~opts[r].issue /\ Exit(r, "ISSUE_MISSING")
    /\ UNCHANGED <<repo, changed, files, opts, base, targets, outcome>>

\* Fault: the earlier page stays.
PageStays(r) == html
\* explain-diff removes the page of the day, since claude cannot write over a
\* file that it has not read.
PageRemoved(r) == IF Script[r] = "explain" THEN [html EXCEPT ![opts[r].day] = None] ELSE html

\* buildPolicy: --dry-run prints it and ends.
Prepare(r) ==
    /\ pc[r] = "prepare"
    /\ \/ opts[r].dryRun /\ Exit(r, "OK") /\ UNCHANGED html
       \/ ~opts[r].dryRun /\ GoOn(r, "claude") /\ html' = PageRemoved(r)
    /\ UNCHANGED <<repo, changed, review, pr, links, gists, opts, base, targets, outcome>>

-----------------------------------------------------------------------------
(* The session *)

\* What a session may write: nothing of what it was asked for, or part of it.
WritesReview(r) ==
    /\ Script[r] = "review"
    /\ review' \in {review, r}
    /\ UNCHANGED <<html, pr, links>>

WritesPage(r) ==
    /\ Script[r] = "explain"
    /\ html' \in {html, [html EXCEPT ![opts[r].day] = r]}
    /\ UNCHANGED <<review, pr, links>>

\* The PR text names the page's path, once or more.
WritesPr(r) ==
    /\ Script[r] = "pr"
    /\ html' \in {html, [html EXCEPT ![opts[r].day] = r]}
    /\ \/ UNCHANGED <<pr, links>>
       \/ /\ pr' = r
          /\ \E n \in 1..2 : links' = [NoLinks EXCEPT !.local[opts[r].day] = n]
    /\ UNCHANGED review

Claude(r) ==
    /\ pc[r] = "claude"
    /\ \E o \in Endings :
          /\ outcome' = [outcome EXCEPT ![r] = o]
          /\ IF ClassifyFailure(o) = "OK" THEN GoOn(r, "check") ELSE Exit(r, ClassifyFailure(o))
          /\ \/ o.spawned /\ (WritesReview(r) \/ WritesPage(r) \/ WritesPr(r))
             \/ ~o.spawned /\ UNCHANGED <<review, html, pr, links>>
    /\ UNCHANGED <<repo, changed, gists, opts, base, targets>>

\* The end of a review and of a page: the file is there.  (An empty page counts
\* as none.)
ReviewEnds(r) ==
    /\ pc[r] = "check" /\ Script[r] = "review"
    /\ Exit(r, IF review = None THEN "UNKNOWN" ELSE "OK")
    /\ UNCHANGED <<repo, changed, files, opts, base, targets, outcome>>

ExplainEnds(r) ==
    /\ pc[r] = "check" /\ Script[r] = "explain"
    /\ Exit(r, IF html[opts[r].day] = None THEN "UNKNOWN" ELSE "OK")
    /\ UNCHANGED <<repo, changed, files, opts, base, targets, outcome>>

\* The PR text is there; without the page, or gh, there is nothing to publish.
PrChecked(r) ==
    /\ pc[r] = "check" /\ Script[r] = "pr"
    /\ \/ pr = None /\ Exit(r, "UNKNOWN")
       \/ pr # None /\ Exit(r, "GIST_FAILED")
       \/ pr # None /\ html[opts[r].day] # None /\ GoOn(r, "publish")
    /\ UNCHANGED <<repo, changed, files, opts, base, targets, outcome>>

\* Fault: String.replace in place of split and join.
FirstReplaced(r) == [local |-> [links.local EXCEPT ![opts[r].day] = IF @ > 0 THEN @ - 1 ELSE 0],
                     gists |-> links.gists \cup {r}]
\* replaceExplanationLink
Replaced(r) == IF links.local[opts[r].day] = 0 THEN links
               ELSE [local |-> [links.local EXCEPT ![opts[r].day] = 0],
                     gists |-> links.gists \cup {r}]

\* publishExplanationGist: gh fails (the page may be gone by now), or makes the
\* gist and does not tell its owner or address, or all is well.
Publish(r) ==
    LET page == html[opts[r].day] IN
    /\ pc[r] = "publish"
    /\ \/ Exit(r, "GIST_FAILED") /\ UNCHANGED gists
       \/ /\ page # None
          /\ gists' = gists \cup {[of |-> page, by |-> r]}
          /\ (Exit(r, "GIST_FAILED") \/ GoOn(r, "link"))
    /\ UNCHANGED <<repo, changed, review, html, pr, links, opts, base, targets, outcome>>

\* Once the viewer has answered, or not, the paths in the PR text become the
\* gist's address.
Link(r) ==
    /\ pc[r] = "link"
    /\ links' = Replaced(r)
    /\ Exit(r, "OK")
    /\ UNCHANGED <<repo, changed, review, html, pr, gists, opts, base, targets, outcome>>

Next ==
    \E r \in Runs :
        \/ Start(r) \/ Base(r) \/ Targets(r) \/ Issue(r) \/ Prepare(r) \/ Claude(r)
        \/ ReviewEnds(r) \/ ExplainEnds(r) \/ PrChecked(r) \/ Publish(r) \/ Link(r)

Spec == Init /\ [][Next]_vars

-----------------------------------------------------------------------------
(* Properties *)

Ended(r, code) == exit[r] = code
Wrote(r) == pc[r] \in {"check", "publish", "link", "done"} /\ outcome[r].spawned

\* No other run can have fetched since r did.
FetchedLast(r) == \/ \A s \in Runs \ {r} : pc[s] \in {"start", "base"}
                  \/ ~Overlap /\ pc[r] # "done"

\* A branch is compared with develop as far as it is known: none of the commits
\* that origin/develop has is taken for the branch's own, so long as the local
\* develop has nothing of its own and no other run fetched one since.
\* (resolveBaseRef, after the fetch.)
ComparesOwnCommits ==
    \A r \in Runs : pc[r] \notin {"start", "base"} /\ base[r] # {}
        /\ repo.local \subseteq repo.remote /\ FetchedLast(r)
        => (repo.head \ base[r]) \cap repo.remote = {}

\* Every file that a reader of the branch would have to see is given to claude:
\* the changes of each commit that is not in develop and, when asked for, what
\* is not committed or not even tracked.  (listTargets, listUntracked.)
NothingLeftOut ==
    \A r \in Runs : pc[r] \in {"prepare", "claude", "check"} /\ Script[r] # "pr" =>
        \A f \in changed :
            f \notin targets[r] =>
                \/ f.generated
                \/ f.deleted /\ Script[r] = "review"
                \/ f.in \in base[r]
                \/ f.in \in {"tree", "untracked"} /\ ~opts[r].tree

\* explain-diff, while no other run is under way, succeeds with a page that its own
\* session wrote, not one that an earlier run of the day left there.  (main removes
\* the earlier one.)
ExplainsItself ==
    \A r \in Runs : Script[r] = "explain" /\ Ended(r, "OK") /\ Wrote(r)
        /\ (\A s \in Runs \ {r} : pc[s] = "start") => html[opts[r].day] = r

\* A PR text that this run wrote and reports complete does not name the local path
\* of the day's page, however often it named it.  (replaceExplanationLink.)  Of other
\* days' pages it may: see LocalPathsAreReported.
NoLocalPaths ==
    \A r \in Runs : Script[r] = "pr" /\ Ended(r, "OK") /\ pr = r /\ Wrote(r)
        => links.local[opts[r].day] = 0

-----------------------------------------------------------------------------
(* What the scripts say of themselves, and do not do: none of these holds (the *)
(* last, if a session may end in more ways than the run lets it).              *)

\* review.mjs: exit code 0 is "review complete".  The file may be an earlier
\* run's, that this session did not write over.
ReviewIsFresh ==
    \A r \in Runs : Script[r] = "review" /\ Ended(r, "OK") /\ Wrote(r) => review # Earlier

\* create-pr-content.mjs: the page is made and then published.  The page that is
\* published may be another run's: it is only checked that there is one, and that of
\* an earlier run is not removed.
PublishesItsOwnPage == \A g \in gists : g.of = g.by

\* create-pr-content.mjs: only exit code 9 leaves a local path in the PR text.
LocalPathsAreReported ==
    \A r \in Runs : Script[r] = "pr" /\ Ended(r, "OK") /\ Wrote(r)
        => \A d \in Days : links.local[d] = 0

\* develop is passed over for origin/develop when it is behind.  One that is
\* behind and has commits of its own is not.
NothingOfOthers ==
    \A r \in Runs : pc[r] = "targets" => (repo.head \ base[r]) \cap repo.remote = {}

\* The exit code tells the causes of a failure apart.
ExitTellsWhy ==
    \A r \in Runs : outcome[r].spawned /\ Cause(outcome[r]) # "other" /\ exit[r] # None
        => exit[r] = Cause(outcome[r])
=============================================================================
