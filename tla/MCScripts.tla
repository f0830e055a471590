----------------------------- MODULE MCScripts -----------------------------
(* An instance of Scripts for TLC, with four situations: of the commit script  *)
(* one about git and one about the talk with the user, of the document scripts *)
(* one about what the base of a branch is and one about the files of runs that *)
(* meet each other's.                                                          *)
EXTENDS Scripts

-----------------------------------------------------------------------------
(* Trees of two files, and those with a file that was changed.  Which content  *)
(* is "1" makes no difference: what a holds first is not "2".                  *)

TwoFiles == [{"a", "b"} -> {"1", "2", "none"}]
AllTrees == {t \in [head: TwoFiles, index: TwoFiles, tree: TwoFiles] :
                /\ t.head["a"] # "2"
                /\ t.head["a"] = "none" => t.index["a"] # "2"
                /\ t.head["a"] = "none" /\ t.index["a"] = "none" => t.tree["a"] # "2"}
Modified == {t \in AllTrees : /\ t.head["a"] = "1" /\ t.index["a"] = "1" /\ t.tree["a"] = "2"
                              /\ t.head["b"] = "none" /\ t.index["b"] = "none"
                              /\ t.tree["b"] \in {"none", "2"}}
AllBranches == {[protected |-> FALSE, upstream |-> "none"],
                [protected |-> TRUE, upstream |-> "origin/branch"]}

-----------------------------------------------------------------------------
(* c1 is where develop began, u has nothing to do with it.                     *)

AllCommits == {"c1", "c2", "c3", "c4", "u"}
Histories == {h \in SUBSET {"c1", "c2", "c3"} : h # {} => "c1" \in h}
AllRepos == {x \in [local: Histories, remote: Histories, server: Histories,
                    head: (Histories \ {{}}) \cup {{"u"}}] : x.remote \subseteq x.server}
OneRepo == [local |-> {"c1"}, remote |-> {"c1"}, server |-> {"c1"}, head |-> {"c1", "c2"}]

\* Success, an end without a result, a refused token.
SomeEndings == {o \in Outcomes : o.spawned /\ o.words = {} /\ ~o.rateLimitHit
                                 /\ o.exitCode = 0 /\ o.status \in {"none", "auth"}}

FileOf(in) == [in |-> in, generated |-> FALSE, deleted |-> FALSE]
DeletedFile == [FileOf("c2") EXCEPT !.deleted = TRUE]
GeneratedFile == [FileOf("c3") EXCEPT !.generated = TRUE]
AllFiles == {FileOf("tree"), FileOf("untracked"), DeletedFile, GeneratedFile}
OneScriptEach == [r1 |-> "explain", r2 |-> "pr", r3 |-> "review"]

-----------------------------------------------------------------------------
(* The situations *)

\* A commit script that nothing was written for, documents of nothing to commit.
NothingLeft == [review |-> {"none"}, html |-> {"none"}, pr |-> {"none"}]
Nothing == [script |-> "none",
            starts |-> {CHOOSE t \in Modified : TRUE}, protected |-> {FALSE},
            rounds |-> 0, lines |-> 0, edits |-> 0,
            repos |-> {OneRepo}, files |-> {}, left |-> NothingLeft, days |-> {"d1"}, runs |-> {}]

Trees == [Nothing EXCEPT !.script = "commit", !.starts = AllTrees, !.rounds = 1, !.lines = 1]
Talk == [Nothing EXCEPT !.script = "commit", !.starts = Modified, !.protected = {TRUE},
                        !.rounds = 2, !.lines = 3, !.edits = 1]
Bases == [Nothing EXCEPT !.script = "documents", !.repos = AllRepos, !.files = AllFiles,
                         !.left.review = {"none", "earlier"}, !.runs = {"r3"}]
Pages == [Nothing EXCEPT !.script = "documents", !.files = {FileOf("untracked"), DeletedFile},
                         !.left.html = {"none", "earlier"}, !.left.pr = {"none", "earlier"},
                         !.days = {"d1", "d2"}, !.runs = {"r1", "r2"}]

AllSituations == [trees |-> Trees, talk |-> Talk, bases |-> Bases, pages |-> Pages]
=============================================================================
