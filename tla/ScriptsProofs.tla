--------------------------- MODULE ScriptsProofs ---------------------------
(***************************************************************************)
(* Proofs about the scripts, for any files, proposals, answers and edits,   *)
(* and any runs, days, commits and ends of a session.  First the commit     *)
(* script: what a proposal that has no problems is, and how far the         *)
(* approved commits were made.  Then the document scripts: what a run has   *)
(* decided stays as it is to its end, whatever other runs write.            *)
(***************************************************************************)
EXTENDS Scripts, SequenceTheorems, TLAPS

-----------------------------------------------------------------------------
(* Sessions *)

\* However a session ended, its reading is one of the exit codes.
LEMMA ClassifyFailureType ==
    ASSUME NEW o PROVE Committing!ClassifyFailure(o) \in Committing!EXIT
<1>1. Committing!ClassifyFailure(o) \in {"CLI_MISSING", "OK", "AUTH_FAILED", "RATE_LIMITED", "UNKNOWN"}
  BY DEF Committing!ClassifyFailure
<1> QED
  BY <1>1 DEF Committing!EXIT

-----------------------------------------------------------------------------
(* The changes of a working tree *)

\* A path is one change's, and so is the old name of a rename.
OneNameEach(cs) ==
    \A c, d \in cs : c.path = d.path \/ (c.from = d.from /\ c.from # "none") => c = d

LEMMA RenamedFromType ==
    ASSUME NEW p \in Paths PROVE Committing!RenamedFrom(p) \in Paths \cup {"none"}
<1> DEFINE sources == {q \in Paths : Committing!Removed(q) /\ git.head[q] = git.index[p]}
<1>1. sources # {} => (CHOOSE q \in sources : TRUE) \in sources
  OBVIOUS
<1> QED
  BY <1>1 DEF Committing!RenamedFrom, Committing!None

\* A removed path is the old name of one new path.
LEMMA RenamedOnce ==
    ASSUME NEW p \in Paths, NEW r \in Paths,
           Committing!RenamedFrom(p) = Committing!RenamedFrom(r),
           Committing!RenamedFrom(p) # "none"
    PROVE  p = r
<1> DEFINE sources(x) == {q \in Paths : Committing!Removed(q) /\ git.head[q] = git.index[x]}
           rivals(x) == {y \in Paths : Committing!Added(y) /\ git.index[y] = git.index[x]}
<1>1. ASSUME NEW x \in Paths, Committing!RenamedFrom(x) # "none"
      PROVE  /\ sources(x) # {} /\ x = CHOOSE y \in rivals(x) : TRUE
             /\ Committing!RenamedFrom(x) \in sources(x)
  <2>1. sources(x) # {} => (CHOOSE q \in sources(x) : TRUE) \in sources(x)
    OBVIOUS
  <2> QED
    BY <1>1, <2>1 DEF Committing!RenamedFrom, Committing!None
<1>2. git.index[p] = git.head[Committing!RenamedFrom(p)]
  BY <1>1
<1>3. git.index[r] = git.head[Committing!RenamedFrom(r)]
  BY <1>1
<1>4. git.index[p] = git.index[r]
  BY <1>2, <1>3
<1>5. rivals(p) = rivals(r)
  BY <1>4
<1>6. (CHOOSE y \in rivals(p) : TRUE) = (CHOOSE y \in rivals(r) : TRUE)
  <2> HIDE DEF rivals
  <2> QED
    BY <1>5
<1> QED
  BY <1>1, <1>6

LEMMA ListChangesIs ==
    /\ Committing!ListChanges \subseteq Committing!Change
    /\ OneNameEach(Committing!ListChanges)
<1>1. Committing!ListChanges =
        {[path |-> p, from |-> Committing!RenamedFrom(p)] : p \in Committing!Listed}
  BY DEF Committing!ListChanges
<1>2. Committing!Listed \subseteq Paths
  BY DEF Committing!Listed
<1>3. Committing!ListChanges \subseteq Committing!Change
  BY <1>1, <1>2, RenamedFromType DEF Committing!Change, Committing!None
<1>4. ASSUME NEW p \in Paths, NEW r \in Paths,
             \/ p = r
             \/ Committing!RenamedFrom(p) = Committing!RenamedFrom(r)
                /\ Committing!RenamedFrom(p) # "none"
      PROVE  p = r
  BY <1>4, RenamedOnce
<1> QED
  BY <1>1, <1>2, <1>3, <1>4 DEF OneNameEach

-----------------------------------------------------------------------------
(* Proposals *)

\* Each commit has changes that were listed, and each change is in one commit.
Sound(commits, cs) ==
    /\ \A i \in DOMAIN commits : commits[i] # {} /\ commits[i] \subseteq cs
    /\ \A i, j \in DOMAIN commits : i # j => commits[i] \cap commits[j] = {}

\* Two names of a change stand for the same one.
LEMMA ChangeOfNames ==
    ASSUME OneNameEach(changes), changes \subseteq Committing!Change,
           Committing!CommitScriptAssumption,
           NEW m, NEW n, m # "none", n # "none",
           NEW x \in Committing!ChangeOf(m), x \in Committing!ChangeOf(n)
    PROVE  Committing!ChangeOf(m) = Committing!ChangeOf(n)
<1>1. x \in changes /\ x.path # "none"
  BY DEF Committing!ChangeOf, Committing!Change, Committing!CommitScriptAssumption,
         Committing!None
<1>2. ASSUME NEW k, k # "none", x \in Committing!ChangeOf(k)
      PROVE  Committing!ChangeOf(k) = {x}
  BY <1>1, <1>2 DEF Committing!ChangeOf, OneNameEach
<1> QED
  BY <1>2

LEMMA FilesAreListed ==
    ASSUME NEW commit PROVE Committing!FilesOf(commit) \subseteq changes
BY DEF Committing!FilesOf, Committing!ChangeOf

\* A proposal is one or two commits, and names nothing "none".
LEMMA ProposalIs ==
    ASSUME changes \subseteq Committing!Change, Committing!CommitScriptAssumption,
           NEW p \in Committing!Proposals
    PROVE  \E n \in 1..2 :
             /\ DOMAIN p = 1..n
             /\ \A i \in 1..n : \A m \in p[i].names : m # "none"
<1>1. PICK n \in 1..2 :
        p \in [1..n -> [names: SUBSET (Committing!Candidates \cup {"unknown"}), message: Messages]]
  BY DEF Committing!Proposals
<1>2. \A m \in Committing!Candidates \cup {"unknown"} : m # "none"
  BY DEF Committing!Candidates, Committing!Change, Committing!CommitScriptAssumption,
         Committing!None
<1> QED
  BY <1>1, <1>2

LEMMA ValidatedIsSound ==
    ASSUME OneNameEach(changes), changes \subseteq Committing!Change,
           Committing!CommitScriptAssumption, NEW p \in Committing!Proposals
    PROVE  /\ Committing!Validated(p).commits \in Seq(SUBSET Committing!Change)
           /\ Committing!Validated(p).problems \in BOOLEAN
           /\ Sound(Committing!Validated(p).commits, changes)
           /\ ~Committing!Validated(p).problems => Committing!Validated(p).commits # <<>>
<1> DEFINE problems ==
             \/ \E i \in DOMAIN p : \E n \in p[i].names : Committing!ChangeOf(n) = {}
             \/ Committing!NamedTwice(p)
             \/ \E i \in DOMAIN p : Committing!FilesOf(p[i]) = {} \/ ~p[i].message
           commits == [i \in DOMAIN p |-> Committing!FilesOf(p[i])]
<1>1. Committing!Validated(p) =
        [problems |-> problems, commits |-> IF problems THEN <<>> ELSE commits]
  BY DEF Committing!Validated
<1>2. problems \in BOOLEAN
  OBVIOUS
<1>3. PICK n \in 1..2 :
        /\ DOMAIN p = 1..n
        /\ \A i \in 1..n : \A m \in p[i].names : m # "none"
  BY ProposalIs
<1>4. \A i \in DOMAIN p : Committing!FilesOf(p[i]) \subseteq changes
  BY FilesAreListed
<1>5. commits \in Seq(SUBSET Committing!Change) /\ Len(commits) = n
  <2>1. commits \in [1..n -> SUBSET Committing!Change]
    BY <1>3, <1>4
  <2> QED
    BY <2>1
<1>6. ASSUME ~problems PROVE Sound(commits, changes)
  <2>1. \A i \in DOMAIN p : commits[i] # {} /\ commits[i] \subseteq changes
    BY <1>4, <1>6
  <2>2. ASSUME NEW i \in DOMAIN p, NEW j \in DOMAIN p, i # j,
               NEW x, x \in Committing!FilesOf(p[i]), x \in Committing!FilesOf(p[j])
        PROVE  FALSE
    <3>1. PICK m \in p[i].names : x \in Committing!ChangeOf(m)
      BY <2>2 DEF Committing!FilesOf
    <3>2. PICK k \in p[j].names : x \in Committing!ChangeOf(k)
      BY <2>2 DEF Committing!FilesOf
    <3>3. m # "none" /\ k # "none"
      BY <1>3
    <3>4. Committing!ChangeOf(m) = Committing!ChangeOf(k) /\ Committing!ChangeOf(m) # {}
      BY <3>1, <3>2, <3>3, ChangeOfNames
    <3>5. <<i, m>> # <<j, k>>
      BY <2>2
    <3>6. Committing!NamedTwice(p)
      BY <3>4, <3>5 DEF Committing!NamedTwice
    <3> QED
      BY <1>6, <3>6
  <2> QED
    BY <2>1, <2>2 DEF Sound
<1>7. Sound(<<>>, changes)
  BY DEF Sound
<1>8. <<>> \in Seq(SUBSET Committing!Change)
  OBVIOUS
<1>9. commits # <<>>
  BY <1>3, <1>5
<1> HIDE DEF problems, commits
<1> QED
  BY <1>1, <1>2, <1>5, <1>6, <1>7, <1>8, <1>9

-----------------------------------------------------------------------------
(* Types of the commit script *)

GitState == [head: Committing!Tree, index: Committing!Tree, tree: Committing!Tree]

LEMMA CommitInitType ==
    ASSUME Committing!CommitScriptAssumption, Committing!Init PROVE Committing!TypeOK
<1>1. git \in GitState
  BY DEF Committing!CommitScriptAssumption, Committing!Init, GitState
<1>2. commitOpts \in Committing!Opts
  BY DEF Committing!Init, Committing!Opts, Committing!None
<1>3. /\ made \in Seq(SUBSET Paths) /\ approved \in Seq(SUBSET Committing!Change)
      /\ proposal.commits \in Seq(SUBSET Committing!Change) /\ proposal.problems \in BOOLEAN
      /\ typed \in Seq([line: {"y", "n", "", "text", "eof"}, round: 0..MaxRounds])
  BY DEF Committing!Init
<1>4. 0 \in 0..MaxRounds /\ 0 \in 0..MaxLines /\ 0 \in 0..MaxEdits
  BY DEF Committing!CommitScriptAssumption
<1> QED
  BY <1>1, <1>2, <1>3, <1>4 DEF Committing!Init, Committing!TypeOK, Committing!None, GitState

\* What add and commit make of a tree is a tree.
LEMMA TakenType ==
    ASSUME git \in GitState, NEW t \in Committing!Tree, NEW paths
    PROVE  Committing!Taken(t, paths) \in Committing!Tree
BY DEF Committing!Taken, Committing!Tree, GitState

\* A step leaves git as it is, adds the paths of a commit, commits them, or is an edit.
LEMMA GitSteps ==
    ASSUME git \in GitState, approved \in Seq(SUBSET Committing!Change), Committing!Next
    PROVE  \/ UNCHANGED <<git, made>>
           \/ /\ commitPc = "add" /\ UNCHANGED made
              /\ git' = [git EXCEPT !.index = Committing!Taken(@, Committing!Current)]
           \/ /\ commitPc = "commit"
              /\ git' = [git EXCEPT !.head = Committing!Taken(@, Committing!Current),
                                    !.index = Committing!Taken(@, Committing!Current)]
              /\ made' = Append(made, {p \in Paths :
                            Committing!Taken(git.head, Committing!Current)[p] # git.head[p]})
           \/ /\ edits' = edits + 1 /\ UNCHANGED made
              /\ \E p \in Paths, content \in Contents \cup {"none"} :
                    git' = [git EXCEPT !.tree[p] = content]
BY DEF Committing!Next, Committing!Start, Committing!ReadRepository, Committing!Claude,
       Committing!Ask, Committing!Interrupt, Committing!Add, Committing!Commit,
       Committing!Confirm, Committing!Push, Committing!Report, Committing!Type, Committing!Edit,
       Committing!trees, Committing!Committed, Committing!None

LEMMA GitTypeNext ==
    ASSUME git \in GitState, made \in Seq(SUBSET Paths),
           approved \in Seq(SUBSET Committing!Change), Committing!Next
    PROVE  git' \in GitState /\ made' \in Seq(SUBSET Paths)
<1> DEFINE current == Committing!Current
<1> HIDE DEF current
<1>1. git.head \in Committing!Tree /\ git.index \in Committing!Tree /\ git.tree \in Committing!Tree
  BY DEF GitState
<1>2. /\ Committing!Taken(git.head, current) \in Committing!Tree
      /\ Committing!Taken(git.index, current) \in Committing!Tree
  BY <1>1, TakenType
<1>3. ASSUME NEW p \in Paths, NEW content \in Contents \cup {"none"}
      PROVE  [git.tree EXCEPT ![p] = content] \in Committing!Tree
  BY <1>1 DEF Committing!Tree, Committing!None
<1>4. CASE UNCHANGED <<git, made>>
  BY <1>4
<1>5. CASE /\ UNCHANGED made
           /\ git' = [git EXCEPT !.index = Committing!Taken(@, current)]
  BY <1>2, <1>5 DEF GitState
<1>6. CASE /\ git' = [git EXCEPT !.head = Committing!Taken(@, current),
                                 !.index = Committing!Taken(@, current)]
           /\ made' = Append(made, {p \in Paths :
                            Committing!Taken(git.head, current)[p] # git.head[p]})
  <2>1. git' \in GitState
    BY <1>2, <1>6 DEF GitState
  <2>2. {p \in Paths : Committing!Taken(git.head, current)[p] # git.head[p]} \in SUBSET Paths
    OBVIOUS
  <2> QED
    BY <1>6, <2>1, <2>2, AppendProperties
<1>7. CASE /\ UNCHANGED made
           /\ \E p \in Paths, content \in Contents \cup {"none"} :
                 git' = [git EXCEPT !.tree[p] = content]
  BY <1>3, <1>7 DEF GitState
<1> QED
  BY <1>4, <1>5, <1>6, <1>7, GitSteps DEF current

-----------------------------------------------------------------------------
(* The invariant of the commit script *)

\* Nothing is approved before the user answers, then one commit is made after
\* the other, and only the end of the last leads on.
Stage ==
    /\ commitPc \in {"start", "git"} => proposal.commits = <<>>
    /\ commitPc \in {"start", "git", "claude", "ask"} => approved = <<>>
    /\ commitPc = "ask" /\ ~proposal.problems => proposal.commits # <<>>
    /\ Len(made) <= Len(approved)
    /\ commitPc \in {"add", "commit"} => Len(made) < Len(approved)
    /\ commitPc \in {"confirm", "push", "report"} => Len(made) = Len(approved)
    /\ commitExit = "OK" => Len(made) = Len(approved)
    /\ commitExit # "none" => commitPc = "done"

\* The paths of a commit that was made are the same in all three trees.
MadeStays ==
    edits = 0 =>
        \A i \in 1..Len(made) : \A p \in Committing!CommitPathspec(approved[i]) :
            git.head[p] = git.tree[p] /\ git.index[p] = git.tree[p]

CommitInv ==
    /\ Committing!TypeOK
    /\ OneNameEach(changes)
    /\ Sound(proposal.commits, changes) /\ Sound(approved, changes)
    /\ Stage /\ MadeStays

TypedLine == [line: {"y", "n", "", "text", "eof"}, round: 0..MaxRounds]

LEMMA AskedType ==
    ASSUME typed \in Seq(TypedLine), NEW line, Committing!Asked(line)
    PROVE  typed' \in Seq(TypedLine) /\ lines' = lines /\ line \in TypedLine
<1>1. typed # <<>> /\ line = Head(typed) /\ lines' = lines
  BY DEF Committing!Asked
<1>2. Head(typed) \in TypedLine /\ Tail(typed) \in Seq(TypedLine)
  BY <1>1, HeadTailProperties
<1> QED
  BY <1>1, <1>2 DEF Committing!Asked

LEMMA BoundsAreNumbers ==
    ASSUME Committing!CommitScriptAssumption
    PROVE  MaxRounds \in Nat /\ MaxLines \in Nat /\ MaxEdits \in Nat
BY DEF Committing!CommitScriptAssumption

LEMMA CommitTypeNext ==
    ASSUME Committing!CommitScriptAssumption, CommitInv, Committing!Next
    PROVE  Committing!TypeOK'
<1>1. Committing!TypeOK
  BY DEF CommitInv
<1>2. git' \in GitState /\ made' \in Seq(SUBSET Paths)
  BY <1>1, GitTypeNext DEF Committing!TypeOK, GitState
<1>3. git' \in [head: Committing!Tree, index: Committing!Tree, tree: Committing!Tree]
  BY <1>2 DEF GitState
<1>4. typed \in Seq(TypedLine)
  BY <1>1 DEF Committing!TypeOK, TypedLine
<1>5. Committing!EXIT \subseteq Committing!EXIT \cup {"none"} /\ "OK" \in Committing!EXIT /\ "UNKNOWN" \in Committing!EXIT
      /\ "CLI_MISSING" \in Committing!EXIT /\ "TOKEN_MISSING" \in Committing!EXIT /\ "GIT" \in Committing!EXIT
      /\ "NO_TARGET" \in Committing!EXIT /\ "CANCELLED" \in Committing!EXIT /\ "PUSH_FAILED" \in Committing!EXIT
  BY DEF Committing!EXIT
<1>l. lines < MaxLines /\ lines' = lines + 1 => lines' \in 0..MaxLines
  <2>1. lines \in 0..MaxLines
    BY <1>1 DEF Committing!TypeOK
  <2> QED
    BY <2>1, BoundsAreNumbers
<1>6. CASE Committing!Start
  <2>1. commitOpts' \in Committing!Opts
    BY <1>1, <1>6 DEF Committing!Start, Committing!TypeOK, Committing!Opts
  <2> QED
    BY <1>1, <1>3, <1>5, <1>6, <2>1 DEF Committing!Start, Committing!TypeOK, Committing!Exit,
       Committing!GoOn, Committing!trees, Committing!talk, Committing!terminal, Committing!None
<1>7. CASE Committing!ReadRepository
  <2>1. commitOpts' \in Committing!Opts
    BY <1>1, <1>7 DEF Committing!ReadRepository, Committing!TypeOK, Committing!Opts,
                      Committing!CommitScriptAssumption
  <2>2. changes' \subseteq Committing!Change
    BY <1>7, ListChangesIs DEF Committing!ReadRepository
  <2> QED
    BY <1>1, <1>3, <1>5, <1>7, <2>1, <2>2 DEF Committing!ReadRepository, Committing!TypeOK,
       Committing!Exit, Committing!GoOn, Committing!trees, Committing!talk, Committing!terminal,
       Committing!None
<1>8. CASE Committing!Claude
  <2>1. CASE Committing!SessionFails /\ UNCHANGED <<proposal, round>>
    <3>1. commitPc' = "done" /\ commitExit' \in Committing!EXIT
      BY <2>1, <1>5, ClassifyFailureType DEF Committing!SessionFails, Committing!Exit
    <3> QED
      BY <1>1, <1>3, <1>8, <2>1, <3>1 DEF Committing!Claude, Committing!TypeOK,
         Committing!trees, Committing!terminal, Committing!None
  <2>2. CASE /\ \E p \in Committing!Proposals : proposal' = Committing!Validated(p)
             /\ round' = round + 1 /\ Committing!GoOn("ask")
    <3>1. proposal'.commits \in Seq(SUBSET Committing!Change) /\ proposal'.problems \in BOOLEAN
      BY <1>1, <2>2, ValidatedIsSound DEF CommitInv, Committing!TypeOK
    <3>2. round' \in 0..MaxRounds
      <4>1. round \in 0..MaxRounds
        BY <1>1 DEF Committing!TypeOK
      <4>2. round < MaxRounds /\ round' = round + 1
        BY <1>8, <2>2 DEF Committing!Claude
      <4> QED
        BY <4>1, <4>2, BoundsAreNumbers
    <3> QED
      BY <1>1, <1>3, <1>8, <2>2, <3>1, <3>2 DEF Committing!Claude, Committing!TypeOK,
         Committing!GoOn, Committing!trees, Committing!terminal, Committing!None
  <2> QED
    BY <1>8, <2>1, <2>2 DEF Committing!Claude
<1>9. CASE Committing!Ask
  <2>1. typed' \in Seq(TypedLine) /\ lines' = lines
    BY <1>4, <1>9, AskedType DEF Committing!Ask
  <2>2. approved' \in Seq(SUBSET Committing!Change) /\ approvedIn' \in 0..MaxRounds
    <3>1. PICK line : /\ Committing!Asked(line)
                      /\ \/ UNCHANGED <<approved, approvedIn>>
                         \/ approved' = proposal.commits /\ approvedIn' = line.round
      BY <1>9 DEF Committing!Ask
    <3>2. line.round \in 0..MaxRounds
      <4>1. line \in TypedLine
        BY <1>4, <3>1, AskedType
      <4> QED
        BY <4>1 DEF TypedLine
    <3>3. /\ approved \in Seq(SUBSET Committing!Change) /\ approvedIn \in 0..MaxRounds
          /\ proposal.commits \in Seq(SUBSET Committing!Change)
      BY <1>1, Zenon DEF Committing!TypeOK
    <3> QED
      BY <3>1, <3>2, <3>3
  <2>3. typed' \in Seq([line: {"y", "n", "", "text", "eof"}, round: 0..MaxRounds])
    BY <2>1 DEF TypedLine
  <2> QED
    BY <1>1, <1>3, <1>5, <1>9, <2>1, <2>2, <2>3 DEF Committing!Ask, Committing!TypeOK,
       Committing!Exit, Committing!GoOn, Committing!trees, Committing!None
<1>10. CASE Committing!Interrupt
  BY <1>1, <1>3, <1>5, <1>10 DEF Committing!Interrupt, Committing!TypeOK, Committing!Exit,
     Committing!trees, Committing!talk, Committing!terminal, Committing!None
<1>11. CASE Committing!Add
  BY <1>1, <1>3, <1>5, <1>11 DEF Committing!Add, Committing!TypeOK, Committing!Exit,
     Committing!GoOn, Committing!talk, Committing!terminal, Committing!None
<1>12. CASE Committing!Commit
  <2>1. ASSUME Len(made) < Len(approved)
        PROVE  Committing!AfterCommits(Len(made) + 1) \in {"add", "report", "confirm", "push"}
    <3>1. Len(made) \in Nat /\ Len(approved) \in Nat /\ commitOpts.push \in BOOLEAN
      <4>1. made \in Seq(SUBSET Paths) /\ approved \in Seq(SUBSET Committing!Change)
        BY <1>1 DEF Committing!TypeOK
      <4>2. commitOpts.push \in BOOLEAN
        BY <1>1 DEF Committing!TypeOK, Committing!Opts
      <4> QED
        BY <4>1, <4>2
    <3> DEFINE n == Len(made) + 1
               m == Len(approved)
    <3>2. n < m \/ n = m
      BY <2>1, <3>1
    <3> HIDE DEF n, m
    <3>3. Committing!AfterCommits(n) \in {"add", "report", "confirm", "push"}
      BY <3>1, <3>2 DEF Committing!AfterCommits, m
    <3> QED
      BY <3>3 DEF n
  <2>2. Len(made) < Len(approved)
    BY <1>12 DEF Committing!Commit, CommitInv, Stage
  <2>3. commitPc' \in {"done", "add", "report", "confirm", "push"}
    BY <1>12, <2>1, <2>2 DEF Committing!Commit, Committing!Exit, Committing!GoOn
  <2>4. commitExit' \in Committing!EXIT \cup {"none"}
    BY <1>1, <1>5, <1>12 DEF Committing!Commit, Committing!Exit, Committing!GoOn,
       Committing!TypeOK, Committing!None
  <2> QED
    BY <1>1, <1>2, <1>3, <1>12, <2>3, <2>4 DEF Committing!Commit, Committing!TypeOK,
       Committing!talk, Committing!terminal, Committing!None
<1>13. CASE Committing!Confirm
  <2>1. typed' \in Seq(TypedLine) /\ lines' = lines
    BY <1>4, <1>13, AskedType DEF Committing!Confirm
  <2>2. typed' \in Seq([line: {"y", "n", "", "text", "eof"}, round: 0..MaxRounds])
    BY <2>1 DEF TypedLine
  <2> QED
    BY <1>1, <1>3, <1>13, <2>1, <2>2 DEF Committing!Confirm, Committing!TypeOK,
       Committing!GoOn, Committing!trees, Committing!talk, Committing!None
<1>14. CASE Committing!Push
  BY <1>1, <1>3, <1>5, <1>14 DEF Committing!Push, Committing!TypeOK, Committing!Exit,
     Committing!GoOn, Committing!talk, Committing!terminal, Committing!None
<1>15. CASE Committing!Report
  BY <1>1, <1>3, <1>5, <1>15 DEF Committing!Report, Committing!TypeOK, Committing!Exit,
     Committing!trees, Committing!talk, Committing!terminal, Committing!None
<1>16. ASSUME NEW line \in {"y", "n", "", "text", "eof"}, Committing!Type(line)
       PROVE  Committing!TypeOK'
  <2>1. typed' = Append(typed, [line |-> line, round |-> round])
    BY <1>16 DEF Committing!Type
  <2>2. [line |-> line, round |-> round] \in TypedLine
    BY <1>1 DEF Committing!TypeOK, TypedLine
  <2>3. typed' \in Seq([line: {"y", "n", "", "text", "eof"}, round: 0..MaxRounds])
    BY <1>4, <2>1, <2>2, AppendProperties DEF TypedLine
  <2>4. lines' \in 0..MaxLines
    <3>1. lines < MaxLines /\ lines' = lines + 1
      BY <1>16 DEF Committing!Type
    <3> QED
      BY <1>l, <3>1
  <2> QED
    BY <1>1, <1>3, <1>16, <2>3, <2>4 DEF Committing!Type, Committing!TypeOK,
       Committing!trees, Committing!talk, Committing!None
<1>17. ASSUME NEW p \in Paths, NEW content \in Contents \cup {"none"},
              Committing!Edit(p, content)
       PROVE  Committing!TypeOK'
  <2>1. edits' \in 0..MaxEdits
    <3>1. edits \in 0..MaxEdits
      BY <1>1 DEF Committing!TypeOK
    <3>2. edits < MaxEdits /\ edits' = edits + 1
      BY <1>17 DEF Committing!Edit
    <3> QED
      BY <3>1, <3>2, BoundsAreNumbers
  <2> QED
    BY <1>1, <1>3, <1>17, <2>1 DEF Committing!Edit, Committing!TypeOK,
       Committing!talk, Committing!terminal, Committing!None
<1> QED
  BY <1>6, <1>7, <1>8, <1>9, <1>10, <1>11, <1>12, <1>13, <1>14, <1>15, <1>16, <1>17
     DEF Committing!Next, Committing!None

\* A step lists the changes, asks for a proposal, approves one, or does none of these.
LEMMA TalkSteps ==
    ASSUME Committing!Next
    PROVE  \/ UNCHANGED <<changes, proposal, approved>>
           \/ /\ commitPc = "git" /\ changes' = Committing!ListChanges
              /\ UNCHANGED <<proposal, approved>>
           \/ /\ \E p \in Committing!Proposals : proposal' = Committing!Validated(p)
              /\ UNCHANGED <<changes, approved>>
           \/ approved' = proposal.commits /\ UNCHANGED <<changes, proposal>>
BY DEF Committing!Next, Committing!Start, Committing!ReadRepository, Committing!Claude,
       Committing!Ask, Committing!Interrupt, Committing!Add, Committing!Commit,
       Committing!Confirm, Committing!Push, Committing!Report, Committing!Type, Committing!Edit,
       Committing!talk

LEMMA SoundNext ==
    ASSUME Committing!CommitScriptAssumption, CommitInv, Committing!Next
    PROVE  /\ OneNameEach(changes')
           /\ Sound(proposal'.commits, changes') /\ Sound(approved', changes')
<1>1. OneNameEach(changes) /\ Sound(proposal.commits, changes) /\ Sound(approved, changes)
  BY DEF CommitInv
<1>2. CASE UNCHANGED <<changes, proposal, approved>>
  BY <1>1, <1>2
<1>3. CASE commitPc = "git" /\ changes' = Committing!ListChanges /\ UNCHANGED <<proposal, approved>>
  <2>1. proposal.commits = <<>> /\ approved = <<>>
    BY <1>3 DEF CommitInv, Stage
  <2>2. Sound(<<>>, changes')
    BY DEF Sound
  <2> QED
    BY <1>3, <2>1, <2>2, ListChangesIs
<1>4. CASE /\ \E p \in Committing!Proposals : proposal' = Committing!Validated(p)
           /\ UNCHANGED <<changes, approved>>
  <2>1. changes \subseteq Committing!Change
    BY DEF CommitInv, Committing!TypeOK
  <2>2. Sound(proposal'.commits, changes)
    BY <1>1, <1>4, <2>1, ValidatedIsSound
  <2> QED
    BY <1>1, <1>4, <2>2
<1>5. CASE approved' = proposal.commits /\ UNCHANGED <<changes, proposal>>
  BY <1>1, <1>5
<1> QED
  BY <1>2, <1>3, <1>4, <1>5, TalkSteps

LEMMA StageNext ==
    ASSUME Committing!CommitScriptAssumption, CommitInv, Committing!Next
    PROVE  Stage'
<1>1. Stage
  BY DEF CommitInv
<1>2. made \in Seq(SUBSET Paths) /\ approved \in Seq(SUBSET Committing!Change)
  BY DEF CommitInv, Committing!TypeOK
<1>3. Len(made) \in Nat /\ Len(approved) \in Nat
  BY <1>2
<1>4. approved = <<>> => Len(made) = Len(approved)
  BY <1>1, <1>2, <1>3 DEF Stage
<1>5. CASE Committing!Start
  BY <1>1, <1>4, <1>5 DEF Committing!Start, Stage, Committing!Exit, Committing!GoOn,
     Committing!trees, Committing!talk
<1>6. CASE Committing!ReadRepository
  BY <1>1, <1>4, <1>6 DEF Committing!ReadRepository, Stage, Committing!Exit, Committing!GoOn,
     Committing!trees, Committing!talk
<1>7. CASE Committing!Claude
  <2>1. CASE Committing!SessionFails /\ UNCHANGED <<proposal, round>>
    BY <1>1, <1>4, <1>7, <2>1 DEF Committing!Claude, Stage, Committing!SessionFails,
       Committing!Exit, Committing!trees
  <2>2. CASE /\ \E p \in Committing!Proposals : proposal' = Committing!Validated(p)
             /\ Committing!GoOn("ask")
    <3>1. ~proposal'.problems => proposal'.commits # <<>>
      BY <2>2, ValidatedIsSound DEF CommitInv, Committing!TypeOK
    <3> QED
      BY <1>1, <1>4, <1>7, <2>2, <3>1 DEF Committing!Claude, Stage, Committing!GoOn,
         Committing!trees
  <2> QED
    BY <1>7, <2>1, <2>2 DEF Committing!Claude
<1>8. CASE Committing!Ask
  <2>1. approved = <<>> /\ Len(made) = 0 /\ commitPc = "ask" /\ UNCHANGED made
    BY <1>1, <1>4, <1>8 DEF Committing!Ask, Stage, Committing!trees
  <2>2. CASE Committing!Exit("CANCELLED") /\ UNCHANGED approved
    BY <1>1, <1>8, <2>1, <2>2 DEF Committing!Ask, Stage, Committing!Exit, Committing!trees
  <2>3. CASE Committing!GoOn("claude") /\ UNCHANGED approved
    BY <1>1, <1>8, <2>1, <2>3 DEF Committing!Ask, Stage, Committing!GoOn, Committing!trees
  <2>4. CASE ~proposal.problems /\ approved' = proposal.commits /\ Committing!GoOn("add")
    <3>1. approved' # <<>> /\ approved' \in Seq(SUBSET Committing!Change)
      BY <1>1, <2>1, <2>4 DEF Stage, CommitInv, Committing!TypeOK
    <3>2. Len(approved') \in Nat /\ Len(approved') > 0
      BY <3>1
    <3> QED
      BY <1>1, <1>8, <2>1, <2>4, <3>2 DEF Committing!Ask, Stage, Committing!GoOn, Committing!trees
  <2> QED
    BY <1>8, <2>2, <2>3, <2>4 DEF Committing!Ask, Committing!Approves
<1>9. CASE Committing!Interrupt
  BY <1>1, <1>9 DEF Committing!Interrupt, Stage, Committing!Exit, Committing!trees, Committing!talk
<1>10. CASE Committing!Add
  BY <1>1, <1>10 DEF Committing!Add, Stage, Committing!Exit, Committing!GoOn, Committing!talk
<1>11. CASE Committing!Commit
  <2>1. Len(made) < Len(approved) /\ commitExit # "OK" /\ UNCHANGED <<proposal, approved>>
    BY <1>1, <1>3, <1>11 DEF Committing!Commit, Stage, Committing!talk
  <2>2. CASE Committing!Exit("GIT") /\ UNCHANGED made
    BY <1>1, <2>1, <2>2 DEF Stage, Committing!Exit
  <2>3. CASE /\ \E paths \in SUBSET Paths : made' = Append(made, paths)
             /\ Committing!GoOn(Committing!AfterCommits(Len(made) + 1))
    <3>1. Len(made') = Len(made) + 1
      BY <1>2, <2>3, AppendProperties
    <3>2. \/ Len(made') < Len(approved) /\ commitPc' = "add"
          \/ Len(made') = Len(approved) /\ commitPc' \in {"report", "confirm", "push"}
      <4>1. commitOpts.push \in BOOLEAN
        BY DEF CommitInv, Committing!TypeOK, Committing!Opts
      <4> DEFINE n == Len(made) + 1
                 m == Len(approved)
      <4>2. (n < m /\ n # m) \/ (n = m /\ ~(n < m))
        BY <1>3, <2>1
      <4> HIDE DEF n, m
      <4>3. \/ n < m /\ Committing!AfterCommits(n) = "add"
            \/ n = m /\ Committing!AfterCommits(n) \in {"report", "confirm", "push"}
        BY <4>1, <4>2 DEF Committing!AfterCommits, m
      <4> QED
        BY <2>3, <3>1, <4>3 DEF n, m, Committing!GoOn
    <3> QED
      BY <1>1, <1>3, <1>11, <2>1, <2>3, <3>1, <3>2 DEF Stage, Committing!GoOn, Committing!Commit
  <2> QED
    BY <1>11, <2>2, <2>3 DEF Committing!Commit
<1>12. CASE Committing!Confirm
  BY <1>1, <1>12 DEF Committing!Confirm, Stage, Committing!GoOn, Committing!trees, Committing!talk
<1>13. CASE Committing!Push
  BY <1>1, <1>13 DEF Committing!Push, Stage, Committing!Exit, Committing!GoOn, Committing!talk
<1>14. CASE Committing!Report
  BY <1>1, <1>14 DEF Committing!Report, Stage, Committing!Exit, Committing!trees, Committing!talk
<1>15. ASSUME NEW line, Committing!Type(line) PROVE Stage'
  BY <1>1, <1>15 DEF Committing!Type, Stage, Committing!trees, Committing!talk
<1>16. ASSUME NEW p, NEW content, Committing!Edit(p, content) PROVE Stage'
  BY <1>1, <1>16 DEF Committing!Edit, Stage, Committing!talk
<1> QED
  BY <1>5, <1>6, <1>7, <1>8, <1>9, <1>10, <1>11, <1>12, <1>13, <1>14, <1>15, <1>16
     DEF Committing!Next

\* The paths of a commit are paths, and so the current one's.
LEMMA PathspecType ==
    ASSUME approved \in Seq(SUBSET Committing!Change), NEW i \in 1..Len(approved)
    PROVE  Committing!CommitPathspec(approved[i]) \subseteq Paths
<1>1. approved[i] \subseteq Committing!Change
  BY ElementOfSeq
<1> QED
  BY <1>1 DEF Committing!CommitPathspec, Committing!Change, Committing!None

LEMMA EditsSteps == ASSUME Committing!Next PROVE edits' = edits \/ edits' = edits + 1
BY DEF Committing!Next, Committing!Start, Committing!ReadRepository, Committing!Claude,
       Committing!Ask, Committing!Interrupt, Committing!Add, Committing!Commit,
       Committing!Confirm, Committing!Push, Committing!Report, Committing!Type, Committing!Edit

\* The user approves before anything is made.
LEMMA ApprovedSteps ==
    ASSUME Committing!Next PROVE  (UNCHANGED approved) \/ (commitPc = "ask" /\ UNCHANGED made)
BY DEF Committing!Next, Committing!Start, Committing!ReadRepository, Committing!Claude,
       Committing!Ask, Committing!Interrupt, Committing!Add, Committing!Commit,
       Committing!Confirm, Committing!Push, Committing!Report, Committing!Type, Committing!Edit,
       Committing!talk, Committing!trees

LEMMA MadeStaysNext ==
    ASSUME Committing!CommitScriptAssumption, CommitInv, Committing!Next
    PROVE  MadeStays'
<1> DEFINE of(k) == Committing!CommitPathspec(approved[k])
<1>1. /\ git \in GitState /\ made \in Seq(SUBSET Paths)
      /\ approved \in Seq(SUBSET Committing!Change) /\ edits \in Nat
  <2>1. edits \in 0..MaxEdits
    BY DEF CommitInv, Committing!TypeOK
  <2>2. /\ git \in GitState /\ made \in Seq(SUBSET Paths)
        /\ approved \in Seq(SUBSET Committing!Change)
    BY DEF CommitInv, Committing!TypeOK, GitState
  <2> QED
    BY <2>1, <2>2
<1>2. Len(made) \in Nat /\ Len(approved) \in Nat /\ Len(made) <= Len(approved)
  BY <1>1 DEF CommitInv, Stage
<1>3. SUFFICES ASSUME edits' = 0, NEW i \in 1..Len(made'),
                      NEW p \in Committing!CommitPathspec(approved'[i])
               PROVE  git'.head[p] = git'.tree[p] /\ git'.index[p] = git'.tree[p]
  BY DEF MadeStays, Committing!CommitPathspec
<1>4. edits = 0 /\ edits' # edits + 1
  BY <1>1, <1>3, EditsSteps
<1>5. CASE approved' # approved
  <2>1. commitPc = "ask" /\ UNCHANGED made
    BY <1>5, ApprovedSteps
  <2>2. approved = <<>>
    BY <2>1 DEF CommitInv, Stage
  <2>3. Len(made') = 0
    BY <1>2, <2>1, <2>2
  <2> QED
    BY <1>3, <2>3
<1>6. CASE approved' = approved
  <2>1. \A k \in 1..Len(made) : \A q \in of(k) :
          q \in Paths /\ git.head[q] = git.tree[q] /\ git.index[q] = git.tree[q]
    BY <1>1, <1>2, <1>4, PathspecType DEF CommitInv, MadeStays
  <2>2. p \in of(i)
    BY <1>6
  <2>3. CASE UNCHANGED <<git, made>>
    BY <1>3, <2>1, <2>2, <2>3
  <2> DEFINE current == Committing!Current
  <2> HIDE DEF current, of
  <2>4. CASE /\ UNCHANGED made
             /\ git' = [git EXCEPT !.index = Committing!Taken(@, current)]
    <3>1. i \in 1..Len(made)
      BY <2>4
    <3>2. /\ git'.head = git.head /\ git'.tree = git.tree
          /\ git'.index = Committing!Taken(git.index, current)
      BY <1>1, <2>4 DEF GitState
    <3>3. git'.index[p] = IF p \in current THEN git.tree[p] ELSE git.index[p]
      BY <2>1, <2>2, <3>1, <3>2 DEF Committing!Taken
    <3> QED
      BY <2>1, <2>2, <3>1, <3>2, <3>3
  <2>5. CASE /\ commitPc = "commit"
             /\ git' = [git EXCEPT !.head = Committing!Taken(@, current),
                                   !.index = Committing!Taken(@, current)]
             /\ \E paths \in SUBSET Paths : made' = Append(made, paths)
    <3>1. Len(made) < Len(approved) /\ Len(made') = Len(made) + 1
      BY <1>1, <2>5, AppendProperties DEF CommitInv, Stage
    <3>2. current = of(Len(made) + 1)
      BY DEF current, of, Committing!Current
    <3>3. current \subseteq Paths
      BY <1>1, <1>2, <3>1, <3>2, PathspecType DEF of
    <3>4. /\ git'.head = Committing!Taken(git.head, current) /\ git'.tree = git.tree
          /\ git'.index = Committing!Taken(git.index, current)
      BY <1>1, <2>5 DEF GitState
    <3>5. i \in 1..Len(made) \/ i = Len(made) + 1
      BY <1>2, <1>3, <3>1
    <3>6. p \in Paths /\ (p \in current \/ (git.head[p] = git.tree[p] /\ git.index[p] = git.tree[p]))
      BY <2>1, <2>2, <3>2, <3>3, <3>5
    <3>7. /\ git'.head[p] = IF p \in current THEN git.tree[p] ELSE git.head[p]
          /\ git'.index[p] = IF p \in current THEN git.tree[p] ELSE git.index[p]
      BY <3>4, <3>6 DEF Committing!Taken
    <3> QED
      BY <3>4, <3>6, <3>7
  <2>6. \/ UNCHANGED <<git, made>>
        \/ /\ UNCHANGED made
           /\ git' = [git EXCEPT !.index = Committing!Taken(@, current)]
        \/ /\ commitPc = "commit"
           /\ git' = [git EXCEPT !.head = Committing!Taken(@, current),
                                 !.index = Committing!Taken(@, current)]
           /\ \E paths \in SUBSET Paths : made' = Append(made, paths)
    <3>1. {q \in Paths : Committing!Taken(git.head, current)[q] # git.head[q]} \in SUBSET Paths
      OBVIOUS
    <3> QED
      BY <1>1, <1>4, <3>1, GitSteps DEF current
  <2> QED
    BY <2>3, <2>4, <2>5, <2>6
<1> QED
  BY <1>5, <1>6

-----------------------------------------------------------------------------
(* The commit script, whatever the user does *)

LEMMA CommitInvInit ==
    ASSUME Committing!CommitScriptAssumption, Committing!Init PROVE CommitInv
<1>1. Committing!TypeOK
  BY CommitInitType
<1>2. /\ changes = {} /\ proposal.commits = <<>> /\ approved = <<>> /\ made = <<>>
      /\ commitPc = "start" /\ commitExit = "none"
  BY DEF Committing!Init, Committing!None
<1>3. OneNameEach({}) /\ Sound(<<>>, {})
  BY DEF OneNameEach, Sound
<1> QED
  BY <1>1, <1>2, <1>3 DEF CommitInv, Stage, MadeStays

LEMMA CommitInvNext ==
    ASSUME Committing!CommitScriptAssumption, CommitInv, Committing!Next PROVE CommitInv'
<1>1. OneNameEach(changes)' /\ Sound(proposal.commits, changes)' /\ Sound(approved, changes)'
  BY SoundNext DEF OneNameEach, Sound
<1> QED
  BY <1>1, CommitTypeNext, StageNext, MadeStaysNext DEF CommitInv

LEMMA CommitInvStays == CommitInv /\ UNCHANGED commitVars => CommitInv'
<1> SUFFICES ASSUME CommitInv, UNCHANGED commitVars PROVE CommitInv'
  OBVIOUS
<1>1. UNCHANGED <<git, made, pushed, commitPc, commitOpts, changes, proposal, approved, round,
                  approvedIn, typed, lines, commitExit, said, edits>>
  BY DEF commitVars
<1>2. Committing!TypeOK'
  BY <1>1 DEF CommitInv, Committing!TypeOK
<1>3. OneNameEach(changes)' /\ Sound(proposal.commits, changes)' /\ Sound(approved, changes)'
  BY <1>1 DEF CommitInv, OneNameEach, Sound
<1>4. Stage' /\ MadeStays'
  BY <1>1 DEF CommitInv, Stage, MadeStays, Committing!CommitPathspec
<1> QED
  BY <1>2, <1>3, <1>4 DEF CommitInv

\* A run that ends well has made every commit that was approved.
LEMMA CommitInvIsSafe ==
    ASSUME CommitInv
    PROVE  /\ Committing!TypeOK /\ Committing!FinishedIsCommitted
           /\ Committing!ApprovedIsSound
<1>1. approved \in Seq(SUBSET Committing!Change)
  BY DEF CommitInv, Committing!TypeOK
<1>2. Committing!ApprovedIsSound
  BY DEF CommitInv, Sound, Committing!ApprovedIsSound
<1>3. ASSUME commitExit = "OK", edits = 0, NEW i \in DOMAIN approved, NEW c \in approved[i],
             NEW p \in {c.path, c.from} \ {"none"}
      PROVE  git.head[p] = git.tree[p] /\ git.index[p] = git.tree[p]
  <2>1. i \in 1..Len(made)
    BY <1>1, <1>3 DEF CommitInv, Stage
  <2>2. p \in Committing!CommitPathspec(approved[i])
    <3>1. approved[i] \subseteq Committing!Change
      BY <1>1, <1>3, ElementOfSeq
    <3> QED
      BY <1>3 DEF Committing!CommitPathspec, Committing!None
  <2> QED
    BY <1>3, <2>1, <2>2 DEF CommitInv, MadeStays
<1>4. Committing!FinishedIsCommitted
  BY <1>3 DEF Committing!FinishedIsCommitted, Committing!None
<1> QED
  BY <1>2, <1>4 DEF CommitInv

\* Only add and commit change the index and HEAD, at the paths of the commit
\* that is next.
LEMMA CommitTouches ==
    ASSUME CommitInv, Committing!Next, NEW p \in Paths
    PROVE  /\ git'.index[p] # git.index[p] => p \in Committing!PathspecOf(approved)
           /\ git'.head[p] # git.head[p] =>
                /\ Len(made') = Len(made) + 1
                /\ p \in Committing!CommitPathspec(approved[Len(made')])
<1> DEFINE current == Committing!Current
<1>1. /\ git \in GitState /\ made \in Seq(SUBSET Paths)
      /\ approved \in Seq(SUBSET Committing!Change)
  BY DEF CommitInv, Committing!TypeOK, GitState
<1>2. Len(made) \in Nat /\ Len(approved) \in Nat
  BY <1>1
<1>3. current = Committing!CommitPathspec(approved[Len(made) + 1])
  BY DEF Committing!Current
<1>4. commitPc \in {"add", "commit"} => current \subseteq Committing!PathspecOf(approved)
  <2>1. commitPc \in {"add", "commit"} => Len(made) + 1 \in DOMAIN approved
    BY <1>1, <1>2 DEF CommitInv, Stage
  <2> QED
    BY <1>3, <2>1 DEF Committing!PathspecOf
<1> HIDE DEF current
<1>5. ASSUME NEW t PROVE  Committing!Taken(t, current)[p] # t[p] => p \in current
  BY DEF Committing!Taken
<1>6. CASE UNCHANGED <<git, made>>
  BY <1>6
<1>7. CASE /\ commitPc = "add"
           /\ git' = [git EXCEPT !.index = Committing!Taken(@, current)]
  <2>1. git'.head = git.head /\ git'.index = Committing!Taken(git.index, current)
    BY <1>1, <1>7 DEF GitState
  <2> QED
    BY <1>4, <1>5, <1>7, <2>1
<1>8. CASE /\ commitPc = "commit"
           /\ git' = [git EXCEPT !.head = Committing!Taken(@, current),
                                 !.index = Committing!Taken(@, current)]
           /\ made' = Append(made, {q \in Paths :
                            Committing!Taken(git.head, current)[q] # git.head[q]})
  <2>1. /\ git'.head = Committing!Taken(git.head, current)
        /\ git'.index = Committing!Taken(git.index, current)
    BY <1>1, <1>8 DEF GitState
  <2>2. {q \in Paths : Committing!Taken(git.head, current)[q] # git.head[q]} \in SUBSET Paths
    OBVIOUS
  <2>3. Len(made') = Len(made) + 1
    BY <1>1, <1>8, <2>2, AppendProperties
  <2>4. p \in current => p \in Committing!CommitPathspec(approved[Len(made')])
    BY <1>3, <2>3
  <2> QED
    BY <1>4, <1>5, <1>8, <2>1, <2>3, <2>4
<1>9. CASE \E q \in Paths, content \in Contents \cup {"none"} : git' = [git EXCEPT !.tree[q] = content]
  <2>1. PICK q \in Paths : \E content \in Contents \cup {"none"} : git' = [git EXCEPT !.tree[q] = content]
    BY <1>9
  <2>2. git'.head = git.head /\ git'.index = git.index
    BY <1>1, <2>1 DEF GitState
  <2> QED
    BY <2>2
<1> QED
  BY <1>1, <1>6, <1>7, <1>8, <1>9, GitSteps DEF current

-----------------------------------------------------------------------------
(* Types of the document scripts *)

\* A session that was not started is one of the ends.
LEMMA NoOutcomeIs ==
    /\ Documents!NoOutcome \in Documents!Outcome
    /\ ~Documents!NoOutcome.spawned
<1> DEFINE o == [spawned |-> FALSE, result |-> "none", exitCode |-> 1, status |-> "none",
                 rateLimitHit |-> FALSE, words |-> {}]
<1>1. o \in Documents!Outcome
  BY DEF Documents!Outcome
<1>2. o \in Documents!Outcomes /\ ~o.spawned
  BY <1>1 DEF Documents!Outcomes
<1> HIDE DEF o
<1>3. Documents!NoOutcome \in Documents!Outcomes /\ ~Documents!NoOutcome.spawned
  BY <1>2 DEF Documents!NoOutcome
<1> QED
  BY <1>3 DEF Documents!Outcomes

LEMMA NoOptionsType ==
    ASSUME Documents!DocumentScriptsAssumption PROVE Documents!NoOptions \in Documents!Opts
<1>1. (CHOOSE d \in Days : TRUE) \in Days
  BY DEF Documents!DocumentScriptsAssumption
<1> QED
  BY <1>1 DEF Documents!NoOptions, Documents!Opts

LEMMA EndingType ==
    /\ \A o : Documents!ClassifyFailure(o) \in Documents!EXIT
    /\ Documents!Refusals \subseteq Documents!EXIT
    /\ {"OK", "UNKNOWN", "GIT", "NO_TARGET", "ISSUE_MISSING", "GIST_FAILED"} \subseteq Documents!EXIT
<1>1. \A o : Documents!ClassifyFailure(o) \in
                {"CLI_MISSING", "OK", "AUTH_FAILED", "RATE_LIMITED", "UNKNOWN"}
  BY DEF Documents!ClassifyFailure
<1> QED
  BY <1>1 DEF Documents!EXIT, Documents!Refusals

Place == {"start", "base", "targets", "issue", "prepare", "claude", "check", "publish", "link",
          "done"}
LinksType == [local: [Days -> 0..2], gists: SUBSET Runs]

\* The types, in parts that the actions change apart from each other.
RepoType ==
    /\ repo \in [local: Documents!Ref, remote: Documents!Ref, server: Documents!Ref,
                 head: Documents!Ref]
    /\ changed \subseteq Files
FilesType ==
    /\ review \in Documents!Author /\ html \in [Days -> Documents!Author]
    /\ pr \in Documents!Author /\ links \in LinksType
    /\ gists \subseteq [of: Documents!Author \ {"none"}, by: Runs]
RunsType ==
    /\ pc \in [Runs -> Place] /\ exit \in [Runs -> Documents!EXIT \cup {"none"}]
    /\ opts \in [Runs -> Documents!Opts] /\ base \in [Runs -> Documents!Ref]
    /\ targets \in [Runs -> SUBSET Files] /\ outcome \in [Runs -> Documents!Outcome]

LEMMA DocumentTypeIs == Documents!TypeOK <=> RepoType /\ FilesType /\ RunsType
<1>1. Documents!TypeOK => RepoType
  BY Zenon DEF Documents!TypeOK, RepoType
<1>2. Documents!TypeOK => FilesType
  BY Zenon DEF Documents!TypeOK, FilesType, LinksType, Documents!None
<1>3. Documents!TypeOK => RunsType
  BY Zenon DEF Documents!TypeOK, RunsType, Place, Documents!None
<1>4. RepoType /\ FilesType /\ RunsType => Documents!TypeOK
  BY Zenon DEF Documents!TypeOK, RepoType, FilesType, LinksType, RunsType, Place, Documents!None
<1> QED
  BY <1>1, <1>2, <1>3, <1>4

LEMMA DocumentInitType ==
    ASSUME Documents!DocumentScriptsAssumption, Documents!Init PROVE Documents!TypeOK
<1>1. RepoType
  BY DEF Documents!DocumentScriptsAssumption, Documents!Init, RepoType
<1>2. links \in LinksType
  <2>1. PICK n \in [Days -> {0, 1}] : links = [local |-> n, gists |-> {}]
    BY DEF Documents!Init
  <2>2. n \in [Days -> 0..2]
    OBVIOUS
  <2> QED
    BY <2>1, <2>2 DEF LinksType
<1>3. FilesType
  BY <1>2 DEF Documents!Init, FilesType, Documents!Author
<1>4. RunsType
  BY NoOptionsType, NoOutcomeIs DEF Documents!Init, RunsType, Place, Documents!Ref, Documents!None
<1> QED
  BY <1>1, <1>3, <1>4, DocumentTypeIs

\* A step of one run.
StepOf(r) ==
    \/ Documents!Start(r) \/ Documents!Base(r) \/ Documents!Targets(r) \/ Documents!Issue(r)
    \/ Documents!Prepare(r) \/ Documents!Claude(r) \/ Documents!ReviewEnds(r)
    \/ Documents!ExplainEnds(r) \/ Documents!PrChecked(r) \/ Documents!Publish(r)
    \/ Documents!Link(r)

LEMMA NextIsAStep == Documents!Next <=> \E r \in Runs : StepOf(r)
BY DEF Documents!Next, StepOf

\* A fetch brings origin/develop up to date, and nothing else of the repository changes.
LEMMA RepoSteps ==
    ASSUME RepoType, NEW r \in Runs, StepOf(r)
    PROVE  /\ RepoType'
           /\ changed' = changed /\ repo'.head = repo.head /\ repo'.local = repo.local
           /\ pc[r] # "base" => repo' = repo
<1>1. CASE Documents!Base(r)
  BY <1>1 DEF Documents!Base, RepoType
<1>2. CASE ~Documents!Base(r)
  <2>1. UNCHANGED <<repo, changed>>
    BY <1>2 DEF StepOf, Documents!Start, Documents!Targets, Documents!Issue,
       Documents!Prepare, Documents!Claude, Documents!ReviewEnds, Documents!ExplainEnds,
       Documents!PrChecked, Documents!Publish, Documents!Link
  <2> QED
    BY <2>1 DEF RepoType
<1> QED
  BY <1>1, <1>2

\* What a run leaves of the files: a session writes what it was asked for, the
\* page is removed before, and links are replaced after.
LEMMA FileSteps ==
    ASSUME NEW r \in Runs, StepOf(r)
    PROVE  \/ UNCHANGED <<review, html, pr, links>>
           \/ /\ Documents!Prepare(r) /\ html' = Documents!PageRemoved(r)
              /\ UNCHANGED <<review, pr, links>>
           \/ /\ Documents!Claude(r)
              /\ Documents!WritesReview(r) \/ Documents!WritesPage(r) \/ Documents!WritesPr(r)
           \/ Documents!Link(r) /\ links' = Documents!Replaced(r) /\ UNCHANGED <<review, html, pr>>
BY DEF StepOf, Documents!files,
       Documents!Start, Documents!Base, Documents!Targets, Documents!Issue,
       Documents!Prepare, Documents!Claude, Documents!ReviewEnds, Documents!ExplainEnds,
       Documents!PrChecked, Documents!Publish, Documents!Link

\* Whatever is counted anew of one day, the links keep their type.
LEMMA CountedType ==
    ASSUME NEW f \in [Days -> 0..2], NEW d \in Days, NEW n \in 0..2
    PROVE  [f EXCEPT ![d] = n] \in [Days -> 0..2]
OBVIOUS

LEMMA LinksAre ==
    ASSUME NEW l \in LinksType
    PROVE  l.local \in [Days -> 0..2] /\ l.gists \subseteq Runs
BY DEF LinksType

LEMMA LinksMade ==
    ASSUME NEW f \in [Days -> 0..2], NEW g \in SUBSET Runs
    PROVE  [local |-> f, gists |-> g] \in LinksType
BY DEF LinksType

LEMMA FilesTypeNext ==
    ASSUME Documents!TypeOK, NEW r \in Runs, StepOf(r) PROVE FilesType'
<1>1. FilesType /\ opts[r].day \in Days
  BY DocumentTypeIs DEF RunsType, Documents!Opts
<1>2. r \in Documents!Author /\ "none" \in Documents!Author
  BY DEF Documents!Author, Documents!None
<1>3. [html EXCEPT ![opts[r].day] = r] \in [Days -> Documents!Author]
  BY <1>1, <1>2 DEF FilesType
<1>4. gists' \subseteq [of: Documents!Author \ {"none"}, by: Runs]
  <2>1. CASE Documents!Publish(r)
    <3>1. html[opts[r].day] \in Documents!Author
      BY <1>1 DEF FilesType
    <3> QED
      BY <1>1, <2>1, <3>1 DEF Documents!Publish, FilesType, Documents!None
  <2>2. CASE ~Documents!Publish(r)
    <3>1. UNCHANGED gists
      BY <2>2 DEF StepOf, Documents!files, Documents!Start, Documents!Base, Documents!Targets,
         Documents!Issue, Documents!Prepare, Documents!Claude, Documents!ReviewEnds,
         Documents!ExplainEnds, Documents!PrChecked, Documents!Link
    <3> QED
      BY <1>1, <3>1 DEF FilesType
  <2> QED
    BY <2>1, <2>2
<1>5. CASE UNCHANGED <<review, html, pr, links>>
  BY <1>1, <1>4, <1>5 DEF FilesType
<1>6. CASE html' = Documents!PageRemoved(r) /\ UNCHANGED <<review, pr, links>>
  <2>1. html' \in [Days -> Documents!Author]
    BY <1>1, <1>2, <1>6 DEF FilesType, Documents!PageRemoved, Documents!None
  <2> QED
    BY <1>1, <1>4, <1>6, <2>1 DEF FilesType
<1>7. CASE Documents!WritesReview(r)
  BY <1>1, <1>2, <1>4, <1>7 DEF FilesType, Documents!WritesReview
<1>8. CASE Documents!WritesPage(r)
  BY <1>1, <1>3, <1>4, <1>8 DEF FilesType, Documents!WritesPage
<1>9. CASE Documents!WritesPr(r)
  <2>1. html' \in [Days -> Documents!Author] /\ pr' \in Documents!Author
        /\ review' \in Documents!Author
    BY <1>1, <1>2, <1>3, <1>9 DEF FilesType, Documents!WritesPr
  <2>2. links' \in LinksType
    <3>1. ASSUME NEW n \in 1..2
          PROVE  [Documents!NoLinks EXCEPT !.local[opts[r].day] = n] \in LinksType
      <4> DEFINE zero == [d \in Days |-> 0]
      <4>1. zero \in [Days -> 0..2]
        OBVIOUS
      <4>2. n \in 0..2
        OBVIOUS
      <4>3. [zero EXCEPT ![opts[r].day] = n] \in [Days -> 0..2]
        <5> HIDE DEF zero
        <5> QED
          BY <1>1, <4>1, <4>2, CountedType
      <4>4. [Documents!NoLinks EXCEPT !.local[opts[r].day] = n] =
              [local |-> [zero EXCEPT ![opts[r].day] = n], gists |-> {}]
        BY DEF Documents!NoLinks
      <4>5. {} \in SUBSET Runs
        OBVIOUS
      <4> HIDE DEF zero
      <4> QED
        BY <4>3, <4>4, <4>5, LinksMade
    <3> QED
      BY <1>1, <1>9, <3>1 DEF FilesType, Documents!WritesPr
  <2> QED
    BY <1>4, <2>1, <2>2 DEF FilesType
<1>10. CASE links' = Documents!Replaced(r) /\ UNCHANGED <<review, html, pr>>
  <2>1. links \in LinksType
    BY <1>1 DEF FilesType
  <2>2. [links.local EXCEPT ![opts[r].day] = 0] \in [Days -> 0..2]
    <3>1. links.local \in [Days -> 0..2] /\ 0 \in 0..2
      BY <2>1, LinksAre
    <3> QED
      BY <1>1, <3>1, CountedType
  <2>3. links' \in LinksType
    <3>1. links.gists \cup {r} \in SUBSET Runs
      BY <2>1, LinksAre
    <3>2. [local |-> [links.local EXCEPT ![opts[r].day] = 0], gists |-> links.gists \cup {r}]
            \in LinksType
      BY <2>2, <3>1, LinksMade
    <3> QED
      BY <1>10, <2>1, <3>2 DEF Documents!Replaced
  <2> QED
    BY <1>1, <1>4, <1>10, <2>3 DEF FilesType
<1> QED
  BY <1>5, <1>6, <1>7, <1>8, <1>9, <1>10, FileSteps

\* What a run knows changes at its own place of the run, for itself alone.
LEMMA RunSteps ==
    ASSUME Documents!TypeOK, NEW r \in Runs, StepOf(r)
    PROVE  /\ \E to \in Place \ {"start"} : pc' = [pc EXCEPT ![r] = to]
           /\ \/ UNCHANGED exit
              \/ pc'[r] = "done"
                 /\ \E code \in Documents!EXIT : exit' = [exit EXCEPT ![r] = code]
           /\ \/ UNCHANGED opts
              \/ pc[r] = "start" /\ \E o \in Documents!Opts : opts' = [opts EXCEPT ![r] = o]
           /\ \/ UNCHANGED base
              \/ pc[r] = "base" /\ \E b \in Documents!Ref : base' = [base EXCEPT ![r] = b]
           /\ \/ UNCHANGED targets
              \/ pc[r] = "targets" /\ \E t \in SUBSET Files : targets' = [targets EXCEPT ![r] = t]
           /\ \/ UNCHANGED outcome
              \/ pc[r] = "claude"
                 /\ \E o \in Documents!Outcome : outcome' = [outcome EXCEPT ![r] = o]
<1> DEFINE Goes(to) == pc' = [pc EXCEPT ![r] = to]
           Ends == \E code \in Documents!EXIT : exit' = [exit EXCEPT ![r] = code]
<1>1. /\ {"OK", "UNKNOWN", "GIT", "NO_TARGET", "ISSUE_MISSING", "GIST_FAILED"} \subseteq Documents!EXIT
      /\ Documents!Refusals \subseteq Documents!EXIT
      /\ \A o : Documents!ClassifyFailure(o) \in Documents!EXIT
  BY EndingType
<1>2. /\ {"base", "targets", "issue", "prepare", "claude", "check", "publish", "link", "done"}
            \subseteq Place \ {"start"}
      /\ "done" \in Place \ {"start"}
  BY DEF Place
<1>3. pc \in [Runs -> Place] /\ r \in DOMAIN pc
  BY DocumentTypeIs DEF RunsType
<1>4. ASSUME NEW code \in Documents!EXIT, Documents!Exit(r, code)
      PROVE  /\ \E to \in Place \ {"start"} : pc' = [pc EXCEPT ![r] = to]
             /\ pc'[r] = "done" /\ \E c \in Documents!EXIT : exit' = [exit EXCEPT ![r] = c]
  BY <1>2, <1>3, <1>4 DEF Documents!Exit
<1>5. ASSUME NEW to \in Place \ {"start"}, Documents!GoOn(r, to)
      PROVE  (\E t \in Place \ {"start"} : pc' = [pc EXCEPT ![r] = t]) /\ UNCHANGED exit
  BY <1>5 DEF Documents!GoOn
<1>6. CASE Documents!Start(r)
  <2>1. \A o \in Documents!Options(r) : Documents!DocumentScriptsAssumption => o \in Documents!Opts
    BY DEF Documents!Options, Documents!ReviewOptions, Documents!ExplainOptions,
           Documents!PrOptions, Documents!Opts, Documents!DocumentScriptsAssumption
  <2>2. \/ \E code \in Documents!Refusals : Documents!Exit(r, code) /\ UNCHANGED opts
        \/ /\ \E o \in Documents!Options(r) : opts' = [opts EXCEPT ![r] = o]
           /\ Documents!GoOn(r, "base")
    BY <1>6 DEF Documents!Start
  <2>3. pc[r] = "start" /\ UNCHANGED <<base, targets, outcome>>
    BY <1>6 DEF Documents!Start
  <2> QED
    BY <1>1, <1>2, <1>4, <1>5, <2>1, <2>2, <2>3, ScriptsAssumption
<1>7. CASE Documents!Base(r)
  <2>1. Documents!BaseOf(repo, repo') \in Documents!Ref
    BY <1>7, RepoSteps, DocumentTypeIs DEF Documents!BaseOf, RepoType, Documents!Ref
  <2>2. /\ pc[r] = "base" /\ UNCHANGED <<opts, targets, outcome>>
        /\ base' = [base EXCEPT ![r] = Documents!BaseOf(repo, repo')]
        /\ Documents!Exit(r, "GIT") \/ Documents!GoOn(r, "targets")
    BY <1>7 DEF Documents!Base
  <2> QED
    BY <1>1, <1>2, <1>4, <1>5, <2>1, <2>2
<1>8. CASE Documents!Targets(r)
  <2>1. changed \subseteq Files
    BY DocumentTypeIs DEF RepoType
  <2>2. Documents!ReviewTargets(r) \in SUBSET Files /\ Documents!ExplainTargets(r) \in SUBSET Files
    BY <2>1 DEF Documents!ReviewTargets, Documents!ExplainTargets, Documents!Diff,
                Documents!Untracked
  <2>3. /\ pc[r] = "targets" /\ UNCHANGED <<opts, base, outcome>>
        /\ \/ Documents!Exit(r, "NO_TARGET") \/ Documents!GoOn(r, "prepare")
           \/ Documents!GoOn(r, "issue")
        /\ \/ UNCHANGED targets
           \/ targets' = [targets EXCEPT ![r] = IF Script[r] = "review"
                            THEN Documents!ReviewTargets(r) ELSE Documents!ExplainTargets(r)]
    BY <1>8 DEF Documents!Targets
  <2> QED
    BY <1>1, <1>2, <1>4, <1>5, <2>2, <2>3
<1>9. CASE Documents!Issue(r)
  BY <1>1, <1>2, <1>4, <1>5, <1>9 DEF Documents!Issue
<1>10. CASE Documents!Prepare(r)
  BY <1>1, <1>2, <1>4, <1>5, <1>10 DEF Documents!Prepare
<1>11. CASE Documents!Claude(r)
  <2>1. PICK o \in Endings :
          /\ outcome' = [outcome EXCEPT ![r] = o]
          /\ Documents!GoOn(r, "check") \/ Documents!Exit(r, Documents!ClassifyFailure(o))
    BY <1>11 DEF Documents!Claude
  <2>2. o \in Documents!Outcome
    BY ScriptsAssumption DEF Documents!DocumentScriptsAssumption, Documents!Outcomes
  <2>3. pc[r] = "claude" /\ UNCHANGED <<opts, base, targets>>
    BY <1>11 DEF Documents!Claude
  <2> QED
    BY <1>1, <1>2, <1>4, <1>5, <2>1, <2>2, <2>3
<1>12. CASE Documents!ReviewEnds(r)
  BY <1>1, <1>4, <1>12 DEF Documents!ReviewEnds
<1>13. CASE Documents!ExplainEnds(r)
  BY <1>1, <1>4, <1>13 DEF Documents!ExplainEnds
<1>14. CASE Documents!PrChecked(r)
  BY <1>1, <1>2, <1>4, <1>5, <1>14 DEF Documents!PrChecked
<1>15. CASE Documents!Publish(r)
  BY <1>1, <1>2, <1>4, <1>5, <1>15 DEF Documents!Publish
<1>16. CASE Documents!Link(r)
  BY <1>1, <1>4, <1>16 DEF Documents!Link
<1> QED
  BY <1>6, <1>7, <1>8, <1>9, <1>10, <1>11, <1>12, <1>13, <1>14, <1>15, <1>16 DEF StepOf

LEMMA RunsTypeNext ==
    ASSUME Documents!TypeOK, NEW r \in Runs, StepOf(r) PROVE RunsType'
<1>1. RunsType
  BY DocumentTypeIs
<1>2. pc' \in [Runs -> Place] /\ exit' \in [Runs -> Documents!EXIT \cup {"none"}]
  BY <1>1, RunSteps DEF RunsType
<1>3. opts' \in [Runs -> Documents!Opts] /\ base' \in [Runs -> Documents!Ref]
  BY <1>1, RunSteps DEF RunsType
<1>4. targets' \in [Runs -> SUBSET Files] /\ outcome' \in [Runs -> Documents!Outcome]
  BY <1>1, RunSteps DEF RunsType
<1> QED
  BY <1>2, <1>3, <1>4 DEF RunsType

LEMMA DocumentTypeNext ==
    ASSUME Documents!TypeOK, NEW r \in Runs, StepOf(r) PROVE Documents!TypeOK'
<1>1. RepoType' /\ FilesType' /\ RunsType'
  BY RepoSteps, FilesTypeNext, RunsTypeNext, DocumentTypeIs
<1>2. (Documents!TypeOK <=> RepoType /\ FilesType /\ RunsType)'
  BY DocumentTypeIs, PTL
<1> QED
  BY <1>1, <1>2

-----------------------------------------------------------------------------
(* The invariant of the document scripts *)

\* A run ends once; what it has not come to it has not done.
RunsAre ==
    \A r \in Runs :
        /\ exit[r] # "none" => pc[r] = "done"
        /\ pc[r] \in {"issue", "publish", "link"} => Script[r] = "pr"
        /\ pc[r] \notin {"check", "publish", "link", "done"} => ~outcome[r].spawned
        /\ pc[r] \in {"start", "base"} => base[r] = {}

\* Runs that may not overlap are under way one after the other.
OneAtATime ==
    Overlap \/ \A r, s \in Runs : r # s => pc[r] \in {"start", "done"} \/ pc[s] \in {"start", "done"}

\* What is changed is in a commit of the branch or not committed yet.
ChangedAre == \A f \in changed : f.in \in repo.head \cup {"tree", "untracked"}

\* No other run has begun.
Alone(r) == \A s \in Runs \ {r} : pc[s] = "start"

\* The page of the day is gone before the session writes its own.
PageIsOwn ==
    \A r \in Runs : Script[r] = "explain" /\ Alone(r) =>
        /\ pc[r] \in {"claude", "check"} => html[opts[r].day] \in {"none", r}
        /\ exit[r] = "OK" /\ outcome[r].spawned => html[opts[r].day] = r

DocumentInv ==
    /\ Documents!TypeOK
    /\ RunsAre /\ OneAtATime /\ ChangedAre
    /\ Documents!ComparesOwnCommits /\ Documents!NothingLeftOut
    /\ PageIsOwn /\ Documents!NoLocalPaths

LEMMA OthersStay ==
    ASSUME Documents!TypeOK, NEW r \in Runs, StepOf(r), NEW s \in Runs, s # r
    PROVE  /\ pc'[s] = pc[s] /\ exit'[s] = exit[s] /\ opts'[s] = opts[s]
           /\ base'[s] = base[s] /\ targets'[s] = targets[s] /\ outcome'[s] = outcome[s]
<1>1. RunsType
  BY DocumentTypeIs
<1>2. pc'[s] = pc[s] /\ exit'[s] = exit[s]
  BY <1>1, RunSteps DEF RunsType
<1>3. opts'[s] = opts[s] /\ base'[s] = base[s]
  BY <1>1, RunSteps DEF RunsType
<1>4. targets'[s] = targets[s] /\ outcome'[s] = outcome[s]
  BY <1>1, RunSteps DEF RunsType
<1> QED
  BY <1>2, <1>3, <1>4

LEMMA ExitIs ==
    ASSUME Documents!TypeOK, NEW r \in Runs, NEW code, Documents!Exit(r, code)
    PROVE  pc'[r] = "done" /\ exit'[r] = code
<1>1. pc \in [Runs -> Place] /\ exit \in [Runs -> Documents!EXIT \cup {"none"}]
  BY DocumentTypeIs DEF RunsType
<1> QED
  BY <1>1 DEF Documents!Exit

LEMMA GoOnIs ==
    ASSUME Documents!TypeOK, NEW r \in Runs, NEW to, Documents!GoOn(r, to)
    PROVE  pc'[r] = to /\ exit'[r] = exit[r]
<1>1. pc \in [Runs -> Place]
  BY DocumentTypeIs DEF RunsType
<1> QED
  BY <1>1 DEF Documents!GoOn

\* Where a step takes its run, and how the run may end there.
LEMMA WhereItGoes ==
    ASSUME Documents!TypeOK, NEW r \in Runs, StepOf(r)
    PROVE  \/ /\ Documents!Start(r) /\ pc[r] = "start" /\ pc'[r] \in {"base", "done"}
              /\ UNCHANGED <<base, outcome>>
           \/ /\ Documents!Base(r) /\ pc[r] = "base" /\ pc'[r] \in {"targets", "done"}
              /\ UNCHANGED outcome
           \/ /\ Documents!Targets(r) /\ pc[r] = "targets" /\ UNCHANGED <<base, outcome>>
              /\ pc'[r] \in {"prepare", "done"} \/ (pc'[r] = "issue" /\ Script[r] = "pr")
           \/ /\ Documents!Issue(r) /\ pc[r] = "issue" /\ pc'[r] \in {"prepare", "done"}
              /\ UNCHANGED <<base, outcome>>
           \/ /\ Documents!Prepare(r) /\ pc[r] = "prepare" /\ UNCHANGED <<base, outcome>>
              /\ pc'[r] \in {"claude", "done"}
           \/ /\ Documents!Claude(r) /\ pc[r] = "claude" /\ UNCHANGED base
              /\ pc'[r] = "check" \/ (pc'[r] = "done" /\ exit'[r] # "OK")
           \/ /\ Documents!ReviewEnds(r) /\ pc[r] = "check" /\ Script[r] = "review"
              /\ pc'[r] = "done" /\ UNCHANGED <<base, outcome>>
           \/ /\ Documents!ExplainEnds(r) /\ pc[r] = "check" /\ Script[r] = "explain"
              /\ pc'[r] = "done" /\ UNCHANGED <<base, outcome>>
           \/ /\ Documents!PrChecked(r) /\ pc[r] = "check" /\ Script[r] = "pr"
              /\ UNCHANGED <<base, outcome>>
              /\ pc'[r] = "publish" \/ (pc'[r] = "done" /\ exit'[r] # "OK")
           \/ /\ Documents!Publish(r) /\ pc[r] = "publish" /\ UNCHANGED <<base, outcome>>
              /\ pc'[r] = "link" \/ (pc'[r] = "done" /\ exit'[r] # "OK")
           \/ /\ Documents!Link(r) /\ pc[r] = "link" /\ pc'[r] = "done"
              /\ UNCHANGED <<base, outcome>>
<1>1. CASE Documents!Start(r)
  BY <1>1, ExitIs, GoOnIs DEF Documents!Start
<1>2. CASE Documents!Base(r)
  BY <1>2, ExitIs, GoOnIs DEF Documents!Base
<1>3. CASE Documents!Targets(r)
  BY <1>3, ExitIs, GoOnIs DEF Documents!Targets
<1>4. CASE Documents!Issue(r)
  BY <1>4, ExitIs, GoOnIs DEF Documents!Issue
<1>5. CASE Documents!Prepare(r)
  BY <1>5, ExitIs, GoOnIs DEF Documents!Prepare
<1>6. CASE Documents!Claude(r)
  BY <1>6, ExitIs, GoOnIs DEF Documents!Claude
<1>7. CASE Documents!ReviewEnds(r)
  BY <1>7, ExitIs DEF Documents!ReviewEnds
<1>8. CASE Documents!ExplainEnds(r)
  BY <1>8, ExitIs DEF Documents!ExplainEnds
<1>9. CASE Documents!PrChecked(r)
  BY <1>9, ExitIs, GoOnIs DEF Documents!PrChecked
<1>10. CASE Documents!Publish(r)
  BY <1>10, ExitIs, GoOnIs DEF Documents!Publish
<1>11. CASE Documents!Link(r)
  BY <1>11, ExitIs DEF Documents!Link
<1> QED
  BY <1>1, <1>2, <1>3, <1>4, <1>5, <1>6, <1>7, <1>8, <1>9, <1>10, <1>11 DEF StepOf

LEMMA RunsAreNext ==
    ASSUME Documents!TypeOK, RunsAre, NEW r \in Runs, StepOf(r) PROVE RunsAre'
<1>1. SUFFICES ASSUME NEW s \in Runs
               PROVE  /\ exit'[s] # "none" => pc'[s] = "done"
                      /\ pc'[s] \in {"issue", "publish", "link"} => Script[s] = "pr"
                      /\ pc'[s] \notin {"check", "publish", "link", "done"} => ~outcome'[s].spawned
                      /\ pc'[s] \in {"start", "base"} => base'[s] = {}
  BY DEF RunsAre
<1>2. CASE s # r
  BY <1>2, OthersStay DEF RunsAre
<1>3. CASE s = r
  <2>1. pc[r] # "done"
    BY WhereItGoes
  <2>2. exit'[r] # "none" => pc'[r] = "done"
    <3>1. exit[r] = "none"
      BY <2>1 DEF RunsAre
    <3>2. exit' = exit \/ pc'[r] = "done"
      BY RunSteps
    <3> QED
      BY <3>1, <3>2
  <2>3. pc'[r] \in {"issue", "publish", "link"} => Script[r] = "pr"
    BY WhereItGoes DEF RunsAre
  <2>4. pc'[r] \notin {"check", "publish", "link", "done"} => ~outcome'[r].spawned
    BY WhereItGoes DEF RunsAre
  <2>5. pc'[r] \in {"start", "base"} => base'[r] = {}
    BY WhereItGoes DEF RunsAre
  <2> QED
    BY <1>3, <2>2, <2>3, <2>4, <2>5
<1> QED
  BY <1>2, <1>3

LEMMA ChangedAreNext ==
    ASSUME Documents!TypeOK, ChangedAre, NEW r \in Runs, StepOf(r) PROVE ChangedAre'
BY RepoSteps, DocumentTypeIs DEF ChangedAre

\* Only one run is under way unless they may overlap.
LEMMA OneAtATimeNext ==
    ASSUME Documents!TypeOK, OneAtATime, NEW r \in Runs, StepOf(r) PROVE OneAtATime'
<1>1. SUFFICES ASSUME ~Overlap, NEW s \in Runs, NEW q \in Runs, s # q,
                      pc'[s] \notin {"start", "done"}, pc'[q] \notin {"start", "done"}
               PROVE  FALSE
  BY DEF OneAtATime
<1>2. ASSUME NEW t \in Runs, t # r, pc'[t] \notin {"start", "done"},
             pc'[r] \notin {"start", "done"}
      PROVE  FALSE
  <2>1. pc[t] \notin {"start", "done"}
    BY <1>2, OthersStay
  <2>2. pc[r] \in {"start", "done"}
    BY <1>1, <1>2, <2>1 DEF OneAtATime
  <2>3. Documents!Start(r)
    BY <2>2, WhereItGoes
  <2> QED
    BY <1>1, <2>1, <2>3 DEF Documents!Start
<1>3. CASE s = r \/ q = r
  BY <1>1, <1>2, <1>3
<1>4. CASE s # r /\ q # r
  BY <1>1, <1>4, OthersStay DEF OneAtATime
<1> QED
  BY <1>3, <1>4

\* The base is chosen with what was fetched, and no later step changes either.
LEMMA ComparesNext ==
    ASSUME Documents!TypeOK, RunsAre, OneAtATime, Documents!ComparesOwnCommits,
           NEW r \in Runs, StepOf(r)
    PROVE  Documents!ComparesOwnCommits'
<1>1. SUFFICES ASSUME NEW s \in Runs, pc'[s] \notin {"start", "base"}, base'[s] # {},
                      repo'.local \subseteq repo'.remote,
                      Documents!FetchedLast(s)'
               PROVE  (repo'.head \ base'[s]) \cap repo'.remote = {}
  BY DEF Documents!ComparesOwnCommits
<1>2. RepoType /\ base \in [Runs -> Documents!Ref]
  BY DocumentTypeIs DEF RunsType
<1>3. ASSUME repo' = repo, base'[s] = base[s], pc[s] \notin {"start", "base"},
             Documents!FetchedLast(s)
      PROVE  (repo'.head \ base'[s]) \cap repo'.remote = {}
  BY <1>1, <1>3 DEF Documents!ComparesOwnCommits
<1>4. CASE s # r
  <2>1. pc[s] = pc'[s] /\ base'[s] = base[s] /\ \A q \in Runs \ {r} : pc'[q] = pc[q]
    BY <1>4, OthersStay
  <2>2. CASE pc'[r] \in {"start", "base"}
    <3>1. pc[r] = "start"
      BY <2>2, WhereItGoes
    <3>2. repo' = repo
      BY <1>2, <3>1, RepoSteps
    <3>3. Documents!FetchedLast(s)
      BY <1>1, <2>1, <3>1 DEF Documents!FetchedLast
    <3> QED
      BY <1>1, <1>3, <2>1, <3>2, <3>3
  <2>3. CASE pc'[r] \notin {"start", "base"}
    <3>1. ~Overlap /\ pc[s] \notin {"start", "done"}
      BY <1>1, <1>4, <2>1, <2>3 DEF Documents!FetchedLast
    <3>2. pc[r] \in {"start", "done"}
      BY <1>4, <3>1 DEF OneAtATime
    <3>3. Documents!Start(r)
      BY <3>2, WhereItGoes
    <3> QED
      BY <3>1, <3>3 DEF Documents!Start
  <2> QED
    BY <2>2, <2>3
<1>5. CASE s = r
  <2>1. pc[r] # "done" /\ \A q \in Runs \ {r} : pc'[q] = pc[q]
    BY OthersStay, WhereItGoes
  <2>2. CASE Documents!Base(r)
    <3>1. base'[r] = Documents!BaseOf(repo, repo')
      BY <1>2, <2>2 DEF Documents!Base
    <3>2. Documents!BaseOf(repo, repo') = repo'.remote
      BY <1>1 DEF Documents!BaseOf
    <3> QED
      BY <1>5, <3>1, <3>2
  <2>3. CASE ~Documents!Base(r)
    <3>1. pc[r] # "base" /\ UNCHANGED base
      BY <2>3, WhereItGoes
    <3>2. pc[r] # "start"
      <4>1. base[r] # {}
        BY <1>1, <1>5, <3>1
      <4> QED
        BY <4>1 DEF RunsAre
    <3>3. repo' = repo
      BY <1>2, <3>1, RepoSteps
    <3>4. Documents!FetchedLast(s)
      BY <1>1, <1>5, <2>1 DEF Documents!FetchedLast
    <3> QED
      BY <1>3, <1>5, <3>1, <3>2, <3>3, <3>4
  <2> QED
    BY <2>2, <2>3
<1> QED
  BY <1>4, <1>5

\* What a run was to explain is all that it was asked for, and stays so.
LEMMA NothingLeftOutNext ==
    ASSUME Documents!TypeOK, RunsAre, ChangedAre, Documents!NothingLeftOut,
           NEW r \in Runs, StepOf(r)
    PROVE  Documents!NothingLeftOut'
<1>1. SUFFICES ASSUME NEW s \in Runs, pc'[s] \in {"prepare", "claude", "check"}, Script[s] # "pr",
                      NEW f \in changed', f \notin targets'[s]
               PROVE  \/ f.generated
                      \/ f.deleted /\ Script[s] = "review"
                      \/ f.in \in base'[s]
                      \/ f.in \in {"tree", "untracked"} /\ ~opts'[s].tree
  BY DEF Documents!NothingLeftOut
<1>2. changed' = changed
  BY RepoSteps, DocumentTypeIs
<1>3. ASSUME pc[s] \in {"prepare", "claude", "check"}, targets'[s] = targets[s],
             base'[s] = base[s], opts'[s] = opts[s]
      PROVE  \/ f.generated
             \/ f.deleted /\ Script[s] = "review"
             \/ f.in \in base'[s]
             \/ f.in \in {"tree", "untracked"} /\ ~opts'[s].tree
  BY <1>1, <1>2, <1>3 DEF Documents!NothingLeftOut
<1>4. CASE s # r
  BY <1>1, <1>3, <1>4, OthersStay
<1>5. CASE s = r
  <2>1. CASE Documents!Targets(r)
    <3>1. targets \in [Runs -> SUBSET Files] /\ Script \in [Runs -> {"review", "explain", "pr"}]
      BY DocumentTypeIs, ScriptsAssumption DEF RunsType, Documents!DocumentScriptsAssumption
    <3>2. targets'[r] = IF Script[r] = "review" THEN Documents!ReviewTargets(r)
                        ELSE Documents!ExplainTargets(r)
      BY <1>1, <1>5, <2>1, <3>1 DEF Documents!Targets
    <3>3. UNCHANGED <<opts, base>>
      BY <2>1 DEF Documents!Targets
    <3>4. f.in \in repo.head \cup {"tree", "untracked"}
      BY <1>2 DEF ChangedAre
    <3>5. CASE f \in Documents!Diff(r) \cup Documents!Untracked(r)
      <4>1. CASE Script[r] = "review"
        BY <1>1, <1>5, <3>2, <3>5, <4>1 DEF Documents!ReviewTargets, Documents!IsReviewTarget
      <4>2. CASE Script[r] # "review"
        BY <1>1, <1>5, <3>2, <3>5, <4>2 DEF Documents!ExplainTargets, Documents!IsExplainTarget
      <4> QED
        BY <4>1, <4>2
    <3>6. CASE f \notin Documents!Diff(r) \cup Documents!Untracked(r)
      BY <1>2, <1>5, <3>3, <3>4, <3>6 DEF Documents!Diff, Documents!Untracked
    <3> QED
      BY <3>5, <3>6
  <2>2. CASE ~Documents!Targets(r)
    <3>1. pc[r] \in {"prepare", "claude"}
      BY <1>1, <1>5, <2>2, WhereItGoes DEF RunsAre
    <3>2. UNCHANGED <<targets, base, opts>>
      BY <3>1, RunSteps
    <3> QED
      BY <1>3, <1>5, <3>1, <3>2
  <2> QED
    BY <2>1, <2>2
<1> QED
  BY <1>4, <1>5

\* While no other run has begun, the page of the day is what this run leaves there.
LEMMA PageIsOwnNext ==
    ASSUME Documents!TypeOK, RunsAre, PageIsOwn, NEW r \in Runs, StepOf(r) PROVE PageIsOwn'
<1>1. SUFFICES ASSUME NEW s \in Runs, Script[s] = "explain", Alone(s)'
               PROVE  /\ pc'[s] \in {"claude", "check"} => html'[opts'[s].day] \in {"none", s}
                      /\ exit'[s] = "OK" /\ outcome'[s].spawned => html'[opts'[s].day] = s
  BY DEF PageIsOwn
<1>2. s = r
  <2>1. pc'[r] # "start"
    BY WhereItGoes
  <2> QED
    BY <1>1, <2>1 DEF Alone
<1>3. Alone(r)
  BY <1>1, <1>2, OthersStay DEF Alone
<1>4. pc[r] # "done" /\ exit[r] # "OK"
  BY WhereItGoes DEF RunsAre
<1>5. html \in [Days -> Documents!Author] /\ opts[r].day \in Days
  BY DocumentTypeIs DEF FilesType, RunsType, Documents!Opts
<1> DEFINE day == opts[r].day
<1>6. CASE Documents!Prepare(r)
  <2>1. opts' = opts /\ pc'[r] \in {"claude", "done"} /\ ~outcome'[r].spawned
    BY <1>6, WhereItGoes DEF Documents!Prepare, RunsAre
  <2>2. pc'[r] = "claude" => html'[day] = "none"
    <3>1. pc'[r] = "claude" => html' = Documents!PageRemoved(r)
      BY <1>6, ExitIs DEF Documents!Prepare
    <3>2. Documents!PageRemoved(r)[day] = "none"
      BY <1>1, <1>2, <1>5 DEF Documents!PageRemoved, Documents!None
    <3> QED
      BY <3>1, <3>2
  <2> QED
    BY <1>2, <2>1, <2>2
<1>7. CASE Documents!Claude(r)
  <2>1. opts' = opts /\ (pc'[r] = "check" \/ exit'[r] # "OK")
    BY <1>7, WhereItGoes DEF Documents!Claude
  <2>2. pc[r] = "claude" /\ html[day] \in {"none", r}
    BY <1>1, <1>2, <1>3, <1>7 DEF Documents!Claude, PageIsOwn
  <2>3. html' \in {html, [html EXCEPT ![day] = r]}
    BY <1>1, <1>2, <1>7 DEF Documents!Claude, Documents!WritesReview, Documents!WritesPage,
                            Documents!WritesPr
  <2>4. html'[day] \in {"none", r}
    BY <1>5, <2>2, <2>3
  <2>5. pc'[r] = "check" => exit'[r] # "OK"
    <3>1. pc'[r] = "check" => exit' = exit
      BY RunSteps
    <3> QED
      BY <1>4, <3>1
  <2> QED
    BY <1>2, <2>1, <2>4, <2>5
<1>8. CASE Documents!ExplainEnds(r)
  <2>1. html' = html /\ opts' = opts /\ pc'[r] = "done"
    BY <1>8, ExitIs DEF Documents!ExplainEnds, Documents!files
  <2>2. html[day] \in {"none", r}
    BY <1>1, <1>2, <1>3, <1>8 DEF Documents!ExplainEnds, PageIsOwn
  <2>3. exit'[r] = "OK" => html[day] # "none"
    BY <1>8, ExitIs DEF Documents!ExplainEnds, Documents!None
  <2> QED
    BY <1>2, <2>1, <2>2, <2>3
<1>9. CASE ~Documents!Prepare(r) /\ ~Documents!Claude(r) /\ ~Documents!ExplainEnds(r)
  <2>1. pc'[r] \notin {"claude", "check"}
    BY <1>9, WhereItGoes
  <2>2. exit'[r] # "OK" \/ ~outcome'[r].spawned
    BY <1>1, <1>2, <1>9, WhereItGoes DEF RunsAre
  <2> QED
    BY <1>2, <2>1, <2>2
<1> QED
  BY <1>6, <1>7, <1>8, <1>9

\* Links of a day are counted anew by who writes the text, and become the gist's.
LEMMA LinkSteps ==
    ASSUME Documents!TypeOK, NEW r \in Runs, StepOf(r)
    PROVE  \/ ~Documents!Link(r) /\ UNCHANGED <<pr, links>>
           \/ pc[r] = "claude" /\ pr' = r
           \/ /\ Documents!Link(r) /\ UNCHANGED <<pr, opts>> /\ links'.local[opts[r].day] = 0
              /\ \A d \in Days : links.local[d] = 0 => links'.local[d] = 0
<1>1. CASE Documents!Link(r)
  <2>1. UNCHANGED <<pr, opts>> /\ links' = Documents!Replaced(r)
    BY <1>1 DEF Documents!Link
  <2>2. links.local \in [Days -> 0..2] /\ opts[r].day \in Days
    BY DocumentTypeIs, LinksAre DEF FilesType, RunsType, Documents!Opts
  <2>3. \/ links' = links /\ links.local[opts[r].day] = 0
        \/ links'.local = [links.local EXCEPT ![opts[r].day] = 0]
    BY <2>1 DEF Documents!Replaced
  <2> QED
    BY <1>1, <2>1, <2>2, <2>3
<1>2. CASE Documents!Claude(r)
  BY <1>2 DEF Documents!Claude, Documents!WritesReview, Documents!WritesPage, Documents!WritesPr,
              Documents!Link
<1>3. CASE ~Documents!Link(r) /\ ~Documents!Claude(r)
  BY <1>3, FileSteps
<1> QED
  BY <1>1, <1>2, <1>3

LEMMA NoLocalPathsNext ==
    ASSUME Documents!TypeOK, RunsAre, Documents!NoLocalPaths, NEW r \in Runs, StepOf(r)
    PROVE  Documents!NoLocalPaths'
<1>1. SUFFICES ASSUME NEW s \in Runs, Script[s] = "pr", exit'[s] = "OK", pr' = s,
                      outcome'[s].spawned
               PROVE  links'.local[opts'[s].day] = 0
  BY DEF Documents!NoLocalPaths, Documents!Ended, Documents!Wrote
<1>2. CASE s # r
  <2>1. exit[s] = "OK" /\ outcome[s].spawned /\ opts'[s] = opts[s] /\ pc[s] = "done"
    BY <1>1, <1>2, OthersStay DEF RunsAre
  <2>2. pr' # r
    BY <1>1, <1>2
  <2>3. pr' = pr
    BY <2>2, LinkSteps
  <2>4. links.local[opts[s].day] = 0
    BY <1>1, <2>1, <2>3 DEF Documents!NoLocalPaths, Documents!Ended, Documents!Wrote
  <2>5. opts[s].day \in Days
    BY DocumentTypeIs DEF RunsType, Documents!Opts
  <2>6. links'.local[opts[s].day] = 0
    BY <2>2, <2>4, <2>5, LinkSteps
  <2> QED
    BY <2>1, <2>6
<1>3. CASE s = r
  <2>1. pc[r] # "done" /\ exit[r] # "OK"
    BY WhereItGoes DEF RunsAre
  <2>2. pc'[r] = "done"
    BY <1>1, <1>3, <2>1, RunSteps
  <2>3. Documents!Link(r)
    BY <1>1, <1>3, <2>2, WhereItGoes DEF RunsAre
  <2>4. pc[r] = "link"
    BY <2>3 DEF Documents!Link
  <2> QED
    BY <1>3, <2>3, <2>4, LinkSteps
<1> QED
  BY <1>2, <1>3

-----------------------------------------------------------------------------
(* The document scripts, however their runs interleave *)

LEMMA DocumentInvInit ==
    ASSUME Documents!DocumentScriptsAssumption, Documents!Init PROVE DocumentInv
<1>1. Documents!TypeOK
  BY DocumentInitType
<1>2. \A r \in Runs : /\ pc[r] = "start" /\ exit[r] = "none" /\ base[r] = {}
                      /\ ~outcome[r].spawned
  BY NoOutcomeIs DEF Documents!Init, Documents!None
<1>3. RunsAre /\ OneAtATime
  BY <1>2 DEF RunsAre, OneAtATime
<1>4. ChangedAre
  BY DEF ChangedAre, Documents!Init
<1>5. Documents!ComparesOwnCommits /\ Documents!NothingLeftOut /\ Documents!NoLocalPaths
  BY <1>2 DEF Documents!ComparesOwnCommits, Documents!NothingLeftOut, Documents!NoLocalPaths,
              Documents!Ended
<1>6. PageIsOwn
  BY <1>2 DEF PageIsOwn
<1> QED
  BY <1>1, <1>3, <1>4, <1>5, <1>6 DEF DocumentInv

LEMMA DocumentInvNext == ASSUME DocumentInv, Documents!Next PROVE DocumentInv'
<1>1. PICK r \in Runs : StepOf(r)
  BY NextIsAStep
<1>2. Documents!TypeOK' /\ RunsAre' /\ OneAtATime' /\ ChangedAre'
  BY <1>1, DocumentTypeNext, RunsAreNext, OneAtATimeNext, ChangedAreNext DEF DocumentInv
<1>3. Documents!ComparesOwnCommits' /\ Documents!NothingLeftOut'
  BY <1>1, ComparesNext, NothingLeftOutNext DEF DocumentInv
<1>4. PageIsOwn' /\ Documents!NoLocalPaths'
  BY <1>1, PageIsOwnNext, NoLocalPathsNext DEF DocumentInv
<1> QED
  BY <1>2, <1>3, <1>4 DEF DocumentInv

LEMMA DocumentInvStays == DocumentInv /\ UNCHANGED documentVars => DocumentInv'
<1> SUFFICES ASSUME DocumentInv, UNCHANGED documentVars PROVE DocumentInv'
  OBVIOUS
<1>1. UNCHANGED <<repo, changed, review, html, pr, links, gists, pc, opts, base, targets,
                  outcome, exit>>
  BY DEF documentVars
<1>2. Documents!TypeOK' /\ RunsAre' /\ OneAtATime' /\ ChangedAre'
  BY <1>1 DEF DocumentInv, Documents!TypeOK, RunsAre, OneAtATime, ChangedAre
<1>3. Documents!ComparesOwnCommits' /\ Documents!NothingLeftOut'
  BY <1>1 DEF DocumentInv, Documents!ComparesOwnCommits, Documents!FetchedLast,
              Documents!NothingLeftOut
<1>4. PageIsOwn' /\ Documents!NoLocalPaths'
  BY <1>1 DEF DocumentInv, PageIsOwn, Alone, Documents!NoLocalPaths, Documents!Ended,
              Documents!Wrote
<1> QED
  BY <1>2, <1>3, <1>4 DEF DocumentInv

LEMMA DocumentInvIsSafe ==
    ASSUME DocumentInv
    PROVE  /\ Documents!TypeOK /\ Documents!ComparesOwnCommits /\ Documents!NothingLeftOut
           /\ Documents!ExplainsItself /\ Documents!NoLocalPaths
BY DEF DocumentInv, PageIsOwn, Alone, Documents!ExplainsItself, Documents!Ended, Documents!Wrote

-----------------------------------------------------------------------------
(* The scripts *)

LEMMA ScriptsInvariant == Spec => [](CommitInv /\ DocumentInv)
<1>1. Init => CommitInv /\ DocumentInv
  BY ScriptsAssumption, CommitInvInit, DocumentInvInit DEF Init, StartsWithin
<1>2. CommitInv /\ DocumentInv /\ [Next]_vars => CommitInv' /\ DocumentInv'
  <2> SUFFICES ASSUME CommitInv, DocumentInv, [Next]_vars PROVE CommitInv' /\ DocumentInv'
    OBVIOUS
  <2>1. \/ Committing!Next /\ UNCHANGED documentVars
        \/ Documents!Next /\ UNCHANGED commitVars
        \/ UNCHANGED <<commitVars, documentVars>>
    BY DEF Next, CommitsWithin, DocumentsWithin, vars
  <2> QED
    BY <2>1, ScriptsAssumption, CommitInvNext, CommitInvStays, DocumentInvNext, DocumentInvStays
<1> QED
  BY <1>1, <1>2, PTL DEF Spec

\* commit.mjs commits all that was approved of a sound proposal; review.mjs, explain-diff.mjs
\* and create-pr-content.mjs compare with the right commits, the first two leave no change
\* out; explain-diff.mjs ends with a page of its own; and a PR text that create-pr-content.mjs
\* wrote does not name the local path of that day's page.
THEOREM ScriptsAreSoundCorrect == Spec => []ScriptsAreSound
<1>1. CommitInv /\ DocumentInv => ScriptsAreSound
  BY CommitInvIsSafe, DocumentInvIsSafe DEF ScriptsAreSound, TypeOK, FinishedIsCommitted,
     ApprovedIsSound, ComparesOwnCommits, NothingLeftOut, ExplainsItself, NoLocalPaths
<1> QED
  BY <1>1, ScriptsInvariant, PTL

\* Whatever the user edits or types meanwhile, a step of commit.mjs changes the index and
\* HEAD at approved paths only (executeCommits: git add, then git commit --only).
THEOREM TouchesOnlyApprovedCorrect == Spec => TouchesOnlyApproved
<1> DEFINE Touches ==
      \A p \in Paths :
          /\ git'.index[p] # git.index[p] => p \in Committing!PathspecOf(approved)
          /\ git'.head[p] # git.head[p] =>
                /\ Len(made') = Len(made) + 1
                /\ p \in Committing!CommitPathspec(approved[Len(made')])
<1>1. CommitInv /\ [Next]_vars => [Touches]_(Committing!vars)
  <2> SUFFICES ASSUME CommitInv, [Next]_vars PROVE [Touches]_(Committing!vars)
    OBVIOUS
  <2>1. CASE Committing!Next
    BY <2>1, CommitTouches
  <2>2. CASE UNCHANGED commitVars
    BY <2>2 DEF commitVars, Committing!vars, Committing!trees, Committing!talk,
                Committing!terminal
  <2> QED
    BY <2>1, <2>2 DEF Next, CommitsWithin, vars
<1>2. Spec => []CommitInv
  BY ScriptsInvariant, PTL
<1>3. [][Touches]_(Committing!vars) => TouchesOnlyApproved
  BY PTL DEF TouchesOnlyApproved, Committing!TouchesOnlyApproved
<1> QED
  BY <1>1, <1>2, <1>3, PTL DEF Spec
=============================================================================
