---------------------------- MODULE WindowsProofs ----------------------------
(***************************************************************************)
(* Theorems about what the windows of the application drive: the worktree  *)
(* of the maintainer (MaintainerWorktree), the elevated USB writer of the  *)
(* Windows build (WindowsUsbWriter) and the managers of a build (BuildFlow)*)
(* for every number of commits, contents, disks, attempts and builds.      *)
(***************************************************************************)
EXTENDS MCWindows, Sequences, FiniteSetTheorems, TLAPS

(***************************************************************************)
(* The worktree.                                                           *)
(***************************************************************************)
Commits   == 1..Len(commits)
Readings  == {"head", "branch", "status", "read", "tree", "patch", "base"}
Acts      == {"act", "attach", "made", "at branch", "at head", "at status", "pushed", "created",
              "reverted", "reported", "replace", "replaced", "file", "file head", "file branch"}
Job == [op : Worktree!Op \union {"none"}, at : Readings \union Acts \union {"idle", "shown"},
        exec : BOOLEAN, to : Nat, head : 0..Len(commits), branch : 0..2, x : Nat, y : Seq(Nat),
        new : 0..Len(commits), still : SUBSET {"review", "inverse", "commit"}]

HistoryTyped == /\ commits \in Seq([parent : Nat, content : Nat])
                /\ \A c \in Commits : commits[c].parent \in 0..(c - 1)
TreeTyped    == /\ ref \in [Worktree!Branch -> Commits] /\ cur \in Worktree!Branch
                /\ remote \in [Worktree!Branch -> 0..Len(commits)]
                /\ index \in Nat /\ work \in Nat /\ edits \in Nat
JobsTyped    == /\ job \in Job /\ shown \in Job /\ done \in Job
                /\ job.op = "checkout" => job.to \in Worktree!Branch
                /\ shown.op = "checkout" => shown.to \in Worktree!Branch
WorkTypeOK   == HistoryTyped /\ TreeTyped /\ JobsTyped

\* An execution is of what was shown, and goes on as long as its readings are
\* those that were shown.
ExecutionOK ==
  /\ job.exec => job.op # "none" /\ shown.op = job.op /\ shown.to = job.to
  /\ job.op # "none" /\ job.at \notin Readings =>
       job.exec /\ job.at \in Acts /\ Worktree!Compared(job) = Worktree!Compared(shown)
  /\ job.op # "none" /\ job.at # "head" => job.head \in Commits

\* The commit that was made is of the reviewed parent and content; a reviewed
\* rollback is to the parent of the reviewed commit.
MadeOK ==
  /\ job.op = "commit" /\ job.at \in {"attach", "made"} =>
       job.new \in Commits /\ commits[job.new] = [parent |-> job.head, content |-> job.x]
  /\ job.op = "rollback" /\ job.at \notin Readings =>
       job.x \in Commits /\ job.x = commits[job.head].parent
  /\ shown.op = "rollback" =>
       shown.head \in Commits /\ shown.x \in Commits /\ shown.x = commits[shown.head].parent

\* The inverse of the commit of the job.
InverseOf(c) == commits[c] = [parent |-> job.head, content |-> commits[job.x].content]

\* While others leave HEAD alone it is the reviewed one, and after the revert
\* the inverse of that; the reported commit is what HEAD was when it was read.
InverseOK ==
  job.op = "rollback" =>
    /\ "review" \in job.still =>
         IF job.at = "reverted" THEN InverseOf(Worktree!HEAD) ELSE Worktree!HEAD = job.head
    /\ "inverse" \in job.still => job.at = "reported" /\ InverseOf(job.new)
    /\ "commit" \in job.still => job.at = "reported" /\ Worktree!HEAD = job.new
    /\ job.at = "reported" => job.new \in Commits

\* What was reported refers to commits there are.
DoneOK ==
  /\ Worktree!AsShown
  /\ done.op \in {"commit", "rollback"} => done.new \in Commits
  /\ done.op = "rollback" => done.x \in Commits

WorkIInv == WorkTypeOK /\ ExecutionOK /\ MadeOK /\ InverseOK /\ DoneOK

\* A new commit has the next number; the others stay.
Grown == /\ HistoryTyped' /\ Len(commits) \in Nat /\ Len(commits') >= Len(commits)
         /\ \A c \in Commits : c \in Commits' /\ commits'[c] = commits[c]

LEMMA NewCommitGrows ==
  ASSUME HistoryTyped, NEW p \in 0..Len(commits), NEW t \in Nat, Worktree!NewCommit(p, t)
  PROVE  /\ Grown /\ Worktree!Newest \in Commits' /\ Len(commits') = Worktree!Newest
         /\ commits'[Worktree!Newest] = [parent |-> p, content |-> t]
  <1> DEFINE c1 == [parent |-> p, content |-> t]
             S == [parent : Nat, content : Nat]
  <1>1. commits \in Seq(S) /\ c1 \in S /\ Len(commits) \in Nat
    BY DEF HistoryTyped
  <1>2. commits' = Append(commits, c1)
    BY DEF Worktree!NewCommit
  <1>3. /\ commits' \in Seq(S) /\ Len(commits') = Len(commits) + 1
        /\ \A c \in 1..Len(commits) : commits'[c] = commits[c]
        /\ commits'[Len(commits) + 1] = c1
    <2> HIDE DEF c1, S
    <2> QED
      BY <1>1, <1>2
  <1>4. \A c \in Commits' : commits'[c].parent \in 0..(c - 1)
    <2> SUFFICES ASSUME NEW c \in 1..Len(commits') PROVE commits'[c].parent \in 0..(c - 1)
      BY DEF Commits
    <2>1. CASE c \in 1..Len(commits)
      BY <1>3, <2>1 DEF HistoryTyped, Commits
    <2>2. CASE c = Len(commits) + 1
      BY <1>1, <1>3, <2>2
    <2> QED
      BY <1>1, <1>3, <2>1, <2>2
  <1> QED
    BY <1>1, <1>3, <1>4 DEF Grown, Commits, HistoryTyped, Worktree!Newest

LEMMA SameCommitsGrown == ASSUME HistoryTyped, commits' = commits PROVE Grown
  BY DEF Grown, HistoryTyped, Commits

LEMMA TreeFacts ==
  ASSUME WorkTypeOK
  PROVE  /\ Worktree!HEAD \in Commits /\ commits[Worktree!HEAD].parent \in 0..Len(commits)
         /\ Len(commits) \in Nat /\ \A c \in Commits : commits[c].content \in Nat
         /\ Worktree!Contents \subseteq Nat /\ Worktree!Branch \subseteq 0..2
         /\ 0 \in 0..Len(commits)
  <1>1. Len(commits) \in Nat /\ \A c \in Commits : commits[c] \in [parent : Nat, content : Nat]
    <2> DEFINE S == [parent : Nat, content : Nat]
    <2>1. commits \in Seq(S)
      BY DEF WorkTypeOK, HistoryTyped
    <2> HIDE DEF S
    <2>2. Len(commits) \in Nat /\ \A c \in 1..Len(commits) : commits[c] \in S
      BY <2>1
    <2> QED
      BY <2>2 DEF S, Commits
  <1>2. Worktree!HEAD \in Commits
    BY DEF WorkTypeOK, TreeTyped, Worktree!HEAD
  <1>3. commits[Worktree!HEAD].parent \in 0..Len(commits)
    BY <1>1, <1>2 DEF WorkTypeOK, HistoryTyped, Commits
  <1> QED
    BY <1>1, <1>2, <1>3, WindowsBounds
       DEF Worktree!Contents, Worktree!Branch, Worktree!Main, Worktree!Topic


LEMMA HistoryStep ==
  ASSUME WorkIInv, [Worktree!Next]_(Worktree!vars) PROVE Grown
  <1> USE TreeFacts DEF WorkIInv
  <1>0. HistoryTyped
    BY DEF WorkTypeOK
  <1>1. CASE Worktree!CommitTree
    <2>1. job.head \in 0..Len(commits) /\ job.x \in Nat
      BY <1>1 DEF WorkTypeOK, JobsTyped, Job
    <2> QED
      BY <1>0, <1>1, <2>1, NewCommitGrows DEF Worktree!CommitTree
  <1>2. CASE Worktree!Commit(FALSE) \/ Worktree!Commit(TRUE)
    <2>1. Worktree!HEAD \in 0..Len(commits) /\ index \in Nat
      BY DEF WorkTypeOK, TreeTyped, Commits
    <2> QED
      BY <1>0, <1>2, <2>1, NewCommitGrows DEF Worktree!Commit
  <1>3. CASE Worktree!PushElsewhere
    <2>1. PICK b \in Worktree!Branch, t \in Worktree!Contents : Worktree!NewCommit(remote[b], t)
      BY <1>3 DEF Worktree!PushElsewhere
    <2>2. remote[b] \in 0..Len(commits) /\ t \in Nat
      BY <2>1 DEF WorkTypeOK, TreeTyped
    <2> QED
      BY <1>0, <2>1, <2>2, NewCommitGrows
  <1>4. CASE Worktree!Revert
    <2>1. Worktree!HEAD \in 0..Len(commits)
      BY DEF Commits
    <2>2. commits' = commits \/ \E t \in Worktree!Contents : Worktree!NewCommit(Worktree!HEAD, t)
      BY <1>4 DEF Worktree!Revert
    <2> QED
      BY <1>0, <2>1, <2>2, NewCommitGrows, SameCommitsGrown
  <1>5. CASE UNCHANGED Worktree!vars \/ Worktree!Review \/ Worktree!Edit \/ Worktree!SwitchAway
    <2>1. commits' = commits
      BY <1>5 DEF Worktree!vars, Worktree!Review, Worktree!Begin, Worktree!Refuse, Worktree!ReadHead,
         Worktree!ReadBranch, Worktree!ReadStatus, Worktree!ReadPaths, Worktree!ReadTree,
         Worktree!ReadPatch, Worktree!ReadTarget, Worktree!ReadRemote, Worktree!ReadBase, Worktree!ReadParent,
         Worktree!ReadVersion, Worktree!Reviewed, Worktree!Same, Worktree!Edit, Worktree!SwitchAway
    <2> QED
      BY <1>0, <2>1, SameCommitsGrown
  <1>6. CASE \/ Worktree!Attach \/ Worktree!Made \/ Worktree!Switch \/ Worktree!VerifyBranch
             \/ Worktree!VerifyHead \/ Worktree!VerifyStatus \/ Worktree!Push \/ Worktree!VerifyPush
             \/ Worktree!Create \/ Worktree!VerifyPull \/ Worktree!ReadInverse \/ Worktree!VerifyTree
             \/ Worktree!Check \/ Worktree!Replace \/ Worktree!VerifyFile \/ Worktree!VersionHead
             \/ Worktree!VersionBranch \/ Worktree!VerifyVersion
    <2>1. commits' = commits
      BY <1>6 DEF Worktree!Attach, Worktree!Made, Worktree!Switch, Worktree!VerifyBranch,
         Worktree!VerifyHead, Worktree!VerifyStatus, Worktree!Push, Worktree!VerifyPush,
         Worktree!Create, Worktree!VerifyPull, Worktree!ReadInverse, Worktree!VerifyTree,
         Worktree!Check, Worktree!Replace, Worktree!VerifyFile, Worktree!VersionHead,
         Worktree!VersionBranch, Worktree!VerifyVersion, Worktree!Success, Worktree!Same
    <2> QED
      BY <1>0, <2>1, SameCommitsGrown
  <1> QED
    BY <1>1, <1>2, <1>3, <1>4, <1>5, <1>6
       DEF Worktree!Next, Worktree!Execute, Worktree!Others, Worktree!Review

\* Reviews change what is read and shown only; so do the verifications.
Verifies == \/ Worktree!Made \/ Worktree!VerifyBranch \/ Worktree!VerifyHead \/ Worktree!VerifyStatus
            \/ Worktree!VerifyPush \/ Worktree!VerifyPull \/ Worktree!ReadInverse
            \/ Worktree!VerifyTree \/ Worktree!Check \/ Worktree!VerifyFile \/ Worktree!VersionHead
            \/ Worktree!VersionBranch \/ Worktree!VerifyVersion
TreeKept == UNCHANGED <<ref, cur, index, work, remote, edits>>

LEMMA ReviewKeeps ==
  ASSUME Worktree!Review PROVE TreeKept /\ UNCHANGED <<commits, done>>
  BY DEF TreeKept, Worktree!Review, Worktree!Begin, Worktree!Refuse, Worktree!ReadHead,
     Worktree!ReadBranch, Worktree!ReadStatus, Worktree!ReadPaths, Worktree!ReadTree,
     Worktree!ReadPatch, Worktree!ReadTarget, Worktree!ReadRemote, Worktree!ReadBase, Worktree!ReadParent,
     Worktree!ReadVersion, Worktree!Reviewed, Worktree!Same, Worktree!localVars, Worktree!budget

LEMMA VerifyKeeps ==
  ASSUME Verifies PROVE TreeKept /\ UNCHANGED commits
  BY DEF Verifies, TreeKept, Worktree!Made, Worktree!VerifyBranch, Worktree!VerifyHead,
     Worktree!VerifyStatus, Worktree!VerifyPush, Worktree!VerifyPull, Worktree!ReadInverse,
     Worktree!VerifyTree, Worktree!Check, Worktree!VerifyFile, Worktree!VersionHead,
     Worktree!VersionBranch, Worktree!VerifyVersion, Worktree!Success, Worktree!Same, Worktree!localVars,
     Worktree!budget

\* Where the steps of a window and of others may lead.
LEMMA MoreCommits ==
  ASSUME HistoryTyped, Grown
  PROVE  /\ Commits \subseteq Commits' /\ 0..Len(commits) \subseteq 0..Len(commits')
         /\ Commits \subseteq 0..Len(commits)
  BY DEF Grown, Commits

\* git switch.
LEMMA SwitchTyped ==
  ASSUME WorkTypeOK, Grown, NEW b \in Worktree!Branch, Worktree!SwitchTo(b), UNCHANGED <<ref, remote, commits>>
  PROVE  cur' \in Worktree!Branch /\ index' \in Nat /\ work' \in Nat
  <1>1. ref[b] \in Commits /\ commits[ref[b]].content \in Nat /\ index \in Nat /\ work \in Nat
    BY TreeFacts DEF WorkTypeOK, TreeTyped
  <1> QED
    BY <1>1 DEF Worktree!SwitchTo

\* The branches are at commits there are.
LEMMA TreeStep ==
  ASSUME WorkIInv, [Worktree!Next]_(Worktree!vars) PROVE TreeTyped'
  <1>1. WorkTypeOK /\ HistoryTyped /\ TreeTyped /\ JobsTyped
    BY DEF WorkIInv, WorkTypeOK
  <1>2. Grown /\ Commits \subseteq Commits' /\ 0..Len(commits) \subseteq 0..Len(commits')
    BY <1>1, HistoryStep, MoreCommits
  <1>3. CASE TreeKept
    BY <1>1, <1>2, <1>3 DEF TreeKept, TreeTyped
  <1>4. CASE Worktree!Attach
    <2>1. job.new \in Commits
      BY <1>4 DEF WorkIInv, MadeOK, Worktree!Attach, Worktree!At
    <2> QED
      BY <1>1, <1>2, <1>4, <2>1 DEF Worktree!Attach, TreeTyped, Worktree!budget
  <1>5. CASE Worktree!Switch
    <2>1. job.to \in Worktree!Branch
      BY <1>1, <1>5 DEF JobsTyped, Worktree!Switch, Worktree!At
    <2> QED
      BY <1>1, <1>2, <1>5, <2>1, SwitchTyped DEF Worktree!Switch, TreeTyped, Worktree!budget
  <1>6. CASE Worktree!Push
    <2>1. job.head \in 0..Len(commits)
      BY <1>1 DEF JobsTyped, Job
    <2> QED
      BY <1>1, <1>2, <1>6, <2>1 DEF Worktree!Push, TreeTyped, Worktree!budget, Worktree!localVars
  <1>7. CASE Worktree!Revert
    <2>1. UNCHANGED <<cur, remote, edits>>
      BY <1>7 DEF Worktree!Revert, Worktree!budget
    <2>2. CASE UNCHANGED <<ref, index>> /\ \E t \in Worktree!Contents : work' = t
      BY <1>1, <1>2, <2>1, <2>2, TreeFacts DEF TreeTyped
    <2>3. CASE \E t \in Worktree!Contents :
                 /\ Worktree!NewCommit(Worktree!HEAD, t) /\ index' = t /\ work' = t
                 /\ ref' = [ref EXCEPT ![cur] = Worktree!Newest]
      <3>1. PICK t \in Worktree!Contents :
                 /\ Worktree!NewCommit(Worktree!HEAD, t) /\ index' = t /\ work' = t
                 /\ ref' = [ref EXCEPT ![cur] = Worktree!Newest]
        BY <2>3
      <3>2. t \in Nat /\ Worktree!HEAD \in 0..Len(commits)
        BY <1>1, <1>2, TreeFacts, MoreCommits
      <3>3. Worktree!Newest \in Commits'
        BY <1>1, <3>1, <3>2, NewCommitGrows
      <3> QED
        BY <1>1, <1>2, <2>1, <3>1, <3>2, <3>3 DEF TreeTyped
    <2> QED
      BY <1>7, <2>2, <2>3 DEF Worktree!Revert
  <1>8. CASE Worktree!Replace
    <2>1. job.to \in Nat
      BY <1>1 DEF JobsTyped, Job
    <2> QED
      BY <1>1, <1>2, <1>8, <2>1 DEF Worktree!Replace, TreeTyped, Worktree!budget
  <1>9. CASE Worktree!Edit
    <2>1. /\ UNCHANGED <<commits, ref, cur, remote>> /\ edits' = edits + 1
          /\ \E t \in Worktree!Contents : work' = t /\ index' \in {index, t}
      BY <1>9 DEF Worktree!Edit, Worktree!Other
    <2> QED
      BY <1>1, <1>2, <2>1, TreeFacts DEF TreeTyped
  <1>10. CASE Worktree!Commit(FALSE) \/ Worktree!Commit(TRUE)
    <2>1. PICK p \in 0..Len(commits) :
            /\ Worktree!NewCommit(p, index) /\ ref' = [ref EXCEPT ![cur] = Worktree!Newest]
            /\ UNCHANGED <<cur, index, work, remote>> /\ edits' = edits + 1
      <3>1. Worktree!HEAD \in 0..Len(commits) /\ commits[Worktree!HEAD].parent \in 0..Len(commits)
        BY <1>1, <1>2, TreeFacts, MoreCommits
      <3> QED
        BY <1>10, <3>1 DEF Worktree!Commit, Worktree!Other
    <2>2. index \in Nat
      BY <1>1 DEF TreeTyped
    <2>3. Worktree!Newest \in Commits'
      BY <1>1, <2>1, <2>2, NewCommitGrows
    <2> QED
      BY <1>1, <1>2, <2>1, <2>3 DEF TreeTyped
  <1>11. CASE Worktree!SwitchAway
    BY <1>1, <1>2, <1>11, SwitchTyped DEF Worktree!SwitchAway, Worktree!Other, TreeTyped
  <1>12. CASE Worktree!PushElsewhere
    <2>1. UNCHANGED <<ref, cur, index, work>> /\ edits' = edits + 1
      BY <1>12 DEF Worktree!PushElsewhere, Worktree!Other, Worktree!localVars
    <2>2. PICK b \in Worktree!Branch, t \in Worktree!Contents :
            /\ Worktree!NewCommit(remote[b], t) /\ remote' = [remote EXCEPT ![b] = Worktree!Newest]
      BY <1>12 DEF Worktree!PushElsewhere
    <2>3. remote[b] \in 0..Len(commits) /\ t \in Nat
      BY <1>1, TreeFacts DEF TreeTyped
    <2>4. Worktree!Newest \in 0..Len(commits)'
      <3>1. Worktree!Newest \in Commits'
        BY <1>1, <2>2, <2>3, NewCommitGrows
      <3> QED
        BY <3>1 DEF Commits
    <2> QED
      BY <1>1, <1>2, <2>1, <2>2, <2>4 DEF TreeTyped
  <1>13. CASE Worktree!CommitTree \/ Worktree!Create \/ UNCHANGED Worktree!vars
    <2>1. TreeKept
      BY <1>13 DEF Worktree!CommitTree, Worktree!Create, TreeKept, Worktree!vars, Worktree!localVars, Worktree!budget
    <2> QED
      BY <1>3, <2>1
  <1>14. CASE Worktree!Review \/ Verifies
    BY <1>3, <1>14, ReviewKeeps, VerifyKeeps
  <1> QED
    BY <1>4, <1>5, <1>6, <1>7, <1>8, <1>9, <1>10, <1>11, <1>12, <1>13, <1>14
       DEF Worktree!Next, Worktree!Execute, Worktree!Others, Verifies

LEMMA JobsGrow == ASSUME HistoryTyped, Grown PROVE Job \subseteq Job'
  BY MoreCommits DEF Job

LEMMA IdleTyped == ASSUME HistoryTyped PROVE Worktree!Idle \in Job
  <1>1. Len(commits) \in Nat /\ <<>> \in Seq(Nat)
    BY TreeFacts DEF HistoryTyped
  <1> QED
    BY <1>1 DEF Worktree!Idle, Job, Worktree!None

\* The end of a review: it is shown, or acted upon.
LEMMA ReviewedTyped ==
  ASSUME WorkTypeOK, NEW j \in Job, Worktree!Reviewed(j), j.op = job.op, j.to = job.to
  PROVE  JobsTyped'
  <1>1. [j EXCEPT !.at = "act"] \in Job /\ [j EXCEPT !.at = "shown", !.still = {}] \in Job
    BY DEF Job, Acts
  <1>2. Worktree!Idle \in Job /\ Worktree!Idle.op = "none"
    BY IdleTyped DEF WorkTypeOK, Worktree!Idle
  <1>3. UNCHANGED <<commits, done>>
    BY DEF Worktree!Reviewed
  <1>4. /\ job' \in {[j EXCEPT !.at = "act"], Worktree!Idle}
        /\ shown' \in {[j EXCEPT !.at = "shown", !.still = {}], shown}
    BY DEF Worktree!Reviewed
  <1>5. /\ [j EXCEPT !.at = "act"].op = job.op
        /\ [j EXCEPT !.at = "shown", !.still = {}].op = job.op
        /\ [j EXCEPT !.at = "act"].to = job.to
        /\ [j EXCEPT !.at = "shown", !.still = {}].to = job.to
    BY DEF Job
  <1>6. Job' = Job /\ job \in Job /\ shown \in Job /\ done' \in Job /\ JobsTyped
    BY <1>3 DEF WorkTypeOK, JobsTyped, Job
  <1>7. job' \in Job /\ (job'.op = "checkout" => job'.to \in Worktree!Branch)
    BY <1>1, <1>2, <1>4, <1>5, <1>6 DEF JobsTyped
  <1>8. shown' \in Job /\ (shown'.op = "checkout" => shown'.to \in Worktree!Branch)
    BY <1>1, <1>4, <1>5, <1>6 DEF JobsTyped
  <1> QED
    BY <1>6, <1>7, <1>8 DEF JobsTyped

\* A command of the execution, and its success.
LEMMA GotoTyped ==
  ASSUME WorkTypeOK, Grown, NEW l \in Acts \union Readings, Worktree!Goto(l), UNCHANGED <<shown, done>>
  PROVE  JobsTyped'
  <1>1. job' \in Job /\ job'.op = job.op /\ job'.to = job.to
    BY DEF WorkTypeOK, JobsTyped, Job, Worktree!Goto
  <1> QED
    BY <1>1, JobsGrow DEF WorkTypeOK, JobsTyped

LEMMA EndTyped ==
  ASSUME WorkTypeOK, Grown, Worktree!End, done' \in Job'
  PROVE  JobsTyped'
  <1>1. Worktree!Idle \in Job /\ Worktree!Idle.op = "none"
    BY IdleTyped DEF WorkTypeOK, Worktree!Idle
  <1> QED
    BY <1>1, JobsGrow DEF WorkTypeOK, JobsTyped, Worktree!End

LEMMA SuccessTyped ==
  ASSUME WorkTypeOK, Grown, NEW n \in 0..Len(commits), Worktree!Success(n)
  PROVE  JobsTyped'
  <1>1. [shown EXCEPT !.new = n, !.still = job.still] \in Job
    BY DEF WorkTypeOK, JobsTyped, Job
  <1>2. done' \in Job'
    BY <1>1, JobsGrow DEF Worktree!Success, WorkTypeOK
  <1> QED
    BY <1>2, EndTyped DEF Worktree!Success

\* What is read and shown has its type.
LEMMA JobsStep ==
  ASSUME WorkIInv, [Worktree!Next]_(Worktree!vars) PROVE JobsTyped'
  <1>1. WorkTypeOK /\ HistoryTyped /\ TreeTyped /\ JobsTyped /\ job \in Job
    BY DEF WorkIInv, WorkTypeOK, JobsTyped
  <1>2. Grown /\ Commits \subseteq 0..Len(commits) /\ Job \subseteq Job' /\ done \in Job'
    BY <1>1, HistoryStep, MoreCommits, JobsGrow DEF JobsTyped
  <1>3. /\ Worktree!HEAD \in 0..Len(commits) /\ cur \in 0..2 /\ index \in Nat /\ work \in Nat
        /\ commits[Worktree!HEAD].content \in Nat /\ Worktree!None \in 0..Len(commits)
        /\ \A b \in Worktree!Branch : ref[b] \in Nat /\ remote[b] \in Nat
    BY <1>1, <1>2, TreeFacts DEF TreeTyped, Worktree!None, Commits
  <1>4. CASE UNCHANGED Worktree!vars
    BY <1>1, <1>2, <1>4 DEF Worktree!vars, JobsTyped
  <1>5. CASE Worktree!Begin
    <2>1. CASE \E o \in Worktree!Op, t \in Worktree!Contents :
             /\ o = "checkout" => t \in Worktree!Branch
             /\ job' = [Worktree!Idle EXCEPT !.op = o, !.to = t, !.at = "head"]
      <3>1. PICK o \in Worktree!Op, t \in Worktree!Contents :
             /\ o = "checkout" => t \in Worktree!Branch
             /\ job' = [Worktree!Idle EXCEPT !.op = o, !.to = t, !.at = "head"]
        BY <2>1
      <3>2. t \in Nat /\ Worktree!Idle \in Job
        BY <1>1, TreeFacts, IdleTyped
      <3>3. job' \in Job /\ job'.op = o /\ job'.to = t
        BY <3>1, <3>2 DEF Job, Readings
      <3> QED
        BY <1>1, <1>2, <1>5, <3>1, <3>3 DEF Worktree!Begin, JobsTyped
    <2>2. CASE job' = [Worktree!Idle EXCEPT !.op = shown.op, !.to = shown.to, !.at = "head", !.exec = TRUE]
      <3>1. shown \in Job /\ Worktree!Idle \in Job
        BY <1>1, IdleTyped DEF JobsTyped
      <3>2. job' \in Job /\ job'.op = shown.op /\ job'.to = shown.to
        BY <2>2, <3>1 DEF Job, Readings
      <3> QED
        BY <1>1, <1>2, <1>5, <3>2 DEF Worktree!Begin, JobsTyped
    <2> QED
      BY <1>5, <2>1, <2>2 DEF Worktree!Begin
  <1>6. CASE Worktree!Refuse
    BY <1>1, <1>2, <1>6, EndTyped DEF Worktree!Refuse
  <1>7. CASE Worktree!ReadHead \/ Worktree!ReadBranch \/ Worktree!ReadTree \/ Worktree!ReadInverse
    <2>1. job' \in Job /\ job'.op = job.op /\ job'.to = job.to
      <3>1. CASE Worktree!ReadHead
        <4>1. PICK S \in SUBSET {"review", "inverse", "commit"} :
                job' = [job EXCEPT !.head = Worktree!HEAD, !.at = "branch", !.still = S]
          BY <3>1 DEF Worktree!ReadHead
        <4> QED
          BY <1>1, <1>3, <4>1 DEF Job, Readings
      <3>2. CASE Worktree!ReadInverse
        <4>1. PICK S \in SUBSET {"review", "inverse", "commit"} :
                job' = [job EXCEPT !.new = Worktree!HEAD, !.at = "reported", !.still = S]
          <5>1. {"commit"} \union (IF "review" \in job.still THEN {"inverse"} ELSE {})
                  \in SUBSET {"review", "inverse", "commit"}
            OBVIOUS
          <5> QED
            BY <3>2, <5>1 DEF Worktree!ReadInverse
        <4> QED
          BY <1>1, <1>3, <4>1 DEF Job, Acts
      <3>3. CASE Worktree!ReadBranch \/ Worktree!ReadTree
        BY <1>1, <1>3, <3>3 DEF Worktree!ReadBranch, Worktree!ReadTree, Job, Readings
      <3> QED
        BY <1>7, <3>1, <3>2, <3>3
    <2>2. UNCHANGED <<shown, done>>
      BY <1>7 DEF Worktree!ReadHead, Worktree!ReadBranch, Worktree!ReadTree, Worktree!ReadInverse,
         Worktree!Same
    <2> QED
      BY <1>1, <1>2, <2>1, <2>2 DEF JobsTyped
  <1>8. CASE \/ Worktree!ReadStatus \/ Worktree!ReadPaths \/ Worktree!VerifyBranch \/ Worktree!VerifyHead
             \/ Worktree!Check \/ Worktree!VerifyFile \/ Worktree!VersionHead \/ Worktree!VersionBranch
    BY <1>1, <1>2, <1>8, GotoTyped DEF Worktree!ReadStatus, Worktree!ReadPaths, Worktree!VerifyBranch,
       Worktree!VerifyHead, Worktree!Check, Worktree!VerifyFile, Worktree!VersionHead,
       Worktree!VersionBranch, Worktree!Same, Acts, Readings
  <1>9. CASE Worktree!ReadPatch
    <2>1. [job EXCEPT !.y = <<commits[Worktree!HEAD].content, index>>] \in Job
      <3>1. <<commits[Worktree!HEAD].content, index>> \in Seq(Nat)
        BY <1>3
      <3> QED
        BY <1>1, <3>1 DEF Job
    <2> QED
      BY <1>1, <1>9, <2>1, ReviewedTyped DEF Worktree!ReadPatch, Job
  <1>10. CASE Worktree!ReadTarget \/ Worktree!ReadVersion \/ Worktree!ReadParent
    <2>1. PICK n : Worktree!Reviewed([job EXCEPT !.x = n]) /\ n \in Nat
      <3>1. CASE Worktree!ReadTarget
        <4>1. job.to \in Worktree!Branch
          BY <1>1, <3>1 DEF Worktree!ReadTarget, Worktree!At, JobsTyped
        <4> QED
          BY <1>3, <3>1, <4>1 DEF Worktree!ReadTarget
      <3>2. CASE Worktree!ReadVersion
        BY <1>3, <3>2 DEF Worktree!ReadVersion
      <3>3. CASE Worktree!ReadParent
        <4>1. job.head \in Commits
          BY <3>3 DEF WorkIInv, ExecutionOK, Worktree!ReadParent, Worktree!At
        <4>2. commits[job.head].parent \in Nat
          BY <1>1, <4>1 DEF HistoryTyped, Commits
        <4> QED
          BY <3>3, <4>2 DEF Worktree!ReadParent
      <3> QED
        BY <1>10, <3>1, <3>2, <3>3
    <2>2. [job EXCEPT !.x = n] \in Job /\ [job EXCEPT !.x = n].op = job.op /\ [job EXCEPT !.x = n].to = job.to
      BY <1>1, <2>1 DEF Job
    <2> QED
      BY <1>1, <2>1, <2>2, ReviewedTyped
  <1>11. CASE Worktree!ReadRemote
    <2>1. CASE job.op = "push"
      <3>1. remote[job.branch] \in Nat
        <4>1. remote[job.branch] \in Worktree!Line(commits, job.head)
          BY <1>11 DEF Worktree!ReadRemote, Worktree!Forward
        <4> QED
          BY <1>1, <4>1 DEF Worktree!Line
      <3>2. /\ [job EXCEPT !.x = remote[job.branch]] \in Job
            /\ [job EXCEPT !.x = remote[job.branch]].op = job.op
            /\ [job EXCEPT !.x = remote[job.branch]].to = job.to
        BY <1>1, <3>1 DEF Job
      <3> QED
        BY <1>1, <1>11, <2>1, <3>2, ReviewedTyped DEF Worktree!ReadRemote
    <2>2. CASE job.op # "push"
      BY <1>1, <1>2, <1>11, <2>2, GotoTyped DEF Worktree!ReadRemote, Worktree!Same, Readings
    <2> QED
      BY <2>1, <2>2
  <1>12. CASE Worktree!ReadBase
    <2>1. [job EXCEPT !.y = <<remote[Worktree!Main]>>] \in Job
      <3>1. <<remote[Worktree!Main]>> \in Seq(Nat)
        BY <1>3 DEF Worktree!Branch
      <3> QED
        BY <1>1, <3>1 DEF Job
    <2> QED
      BY <1>1, <1>12, <2>1, ReviewedTyped DEF Worktree!ReadBase, Job
  <1>13. CASE Worktree!CommitTree
    <2>1. job.head \in 0..Len(commits) /\ job.x \in Nat
      BY <1>1 DEF Job
    <2>2. Worktree!Newest \in 0..Len(commits)'
      <3>1. Worktree!Newest \in Commits'
        BY <1>1, <1>13, <2>1, NewCommitGrows DEF Worktree!CommitTree
      <3> QED
        BY <3>1 DEF Commits
    <2>3. job' \in Job' /\ job'.op = job.op /\ job'.to = job.to
      <3>1. job \in Job' /\ job' = [job EXCEPT !.new = Worktree!Newest, !.at = "attach"]
        BY <1>1, <1>2, <1>13 DEF Worktree!CommitTree
      <3> QED
        BY <2>2, <3>1 DEF Job, Acts
    <2> QED
      BY <1>1, <1>2, <1>13, <2>3 DEF Worktree!CommitTree, JobsTyped
  <1>14. CASE Worktree!Attach \/ Worktree!Switch \/ Worktree!Replace
    BY <1>1, <1>2, <1>14, GotoTyped DEF Worktree!Attach, Worktree!Switch, Worktree!Replace, Acts
  <1>15. CASE Worktree!Push \/ Worktree!Create
    <2>1. UNCHANGED done
      BY <1>15 DEF Worktree!Push, Worktree!Create
    <2> QED
      BY <1>1, <1>2, <1>15, <2>1, GotoTyped, EndTyped DEF Worktree!Push, Worktree!Create, Acts
  <1>16. CASE \/ Worktree!VerifyStatus \/ Worktree!VerifyPush \/ Worktree!VerifyPull \/ Worktree!Made
              \/ Worktree!VerifyTree \/ Worktree!VerifyVersion
    <2>1. job.new \in 0..Len(commits)
      BY <1>1 DEF Job
    <2> QED
      BY <1>1, <1>2, <1>3, <1>16, <2>1, SuccessTyped DEF Worktree!VerifyStatus, Worktree!VerifyPush,
         Worktree!VerifyPull, Worktree!Made, Worktree!VerifyTree, Worktree!VerifyVersion
  <1>17. CASE Worktree!Revert
    <2>1. CASE Worktree!End
      BY <1>1, <1>2, <1>17, <2>1, EndTyped DEF Worktree!Revert
    <2>2. CASE /\ job' = [job EXCEPT !.new = Worktree!Newest, !.at = "reverted"] /\ UNCHANGED <<shown, done>>
               /\ \E t \in Worktree!Contents : Worktree!NewCommit(Worktree!HEAD, t)
      <3>1. Worktree!Newest \in Commits'
        BY <1>1, <1>3, <2>2, TreeFacts, NewCommitGrows
      <3>2. job' \in Job' /\ job'.op = job.op /\ job'.to = job.to
        <4>1. job \in Job' /\ Worktree!Newest \in 0..Len(commits)'
          BY <1>1, <1>2, <3>1 DEF Commits
        <4> QED
          BY <2>2, <4>1 DEF Job, Acts
      <3> QED
        BY <1>1, <1>2, <2>2, <3>2 DEF JobsTyped
    <2> QED
      BY <1>17, <2>1, <2>2 DEF Worktree!Revert
  <1>18. CASE Worktree!Others
    <2>1. /\ UNCHANGED <<shown, done>>
          /\ job' = job \/ job' = [job EXCEPT !.still = @ \ {"review", "commit"}]
      BY <1>18 DEF Worktree!Others, Worktree!Edit, Worktree!Commit, Worktree!SwitchAway,
         Worktree!PushElsewhere, Worktree!Other, Worktree!Moved
    <2>2. job' \in Job /\ job'.op = job.op /\ job'.to = job.to
      BY <1>1, <2>1 DEF Job
    <2> QED
      BY <1>1, <1>2, <2>1, <2>2 DEF JobsTyped
  <1> QED
    BY <1>4, <1>5, <1>6, <1>7, <1>8, <1>9, <1>10, <1>11, <1>12, <1>13, <1>14, <1>15, <1>16, <1>17,
       <1>18 DEF Worktree!Next, Worktree!Review, Worktree!Execute

\* What an execution compares does not depend on where it is.
Alike(j, k) == /\ j.op = k.op /\ j.to = k.to /\ j.head = k.head /\ j.branch = k.branch
               /\ j.x = k.x /\ j.y = k.y /\ j.exec = k.exec

LEMMA AlikeCompared ==
  ASSUME NEW j, NEW k, Alike(j, k) PROVE Worktree!Compared(j) = Worktree!Compared(k)
  BY DEF Alike, Worktree!Compared

\* The command is where it was: at most others have moved HEAD.
Left == Alike(job', job) /\ job'.at = job.at /\ job'.new = job.new /\ shown' = shown
LEMMA LeftOK ==
  ASSUME ExecutionOK, Left, Commits \subseteq Commits' PROVE ExecutionOK'
  <1>1. Worktree!Compared(job') = Worktree!Compared(job)
    BY AlikeCompared DEF Left
  <1>2. Worktree!Compared(job)' = Worktree!Compared(job') /\ Worktree!Compared(shown)' = Worktree!Compared(shown)
    BY DEF Left, Worktree!Compared
  <1> QED
    BY <1>1, <1>2 DEF ExecutionOK, Left, Alike

\* The command has ended, and what was shown goes with an execution.
Ends == job' = Worktree!Idle /\ shown' \in {shown, Worktree!Idle}

LEMMA EndsOK == ASSUME job' = Worktree!Idle PROVE ExecutionOK'
  BY DEF ExecutionOK, Worktree!Idle

\* A reading, and a command of an execution.
Reads == /\ job.op # "none" /\ job'.at \in Readings \ {"head"} /\ job'.head \in Commits'
         /\ job'.op = job.op /\ job'.to = job.to /\ job'.exec = job.exec /\ shown' = shown
LEMMA ReadsOK == ASSUME ExecutionOK, Reads PROVE ExecutionOK'
  BY DEF ExecutionOK, Reads

Goes == /\ job.op # "none" /\ job.at \in Acts /\ job'.at \in Acts /\ Alike(job', job) /\ shown' = shown
LEMMA GoesOK ==
  ASSUME ExecutionOK, Goes, Commits \subseteq Commits' PROVE ExecutionOK'
  <1>1. Worktree!Compared(job') = Worktree!Compared(job)
    BY AlikeCompared DEF Goes
  <1>2. Worktree!Compared(job)' = Worktree!Compared(job') /\ Worktree!Compared(shown)' = Worktree!Compared(shown)
    BY DEF Goes, Worktree!Compared
  <1> QED
    BY <1>1, <1>2 DEF ExecutionOK, Goes, Alike, Acts, Readings

\* The last reading of a review: it ends, or its execution begins.
Starts(j) == /\ job.op # "none" /\ j \in Job /\ j.head \in Commits /\ UNCHANGED <<commits, done>>
             /\ j.op = job.op /\ j.to = job.to /\ j.exec = job.exec /\ Worktree!Reviewed(j)
LEMMA StartsOK ==
  ASSUME ExecutionOK, NEW j, Starts(j) PROVE ExecutionOK'
  <1>1. CASE ~j.exec
    BY <1>1, EndsOK DEF Starts, Worktree!Reviewed
  <1>2. CASE j.exec
    <2>1. /\ job' = [j EXCEPT !.at = "act"] /\ shown' = shown /\ Commits' = Commits
          /\ Worktree!Compared(j) = Worktree!Compared(shown)
      BY <1>2 DEF Starts, Worktree!Reviewed, Commits
    <2>2. Alike(job', j) /\ job'.at = "act"
      BY <2>1 DEF Alike, Starts, Job
    <2>3. Worktree!Compared(job)' = Worktree!Compared(job') /\ Worktree!Compared(shown)' = Worktree!Compared(shown)
      BY <2>1 DEF Worktree!Compared
    <2>4. Worktree!Compared(job') = Worktree!Compared(shown)
      BY <2>1, <2>2, AlikeCompared
    <2>5. job.exec /\ job'.op = job.op /\ job'.to = job.to /\ job'.exec = TRUE /\ job'.head = j.head
      BY <1>2, <2>2 DEF Starts, Alike, Job
    <2>6. shown.op = job.op /\ shown.to = job.to /\ job.op # "none" /\ j.head \in Commits
      BY <2>5 DEF ExecutionOK, Starts
    <2>7. (Worktree!Compared(job) = Worktree!Compared(shown))'
      BY <2>3, <2>4
    <2>8. (job.exec => job.op # "none" /\ shown.op = job.op /\ shown.to = job.to)'
      BY <2>1, <2>5, <2>6
    <2>9. (job.op # "none" /\ job.at # "head" => job.head \in Commits)'
      BY <2>1, <2>5, <2>6
    <2>10. (job.exec /\ job.at \in Acts)'
      BY <2>2, <2>5 DEF Acts
    <2> QED
      BY <2>7, <2>8, <2>9, <2>10 DEF ExecutionOK
  <1> QED
    BY <1>1, <1>2

LEMMA OthersLeave ==
  ASSUME WorkIInv, UNCHANGED Worktree!vars \/ Worktree!Others PROVE Left
  <1>1. job \in Job
    BY DEF WorkIInv, WorkTypeOK, JobsTyped
  <1>2. /\ shown' = shown
        /\ job' = job \/ job' = [job EXCEPT !.still = @ \ {"review", "commit"}]
    BY DEF Worktree!vars, Worktree!Others, Worktree!Edit, Worktree!Commit, Worktree!SwitchAway,
       Worktree!PushElsewhere, Worktree!Other, Worktree!Moved
  <1> QED
    BY <1>1, <1>2 DEF Left, Alike, Job

\* Every step is one of these.
LEMMA WorkCases ==
  ASSUME WorkIInv, [Worktree!Next]_(Worktree!vars)
  PROVE  \/ Left \/ Worktree!Begin \/ Ends \/ Reads \/ Goes
         \/ \E j : Starts(j) /\ (job.op = "rollback" => j.x = commits[j.head].parent /\ j.x # Worktree!None)
  <1>1. WorkTypeOK /\ HistoryTyped /\ TreeTyped /\ JobsTyped /\ job \in Job /\ ExecutionOK
    BY DEF WorkIInv, WorkTypeOK, JobsTyped
  <1>2. Grown /\ Commits \subseteq Commits' /\ Worktree!HEAD \in Commits
    BY <1>1, HistoryStep, MoreCommits, TreeFacts
  <1>3. job.op # "none" /\ job.at # "head" => job.head \in Commits
    BY <1>1 DEF ExecutionOK
  <1>4. JobsTyped'
    BY JobsStep
  <1>5. "none" \notin Worktree!Op
    BY DEF Worktree!Op
  <1>6. CASE UNCHANGED Worktree!vars \/ Worktree!Others
    BY <1>6, OthersLeave
  <1>7. CASE Worktree!Refuse \/ Worktree!Made \/ Worktree!VerifyStatus \/ Worktree!VerifyPush
             \/ Worktree!VerifyPull \/ Worktree!VerifyTree \/ Worktree!VerifyVersion
    BY <1>7 DEF Worktree!Refuse, Worktree!Made, Worktree!VerifyStatus, Worktree!VerifyPush,
       Worktree!VerifyPull, Worktree!VerifyTree, Worktree!VerifyVersion, Worktree!Success, Worktree!End, Ends
  <1>8. CASE \/ Worktree!ReadHead \/ Worktree!ReadBranch \/ Worktree!ReadTree
             \/ Worktree!ReadPaths \/ Worktree!ReadStatus
    <2>1. job.op # "none" /\ shown' = shown
      BY <1>5, <1>8 DEF Worktree!ReadHead, Worktree!ReadBranch, Worktree!ReadTree, Worktree!ReadPaths, Worktree!ReadStatus,
         Worktree!At, Worktree!Same
    <2>2. /\ job'.at \in Readings \ {"head"} /\ job'.op = job.op /\ job'.to = job.to /\ job'.exec = job.exec
          /\ job'.head \in {job.head, Worktree!HEAD} /\ (job.at = "head" => job'.head = Worktree!HEAD)
      BY <1>1, <1>8 DEF Worktree!ReadHead, Worktree!ReadBranch, Worktree!ReadTree, Worktree!ReadPaths, Worktree!ReadStatus,
         Worktree!At, Worktree!Goto, Job, Readings
    <2> QED
      BY <1>2, <1>3, <2>1, <2>2 DEF Reads
  <1>9. CASE Worktree!ReadPatch \/ Worktree!ReadTarget \/ Worktree!ReadBase \/ Worktree!ReadVersion
    <2>1. PICK j : /\ Worktree!Reviewed(j) /\ job.op \notin {"none", "rollback"} /\ job.at # "head"
                   /\ \/ j = [job EXCEPT !.y = <<commits[Worktree!HEAD].content, index>>]
                      \/ j = [job EXCEPT !.x = ref[job.to]] /\ job.op = "checkout"
                      \/ j = [job EXCEPT !.y = <<remote[Worktree!Main]>>]
                      \/ j = [job EXCEPT !.x = work]
      BY <1>9 DEF Worktree!ReadPatch, Worktree!ReadTarget, Worktree!ReadBase, Worktree!ReadVersion, Worktree!At
    <2>2. /\ <<commits[Worktree!HEAD].content, index>> \in Seq(Nat) /\ work \in Nat
          /\ <<remote[Worktree!Main]>> \in Seq(Nat) /\ (job.op = "checkout" => ref[job.to] \in Nat)
      <3>1. /\ commits[Worktree!HEAD].content \in Nat /\ index \in Nat /\ work \in Nat
            /\ remote[Worktree!Main] \in Nat /\ (job.op = "checkout" => ref[job.to] \in Nat)
        BY <1>1, TreeFacts DEF TreeTyped, JobsTyped, Commits, Worktree!Branch
      <3> QED
        BY <3>1
    <2>3. j \in Job /\ j.op = job.op /\ j.to = job.to /\ j.exec = job.exec /\ j.head = job.head
      BY <1>1, <2>1, <2>2 DEF Job
    <2> QED
      BY <1>3, <2>1, <2>3 DEF Starts, Worktree!Reviewed
  <1>10. CASE Worktree!ReadParent
    <2>1. /\ job.op = "rollback" /\ job.at # "head" /\ commits[job.head].parent # Worktree!None
          /\ Worktree!Reviewed([job EXCEPT !.x = commits[job.head].parent])
      BY <1>10 DEF Worktree!ReadParent, Worktree!At
    <2>2. commits[job.head].parent \in Nat
      BY <1>1, <1>3, <2>1 DEF HistoryTyped, Commits
    <2> DEFINE j == [job EXCEPT !.x = commits[job.head].parent]
    <2>3. /\ j \in Job /\ j.op = job.op /\ j.to = job.to /\ j.exec = job.exec /\ j.head = job.head
          /\ j.x = commits[job.head].parent
      BY <1>1, <2>2 DEF Job
    <2> HIDE DEF j
    <2>4. Worktree!Reviewed(j)
      BY <2>1 DEF j
    <2> QED
      BY <1>3, <2>1, <2>3, <2>4 DEF Starts, Worktree!Reviewed
  <1>11. CASE Worktree!ReadRemote
    <2>1. job.op \in {"push", "pull"} /\ job.at = "read"
      BY <1>11 DEF Worktree!ReadRemote, Worktree!At
    <2>2. CASE job.op = "push"
      <3>1. remote[job.branch] \in Nat
        BY <1>1, <1>11 DEF Worktree!ReadRemote, Worktree!Forward, Worktree!Line
      <3> DEFINE j == [job EXCEPT !.x = remote[job.branch]]
      <3>2. j \in Job /\ j.op = job.op /\ j.to = job.to /\ j.exec = job.exec /\ j.head = job.head
        BY <1>1, <3>1 DEF Job
      <3>3. Worktree!Reviewed(j)
        BY <1>11, <2>2 DEF Worktree!ReadRemote
      <3> QED
        BY <1>3, <2>1, <2>2, <3>2, <3>3 DEF Starts, Worktree!Reviewed
    <2>3. CASE job.op = "pull"
      <3>1. shown' = shown /\ job' = [job EXCEPT !.at = "base"]
        BY <1>11, <2>3 DEF Worktree!ReadRemote, Worktree!Same, Worktree!Goto
      <3>2. /\ job'.at = "base" /\ job'.op = job.op /\ job'.to = job.to /\ job'.exec = job.exec
            /\ job'.head = job.head
        BY <1>1, <3>1 DEF Job
      <3> QED
        BY <1>2, <1>3, <2>1, <3>1, <3>2 DEF Reads, Readings
    <2> QED
      BY <2>1, <2>2, <2>3
  <1>12. CASE Worktree!CommitTree \/ Worktree!Revert
    <2>1. \/ Ends
          \/ /\ job.op # "none" /\ job.at = "act" /\ shown' = shown
             /\ \E l \in {"attach", "reverted"} : job' = [job EXCEPT !.new = Worktree!Newest, !.at = l]
      BY <1>12 DEF Worktree!CommitTree, Worktree!Revert, Worktree!At, Worktree!End, Ends
    <2>2. ASSUME NEW l \in {"attach", "reverted"}, job' = [job EXCEPT !.new = Worktree!Newest, !.at = l]
          PROVE  job'.at = l /\ Alike(job', job)
      BY <1>1, <2>2 DEF Job, Alike
    <2> QED
      BY <2>1, <2>2 DEF Goes, Acts
  <1>13. CASE \/ Worktree!Attach \/ Worktree!Switch \/ Worktree!VerifyBranch \/ Worktree!VerifyHead
              \/ Worktree!Push \/ Worktree!Create \/ Worktree!Check \/ Worktree!Replace
              \/ Worktree!VerifyFile \/ Worktree!VersionHead \/ Worktree!VersionBranch
    <2>1. \/ Ends
          \/ /\ job.op # "none" /\ job.at \in Acts /\ shown' = shown
             /\ \E l \in Acts : job' = [job EXCEPT !.at = l]
      BY <1>13 DEF Worktree!Attach, Worktree!Switch, Worktree!VerifyBranch, Worktree!VerifyHead,
         Worktree!Push, Worktree!Create, Worktree!Check, Worktree!Replace, Worktree!VerifyFile,
         Worktree!VersionHead, Worktree!VersionBranch, Worktree!At, Worktree!End, Ends, Worktree!Goto, Worktree!Same, Acts
    <2>2. ASSUME NEW l \in Acts, job' = [job EXCEPT !.at = l] PROVE job'.at = l /\ Alike(job', job)
      BY <1>1, <2>2 DEF Job, Alike
    <2> QED
      BY <2>1, <2>2 DEF Goes
  <1>14. CASE Worktree!ReadInverse
    <2>1. /\ job.op # "none" /\ job.at = "reverted" /\ shown' = shown
          /\ \E S : job' = [job EXCEPT !.new = Worktree!HEAD, !.at = "reported", !.still = S]
      BY <1>14 DEF Worktree!ReadInverse, Worktree!At, Worktree!Same
    <2>2. job'.at = "reported" /\ Alike(job', job)
      BY <1>1, <2>1 DEF Job, Alike
    <2> QED
      BY <2>1, <2>2 DEF Goes, Acts
  <1>15. CASE Worktree!Begin
    BY <1>15
  <1> QED
    BY <1>6, <1>7, <1>8, <1>9, <1>10, <1>11, <1>12, <1>13, <1>14, <1>15
       DEF Worktree!Next, Worktree!Review, Worktree!Execute

LEMMA ExecutionStep ==
  ASSUME WorkIInv, [Worktree!Next]_(Worktree!vars) PROVE ExecutionOK'
  <1>1. WorkTypeOK /\ HistoryTyped /\ JobsTyped /\ ExecutionOK
    BY DEF WorkIInv, WorkTypeOK
  <1>2. Commits \subseteq Commits'
    BY <1>1, HistoryStep, MoreCommits
  <1>3. CASE Left
    BY <1>1, <1>2, <1>3, LeftOK
  <1>4. CASE Worktree!Begin
    <2>1. /\ job'.at = "head" /\ shown' = shown /\ job'.exec \in BOOLEAN
          /\ job'.exec => shown.op # "none" /\ job'.op = shown.op /\ job'.to = shown.to
      BY <1>4 DEF Worktree!Begin, Worktree!Idle
    <2> QED
      BY <2>1 DEF ExecutionOK, Readings
  <1>5. CASE \E j : Starts(j)
    BY <1>1, <1>5, StartsOK
  <1>6. CASE Ends \/ Reads \/ Goes
    BY <1>1, <1>2, <1>6, EndsOK, ReadsOK, GoesOK DEF Ends
  <1> QED
    BY <1>3, <1>4, <1>5, <1>6, WorkCases

\* Only two commands of a commit go on with it, and two of a rollback end one.
LEMMA CommitGoes ==
  ASSUME WorkIInv, [Worktree!Next]_(Worktree!vars), Goes, job.op = "commit"
  PROVE  Worktree!CommitTree \/ (Worktree!Attach /\ job.at = "attach" /\ job'.new = job.new) \/ Left
  <1>1. job.at \notin Readings /\ job.at # "idle" /\ job \in Job /\ job' # Worktree!Idle
    <2>1. job'.op # "none" /\ Worktree!Idle.op = "none"
      BY DEF Goes, Alike, Worktree!Idle
    <2>2. job.at \notin Readings /\ job.at # "idle"
      BY DEF Goes, Acts, Readings
    <2>3. job \in Job
      BY DEF WorkIInv, WorkTypeOK, JobsTyped
    <2> QED
      BY <2>1, <2>2, <2>3
  <1>2. CASE Worktree!Attach
    BY <1>1, <1>2 DEF Worktree!Attach, Worktree!At, Worktree!Goto, Job
  <1>3. CASE \/ Worktree!Switch \/ Worktree!VerifyBranch \/ Worktree!VerifyHead \/ Worktree!VerifyStatus
             \/ Worktree!Push \/ Worktree!VerifyPush \/ Worktree!Create \/ Worktree!VerifyPull
             \/ Worktree!Revert \/ Worktree!ReadInverse \/ Worktree!VerifyTree \/ Worktree!Check
             \/ Worktree!Replace \/ Worktree!VerifyFile \/ Worktree!VersionHead \/ Worktree!VersionBranch
             \/ Worktree!VerifyVersion
    BY <1>3 DEF Worktree!Switch, Worktree!VerifyBranch, Worktree!VerifyHead, Worktree!VerifyStatus,
       Worktree!Push, Worktree!VerifyPush, Worktree!Create, Worktree!VerifyPull, Worktree!Revert,
       Worktree!ReadInverse, Worktree!VerifyTree, Worktree!Check, Worktree!Replace, Worktree!VerifyFile,
       Worktree!VersionHead, Worktree!VersionBranch, Worktree!VerifyVersion, Worktree!At
  <1>4. CASE Worktree!Begin \/ Worktree!Refuse \/ Worktree!Made
    BY <1>1, <1>4 DEF Worktree!Begin, Worktree!Refuse, Worktree!Made, Worktree!Success, Worktree!End
  <1>5. CASE \/ Worktree!ReadHead \/ Worktree!ReadBranch \/ Worktree!ReadStatus \/ Worktree!ReadPaths
             \/ Worktree!ReadTree \/ Worktree!ReadPatch \/ Worktree!ReadTarget \/ Worktree!ReadRemote \/ Worktree!ReadBase
             \/ Worktree!ReadParent \/ Worktree!ReadVersion
    BY <1>1, <1>5 DEF Worktree!ReadHead, Worktree!ReadBranch, Worktree!ReadStatus, Worktree!ReadPaths,
       Worktree!ReadTree, Worktree!ReadPatch, Worktree!ReadTarget, Worktree!ReadRemote, Worktree!ReadBase,
       Worktree!ReadParent, Worktree!ReadVersion, Worktree!At, Readings
  <1>6. CASE Worktree!Others \/ UNCHANGED Worktree!vars
    BY <1>6, OthersLeave
  <1> QED
    BY <1>2, <1>3, <1>4, <1>5, <1>6 DEF Worktree!Next, Worktree!Review, Worktree!Execute

\* What was made and what was shown stays as it is while the history grows.
LEMMA MadeStep ==
  ASSUME WorkIInv, [Worktree!Next]_(Worktree!vars) PROVE MadeOK'
  <1>1. /\ WorkTypeOK /\ HistoryTyped /\ JobsTyped /\ ExecutionOK /\ MadeOK
        /\ job \in Job /\ shown \in Job
    BY DEF WorkIInv, WorkTypeOK, JobsTyped
  <1>2. Grown /\ Commits \subseteq Commits' /\ \A c \in Commits : commits'[c] = commits[c]
    BY <1>1, HistoryStep, MoreCommits DEF Grown
  <1>3. \A j \in Job : j.op # "none" /\ j.head \in Commits =>
             commits[j.head].parent \in 0..Len(commits) /\ commits'[j.head] = commits[j.head]
    BY <1>1, <1>2 DEF HistoryTyped, Commits
  <1>4. Worktree!Idle.op = "none"
    BY DEF Worktree!Idle
  \* The commit that was made.
  <1>5. ASSUME job'.op = "commit", job'.at \in {"attach", "made"}
        PROVE  job'.new \in Commits' /\ commits'[job'.new] = [parent |-> job'.head, content |-> job'.x]
    <2>1. CASE Left
      BY <1>1, <1>2, <1>5, <2>1 DEF MadeOK, Left, Alike
    <2>2. CASE Worktree!CommitTree
      <3>1. /\ job.head \in 0..Len(commits) /\ job.x \in Nat
            /\ Worktree!NewCommit(job.head, job.x)
        BY <1>1, <2>2 DEF Worktree!CommitTree, Job
      <3>2. /\ Worktree!Newest \in Commits'
            /\ commits'[Worktree!Newest] = [parent |-> job.head, content |-> job.x]
        BY <1>1, <3>1, NewCommitGrows
      <3>3. job' = [job EXCEPT !.new = Worktree!Newest, !.at = "attach"]
        BY <2>2 DEF Worktree!CommitTree
      <3>4. job'.new = Worktree!Newest /\ job'.head = job.head /\ job'.x = job.x
        BY <1>1, <3>3 DEF Job
      <3> QED
        BY <3>2, <3>4
    <2>3. CASE Goes
      <3>1. job.op = "commit" /\ job'.head = job.head /\ job'.x = job.x
        BY <1>5, <2>3 DEF Goes, Alike
      <3>2. CASE Worktree!Attach /\ job.at = "attach" /\ job'.new = job.new
        BY <1>1, <1>2, <3>1, <3>2 DEF MadeOK
      <3> QED
        BY <2>1, <2>2, <2>3, <3>1, <3>2, CommitGoes
    <2>4. CASE Worktree!Begin
      BY <1>5, <2>4 DEF Worktree!Begin, Worktree!Idle
    <2>5. CASE \E j : Starts(j)
      BY <1>4, <1>5, <2>5 DEF Starts, Worktree!Reviewed, Job
    <2>6. CASE Ends \/ Reads
      BY <1>4, <1>5, <2>6 DEF Ends, Reads, Readings
    <2> QED
      BY <2>1, <2>3, <2>4, <2>5, <2>6, WorkCases
  \* The reviewed rollback that is carried out.
  <1>6. ASSUME job'.op = "rollback", job'.at \notin Readings
        PROVE  job'.x \in Commits' /\ job'.x = commits'[job'.head].parent
    <2>1. CASE Left
      <3>1. job.op = "rollback" /\ job'.head = job.head /\ job'.x = job.x /\ job.at \notin Readings
        BY <1>6, <2>1 DEF Left, Alike
      <3>2. job.head \in Commits /\ job.x \in Commits /\ job.x = commits[job.head].parent
        BY <1>1, <3>1 DEF MadeOK, ExecutionOK, Readings
      <3> QED
        BY <1>2, <3>1, <3>2
    <2>2. CASE Goes
      <3>1. job.op = "rollback" /\ job'.head = job.head /\ job'.x = job.x /\ job.at \in Acts
        BY <1>6, <2>2 DEF Goes, Alike
      <3>2. job.head \in Commits /\ job.x \in Commits /\ job.x = commits[job.head].parent
        BY <1>1, <3>1 DEF MadeOK, ExecutionOK, Readings, Acts
      <3> QED
        BY <1>2, <3>1, <3>2
    <2>3. CASE Worktree!Begin
      BY <1>6, <2>3 DEF Worktree!Begin, Worktree!Idle, Readings
    <2>4. CASE \E j : Starts(j) /\ (job.op = "rollback" => j.x = commits[j.head].parent /\ j.x # Worktree!None)
      <3>1. PICK j : Starts(j) /\ (job.op = "rollback" => j.x = commits[j.head].parent /\ j.x # Worktree!None)
        BY <2>4
      <3>2. job' = [j EXCEPT !.at = "act"] /\ commits' = commits /\ j \in Job /\ j.op = job.op /\ j.head \in Commits
        BY <1>4, <1>6, <3>1 DEF Starts, Worktree!Reviewed
      <3>3. job'.op = j.op /\ job'.x = j.x /\ job'.head = j.head
        BY <3>2 DEF Job
      <3>4. j.x = commits[j.head].parent /\ j.x # 0 /\ j.op # "none"
        BY <1>6, <3>1, <3>2, <3>3 DEF Worktree!None
      <3>5. j.x \in 0..Len(commits)
        BY <1>3, <3>2, <3>4
      <3> QED
        BY <3>2, <3>3, <3>4, <3>5 DEF Commits
    <2>5. CASE Ends \/ Reads
      BY <1>4, <1>6, <2>5 DEF Ends, Reads
    <2> QED
      BY <2>1, <2>2, <2>3, <2>4, <2>5, WorkCases
  \* The rollback that is shown.
  <1>7. ASSUME shown'.op = "rollback"
        PROVE  /\ shown'.head \in Commits' /\ shown'.x \in Commits'
               /\ shown'.x = commits'[shown'.head].parent
    <2>1. CASE shown' = shown
      BY <1>1, <1>2, <1>7, <2>1 DEF MadeOK
    <2>2. CASE \E j : Starts(j) /\ (job.op = "rollback" => j.x = commits[j.head].parent /\ j.x # Worktree!None)
      <3>1. PICK j : Starts(j) /\ (job.op = "rollback" => j.x = commits[j.head].parent /\ j.x # Worktree!None)
        BY <2>2
      <3>2. CASE shown' = [j EXCEPT !.at = "shown", !.still = {}]
        <4>1. commits' = commits /\ j \in Job /\ j.op = job.op /\ j.head \in Commits
          BY <3>1 DEF Starts, Worktree!Reviewed
        <4>2. shown'.op = j.op /\ shown'.x = j.x /\ shown'.head = j.head
          BY <3>2, <4>1 DEF Job
        <4>3. j.x = commits[j.head].parent /\ j.x # 0 /\ j.op # "none"
          BY <1>7, <3>1, <4>1, <4>2 DEF Worktree!None
        <4>4. j.x \in 0..Len(commits)
          BY <1>3, <4>1, <4>3
        <4> QED
          BY <4>1, <4>2, <4>3, <4>4 DEF Commits
      <3> QED
        BY <2>1, <3>1, <3>2 DEF Starts, Worktree!Reviewed
    <2>3. CASE Worktree!Begin \/ Reads \/ Goes \/ Left
      BY <2>1, <2>3 DEF Worktree!Begin, Reads, Goes, Left
    <2>4. CASE Ends
      <3>1. shown' = shown \/ shown' = Worktree!Idle
        BY <2>4 DEF Ends
      <3> QED
        BY <1>4, <1>7, <2>1, <3>1
    <2> QED
      BY <2>1, <2>2, <2>3, <2>4, WorkCases
  <1> QED
    BY <1>5, <1>6, <1>7 DEF MadeOK

\* What the reported inverse commit is, while others leave HEAD alone.
LEMMA InverseStep ==
  ASSUME WorkIInv, [Worktree!Next]_(Worktree!vars) PROVE InverseOK'
  <1>1. /\ WorkTypeOK /\ HistoryTyped /\ JobsTyped /\ ExecutionOK /\ MadeOK /\ InverseOK
        /\ job \in Job /\ Worktree!HEAD \in Commits
    BY TreeFacts DEF WorkIInv, WorkTypeOK, JobsTyped
  <1>2. Grown /\ Commits \subseteq Commits' /\ \A c \in Commits : commits'[c] = commits[c]
    BY <1>1, HistoryStep, MoreCommits DEF Grown
  <1>3. /\ Worktree!Idle.op = "none" /\ Worktree!Idle.still = {}
        /\ "none" \notin Worktree!Op
    BY DEF Worktree!Idle, Worktree!Op
  <1>4. CASE job' = Worktree!Idle
    BY <1>3, <1>4 DEF InverseOK
  <1>5. CASE Worktree!Begin
    <2>1. job'.at = "head" /\ job'.still = {}
      BY <1>5 DEF Worktree!Begin, Worktree!Idle
    <2> QED
      BY <2>1 DEF InverseOK
  \* What was made stays as it is.
  <1>6. ASSUME job.op = "rollback", job.at \notin Readings
        PROVE  /\ job.x \in Commits /\ job.head \in Commits
               /\ commits'[job.x] = commits[job.x] /\ commits'[job.head] = commits[job.head]
    BY <1>1, <1>2, <1>6 DEF MadeOK, ExecutionOK, Readings
  \* Others.
  <1>7. CASE Worktree!Others \/ UNCHANGED Worktree!vars
    <2>1. \/ job' = job /\ Worktree!HEAD' = Worktree!HEAD
          \/ job' = [job EXCEPT !.still = @ \ {"review", "commit"}]
      BY <1>7 DEF Worktree!vars, Worktree!localVars, Worktree!Others, Worktree!Edit, Worktree!Commit,
         Worktree!SwitchAway, Worktree!PushElsewhere, Worktree!Other, Worktree!Moved, Worktree!HEAD
    <2>2. /\ Alike(job', job) /\ job'.at = job.at /\ job'.new = job.new
          /\ \/ job'.still = job.still /\ Worktree!HEAD' = Worktree!HEAD
             \/ job'.still = job.still \ {"review", "commit"}
      BY <1>1, <2>1 DEF Alike, Job
    <2> SUFFICES ASSUME job.op = "rollback"
                 PROVE  InverseOK'
      BY <2>2 DEF Alike, InverseOK
    <2>3. ASSUME NEW c \in Commits, InverseOf(c), job.at \notin Readings PROVE InverseOf(c)'
      <3>1. commits'[c] = commits[c] /\ commits'[job.x] = commits[job.x]
        BY <1>2, <1>6, <2>3
      <3> QED
        BY <2>2, <2>3, <3>1 DEF InverseOf, Alike
    <2>4. ("review" \in job.still =>
             IF job.at = "reverted" THEN InverseOf(Worktree!HEAD) ELSE Worktree!HEAD = job.head)'
      <3>1. SUFFICES ASSUME "review" \in job'.still
                     PROVE  IF job'.at = "reverted" THEN InverseOf(Worktree!HEAD)' ELSE Worktree!HEAD' = job'.head
        OBVIOUS
      <3>2. /\ "review" \in job.still /\ Worktree!HEAD' = Worktree!HEAD /\ job'.head = job.head
            /\ job'.at = job.at
        BY <2>2, <3>1 DEF Alike
      <3>3. CASE job.at = "reverted"
        <4>1. InverseOf(Worktree!HEAD) /\ job.at \notin Readings
          BY <1>1, <3>2, <3>3 DEF InverseOK, Readings
        <4>2. /\ commits'[Worktree!HEAD] = commits[Worktree!HEAD] /\ commits'[job.x] = commits[job.x]
              /\ job'.x = job.x
          BY <1>1, <1>2, <1>6, <2>2, <4>1 DEF Alike
        <4>3. commits[Worktree!HEAD] = [parent |-> job.head, content |-> commits[job.x].content]
          BY <4>1 DEF InverseOf
        <4>4. commits'[Worktree!HEAD'] = [parent |-> job'.head, content |-> commits'[job'.x].content]
          BY <3>2, <4>2, <4>3
        <4> QED
          BY <3>2, <3>3, <4>4 DEF InverseOf
      <3>4. CASE job.at # "reverted"
        BY <1>1, <3>2, <3>4 DEF InverseOK
      <3> QED
        BY <3>3, <3>4
    <2>5. ("inverse" \in job.still => job.at = "reported" /\ InverseOf(job.new))'
      <3>1. SUFFICES ASSUME "inverse" \in job'.still
                     PROVE  job'.at = "reported" /\ InverseOf(job.new)'
        OBVIOUS
      <3>2. job.at = "reported" /\ InverseOf(job.new) /\ job.new \in Commits /\ job.at \notin Readings
        BY <1>1, <2>2, <3>1 DEF InverseOK, Readings
      <3>3. commits'[job.new] = commits[job.new] /\ commits'[job.x] = commits[job.x]
        BY <1>2, <1>6, <3>2
      <3> QED
        BY <2>2, <3>2, <3>3 DEF InverseOf, Alike
    <2>6. ("commit" \in job.still => job.at = "reported" /\ Worktree!HEAD = job.new)'
      BY <1>1, <2>2 DEF InverseOK
    <2>7. (job.at = "reported" => job.new \in Commits)'
      BY <1>1, <1>2, <2>2 DEF InverseOK
    <2> QED
      BY <2>4, <2>5, <2>6, <2>7 DEF InverseOK
  \* Readings leave HEAD where it is.
  <1>8. CASE /\ job.op = "rollback"
             /\ Worktree!ReadHead \/ Worktree!ReadBranch \/ Worktree!ReadStatus \/ Worktree!ReadParent
    <2>1. CASE Worktree!ReadHead
      <3>1. /\ Worktree!HEAD' = Worktree!HEAD
            /\ job' = [job EXCEPT !.head = Worktree!HEAD, !.at = "branch", !.still = {"review"}]
        BY <2>1 DEF Worktree!ReadHead, Worktree!Same, Worktree!localVars, Worktree!HEAD
      <3>2. job'.head = Worktree!HEAD /\ job'.at = "branch" /\ job'.still = {"review"}
        BY <1>1, <3>1 DEF Job
      <3> QED
        BY <3>1, <3>2 DEF InverseOK
    <2>2. CASE Worktree!ReadBranch \/ Worktree!ReadStatus \/ Worktree!ReadParent
      <3>1. Worktree!HEAD' = Worktree!HEAD /\ job.at \in {"branch", "status", "read"}
        BY <2>2 DEF Worktree!ReadBranch, Worktree!ReadStatus, Worktree!ReadParent, Worktree!Reviewed,
           Worktree!Same, Worktree!localVars, Worktree!HEAD, Worktree!At
      <3>2. \/ job' = Worktree!Idle
            \/ job' = [job EXCEPT !.branch = cur, !.at = "status"]
            \/ job' = [job EXCEPT !.at = "read"]
            \/ job' = [[job EXCEPT !.x = commits[job.head].parent] EXCEPT !.at = "act"]
        BY <2>2 DEF Worktree!ReadBranch, Worktree!ReadStatus, Worktree!ReadParent, Worktree!Reviewed,
           Worktree!Goto
      <3>3. \/ job' = Worktree!Idle
            \/ /\ job'.still = job.still /\ job'.head = job.head
               /\ job'.at \in {"status", "read", "act"}
        BY <1>1, <3>2 DEF Job
      <3> QED
        BY <1>1, <1>4, <1>8, <3>1, <3>3 DEF InverseOK
    <2> QED
      BY <1>8, <2>1, <2>2
  <1>9. CASE Worktree!Revert
    <2>1. job.op = "rollback" /\ job.at = "act"
      BY <1>9 DEF Worktree!Revert, Worktree!At
    <2>2. CASE \E t \in Worktree!Contents :
                 /\ Worktree!HEAD = job.head => t = commits[job.x].content
                 /\ Worktree!NewCommit(Worktree!HEAD, t) /\ ref' = [ref EXCEPT ![cur] = Worktree!Newest]
                 /\ cur' = cur
                 /\ job' = [job EXCEPT !.new = Worktree!Newest, !.at = "reverted"]
      <3>1. PICK t \in Worktree!Contents :
                 /\ Worktree!HEAD = job.head => t = commits[job.x].content
                 /\ Worktree!NewCommit(Worktree!HEAD, t) /\ ref' = [ref EXCEPT ![cur] = Worktree!Newest]
                 /\ cur' = cur
                 /\ job' = [job EXCEPT !.new = Worktree!Newest, !.at = "reverted"]
        BY <2>2
      <3>2. Worktree!HEAD \in 0..Len(commits) /\ t \in Nat
        BY <1>1, TreeFacts, MoreCommits, <1>2
      <3>3. commits'[Worktree!Newest] = [parent |-> Worktree!HEAD, content |-> t]
        BY <1>1, <3>1, <3>2, NewCommitGrows
      <3>4. Worktree!HEAD' = Worktree!Newest
        BY <1>1, <3>1 DEF Worktree!HEAD, WorkTypeOK, TreeTyped
      <3>5. /\ job'.still = job.still /\ job'.head = job.head /\ job'.x = job.x /\ job'.at = "reverted"
            /\ commits'[job.x] = commits[job.x]
        BY <1>1, <1>6, <2>1, <3>1 DEF Job, Readings
      <3>6. "review" \in job.still => InverseOf(Worktree!HEAD)'
        <4>1. SUFFICES ASSUME "review" \in job.still PROVE InverseOf(Worktree!HEAD)'
          OBVIOUS
        <4>2. Worktree!HEAD = job.head
          BY <1>1, <2>1, <4>1 DEF InverseOK
        <4> QED
          BY <3>1, <3>3, <3>4, <3>5, <4>2 DEF InverseOf
      <3> QED
        BY <1>1, <2>1, <3>5, <3>6 DEF InverseOK
    <2> QED
      BY <1>4, <1>9, <2>2 DEF Worktree!Revert, Worktree!End
  <1>10. CASE Worktree!ReadInverse
    <2>1. /\ job.op = "rollback" /\ job.at = "reverted" /\ commits' = commits
          /\ Worktree!HEAD' = Worktree!HEAD
      BY <1>10 DEF Worktree!ReadInverse, Worktree!At, Worktree!Same, Worktree!localVars, Worktree!HEAD
    <2>2. /\ job'.new = Worktree!HEAD /\ job'.at = "reported" /\ job'.head = job.head /\ job'.x = job.x
          /\ job'.still = {"commit"} \union (IF "review" \in job.still THEN {"inverse"} ELSE {})
      BY <1>1, <1>10 DEF Worktree!ReadInverse, Job
    <2>3. "inverse" \in job'.still => InverseOf(Worktree!HEAD)
      BY <1>1, <2>1, <2>2 DEF InverseOK
    <2>4. "review" \notin job'.still
      BY <2>2
    <2>5. InverseOf(Worktree!HEAD) => InverseOf(job.new)'
      BY <2>1, <2>2 DEF InverseOf
    <2>6. job'.new \in Commits'
      BY <1>1, <1>2, <2>2
    <2> QED
      BY <2>1, <2>2, <2>3, <2>4, <2>5, <2>6 DEF InverseOK
  <1>11. CASE Worktree!Refuse \/ Worktree!VerifyTree
    BY <1>4, <1>11 DEF Worktree!Refuse, Worktree!VerifyTree, Worktree!Success, Worktree!End
  \* Another operation.
  <1>12. CASE job.op # "rollback"
    <2>1. CASE Left \/ Reads \/ Goes
      BY <1>12, <2>1 DEF Left, Reads, Goes, Alike, InverseOK
    <2>2. CASE Ends
      BY <1>4, <2>2 DEF Ends
    <2>3. CASE \E j : Starts(j)
      <3>1. PICK j : Starts(j)
        BY <2>3
      <3>2. CASE job' = [j EXCEPT !.at = "act"]
        <4>1. job'.op = job.op
          BY <3>1, <3>2 DEF Starts, Job
        <4> QED
          BY <1>12, <4>1 DEF InverseOK
      <3> QED
        BY <1>4, <3>1, <3>2 DEF Starts, Worktree!Reviewed
    <2> QED
      BY <1>5, <2>1, <2>2, <2>3, WorkCases
  <1>13. CASE /\ job.op = "rollback"
              /\ \/ Worktree!ReadPaths \/ Worktree!ReadTree \/ Worktree!ReadPatch \/ Worktree!ReadTarget
                 \/ Worktree!ReadRemote \/ Worktree!ReadBase \/ Worktree!ReadVersion
                 \/ Worktree!CommitTree \/ Worktree!Attach \/ Worktree!Made \/ Worktree!Switch
                 \/ Worktree!VerifyBranch \/ Worktree!VerifyHead \/ Worktree!VerifyStatus
                 \/ Worktree!Push \/ Worktree!VerifyPush \/ Worktree!Create \/ Worktree!VerifyPull
                 \/ Worktree!Check \/ Worktree!Replace \/ Worktree!VerifyFile \/ Worktree!VersionHead
                 \/ Worktree!VersionBranch \/ Worktree!VerifyVersion
    BY <1>13 DEF Worktree!ReadPaths, Worktree!ReadTree, Worktree!ReadPatch, Worktree!ReadTarget,
       Worktree!ReadRemote, Worktree!ReadBase, Worktree!ReadVersion, Worktree!CommitTree,
       Worktree!Attach, Worktree!Made, Worktree!Switch, Worktree!VerifyBranch, Worktree!VerifyHead,
       Worktree!VerifyStatus, Worktree!Push, Worktree!VerifyPush, Worktree!Create,
       Worktree!VerifyPull, Worktree!Check, Worktree!Replace, Worktree!VerifyFile,
       Worktree!VersionHead, Worktree!VersionBranch, Worktree!VerifyVersion, Worktree!At
  <1> QED
    BY <1>5, <1>7, <1>8, <1>9, <1>10, <1>11, <1>12, <1>13
       DEF Worktree!Next, Worktree!Review, Worktree!Execute

\* What is reported is what was shown: the execution compared the two.
LEMMA DoneStep ==
  ASSUME WorkIInv, [Worktree!Next]_(Worktree!vars) PROVE DoneOK'
  <1>1. /\ WorkTypeOK /\ HistoryTyped /\ JobsTyped /\ ExecutionOK /\ MadeOK /\ InverseOK /\ DoneOK
        /\ job \in Job /\ shown \in Job /\ done \in Job
    BY DEF WorkIInv, WorkTypeOK, JobsTyped
  <1>2. Grown /\ Commits \subseteq Commits' /\ \A c \in Commits : commits'[c] = commits[c]
    BY <1>1, HistoryStep, MoreCommits DEF Grown
  <1>3. CASE done' = done
    BY <1>1, <1>2, <1>3 DEF DoneOK, Worktree!AsShown
  <1>4. ASSUME NEW n \in 0..Len(commits), Worktree!Success(n), job.op # "none", job.at \notin Readings
        PROVE  /\ commits' = commits /\ done'.op = job.op /\ done'.new = n /\ done'.still = job.still
               /\ done'.head = shown.head /\ done'.x = shown.x
               /\ Worktree!Compared(job) = Worktree!Compared(shown) /\ shown.op = job.op
    <2>1. done' = [shown EXCEPT !.new = n, !.still = job.still] /\ commits' = commits
      BY <1>4 DEF Worktree!Success
    <2>2. Worktree!Compared(job) = Worktree!Compared(shown) /\ shown.op = job.op
      BY <1>1, <1>4 DEF ExecutionOK
    <2> QED
      BY <1>1, <2>1, <2>2 DEF Job
  <1>5. CASE Worktree!Made
    <2>1. job.op = "commit" /\ job.at = "made" /\ Worktree!Success(job.new)
      BY <1>5 DEF Worktree!Made, Worktree!At
    <2>2. /\ job.new \in Commits
          /\ commits[job.new] = [parent |-> job.head, content |-> job.x]
      BY <1>1, <2>1 DEF MadeOK
    <2>3. /\ commits' = commits /\ done'.op = "commit" /\ done'.new = job.new
          /\ done'.head = shown.head /\ done'.x = shown.x /\ shown.op = "commit"
          /\ Worktree!Compared(job) = Worktree!Compared(shown)
      BY <1>2, <1>4, <2>1, <2>2 DEF Commits, Readings
    <2>4. job.head = shown.head /\ job.x = shown.x
      BY <2>1, <2>3 DEF Worktree!Compared
    <2> QED
      BY <1>2, <2>2, <2>3, <2>4 DEF DoneOK, Worktree!AsShown
  <1>6. CASE Worktree!VerifyTree
    <2>1. /\ job.op = "rollback" /\ job.at = "reported" /\ Worktree!Success(job.new)
          /\ commits[Worktree!HEAD].content = commits[job.x].content
      BY <1>6 DEF Worktree!VerifyTree, Worktree!At
    <2>2. /\ job.new \in Commits /\ job.x = commits[job.head].parent
          /\ "inverse" \in job.still => InverseOf(job.new)
          /\ "commit" \in job.still => Worktree!HEAD = job.new
      BY <1>1, <2>1 DEF MadeOK, InverseOK, Readings
    <2>3. /\ commits' = commits /\ done'.op = "rollback" /\ done'.new = job.new
          /\ done'.x = shown.x /\ done'.head = shown.head /\ shown.op = "rollback"
          /\ done'.still = job.still /\ Worktree!Compared(job) = Worktree!Compared(shown)
      BY <1>2, <1>4, <2>1, <2>2 DEF Commits, Readings
    <2>4. job.head = shown.head
      BY <2>1, <2>3 DEF Worktree!Compared
    <2>5. shown.x \in Commits /\ shown.x = job.x
      BY <1>1, <2>2, <2>3, <2>4 DEF MadeOK
    <2> QED
      BY <1>2, <2>1, <2>2, <2>3, <2>4, <2>5 DEF DoneOK, Worktree!AsShown, InverseOf
  <1>7. CASE \/ Worktree!VerifyStatus \/ Worktree!VerifyPush \/ Worktree!VerifyPull \/ Worktree!VerifyVersion
    <2>1. /\ Worktree!Success(0) /\ job.op \in {"checkout", "push", "pull", "version"}
          /\ job.at \notin Readings
      BY <1>7 DEF Worktree!VerifyStatus, Worktree!VerifyPush, Worktree!VerifyPull, Worktree!VerifyVersion,
         Worktree!At, Worktree!None, Readings
    <2>2. 0 \in 0..Len(commits)
      BY <1>1, TreeFacts
    <2>3. done'.op = job.op
      BY <1>4, <2>1, <2>2
    <2> QED
      BY <2>1, <2>3 DEF DoneOK, Worktree!AsShown
  <1>8. CASE \/ Worktree!CommitTree \/ Worktree!Attach \/ Worktree!Switch \/ Worktree!VerifyBranch
             \/ Worktree!VerifyHead \/ Worktree!Push \/ Worktree!Create \/ Worktree!Revert
             \/ Worktree!Check \/ Worktree!Replace \/ Worktree!ReadInverse \/ Worktree!VerifyFile
             \/ Worktree!VersionHead \/ Worktree!VersionBranch
    BY <1>3, <1>8 DEF Worktree!CommitTree, Worktree!Attach, Worktree!Switch, Worktree!VerifyBranch,
       Worktree!VerifyHead, Worktree!Push, Worktree!Create, Worktree!Revert,
       Worktree!Check, Worktree!Replace, Worktree!ReadInverse, Worktree!VerifyFile,
       Worktree!VersionHead, Worktree!VersionBranch, Worktree!Same
  <1>9. CASE Worktree!Review
    BY <1>3, <1>9, ReviewKeeps
  <1>10. CASE Worktree!Others \/ UNCHANGED Worktree!vars
    BY <1>3, <1>10 DEF Worktree!vars, Worktree!Others, Worktree!Edit, Worktree!Commit, Worktree!SwitchAway,
       Worktree!PushElsewhere, Worktree!Other
  <1> QED
    BY <1>5, <1>6, <1>7, <1>8, <1>9, <1>10 DEF Worktree!Next, Worktree!Execute

\* A commit is on its own line, and its parent is.
LEMMA OwnLine ==
  ASSUME NEW cs, NEW c \in 0..Len(cs) PROVE c \in Worktree!Line(cs, c)
  BY DEF Worktree!Line

LEMMA ParentLine ==
  ASSUME NEW cs, NEW c \in 0..Len(cs), c # 0, cs[c].parent \in 0..Len(cs)
  PROVE  cs[c].parent \in Worktree!Line(cs, c)
  BY DEF Worktree!Line, Worktree!Lineages, Worktree!None

\* A branch that moves, moves forward.
LEMMA LostStep ==
  ASSUME WorkIInv, [Worktree!Next]_(Worktree!vars) PROVE Worktree!NothingLost
  <1>1. WorkTypeOK /\ HistoryTyped /\ TreeTyped /\ JobsTyped /\ MadeOK /\ job \in Job
    BY DEF WorkIInv, WorkTypeOK, JobsTyped
  <1>2. Grown /\ Commits \subseteq Commits' /\ 0..Len(commits) \subseteq 0..Len(commits')
    BY <1>1, HistoryStep, MoreCommits
  <1>3. \A b \in Worktree!Branch : ref[b] \in 0..Len(commits') /\ remote[b] \in 0..Len(commits')
    BY <1>1, <1>2 DEF TreeTyped, Commits
  <1>4. \A b \in Worktree!Branch : /\ ref[b] \in Worktree!Line(commits', ref[b])
                                   /\ remote[b] \in Worktree!Line(commits', remote[b])
    BY <1>3, OwnLine
  <1>5. CASE UNCHANGED <<ref, remote>> \/ edits' # edits
    BY <1>5 DEF Worktree!NothingLost
  <1>6. ASSUME NEW c \in Commits', remote' = remote, ref' = [ref EXCEPT ![cur] = c],
               commits'[c].parent = Worktree!HEAD
        PROVE  Worktree!NothingLost
    <2>1. c \in 0..Len(commits') /\ c # 0
      <3>1. Len(commits') \in Nat /\ c \in 1..Len(commits')
        BY <1>2 DEF Grown, Commits
      <3> QED
        BY <3>1
    <2>2. ref[cur] \in Worktree!Line(commits', c)
      <3>1. Worktree!HEAD = ref[cur] /\ cur \in Worktree!Branch
        BY <1>1 DEF TreeTyped, Worktree!HEAD
      <3> QED
        BY <1>3, <1>6, <2>1, <3>1, ParentLine
    <2>3. \A b \in Worktree!Branch : ref'[b] = IF b = cur THEN c ELSE ref[b]
      BY <1>1, <1>6 DEF TreeTyped
    <2>4. ASSUME NEW b \in Worktree!Branch
          PROVE  ref[b] \in Worktree!Line(commits', ref'[b]) /\ remote[b] \in Worktree!Line(commits', remote'[b])
      <3>1. CASE b = cur
        BY <1>4, <1>6, <2>2, <2>3, <3>1
      <3>2. CASE b # cur
        BY <1>4, <1>6, <2>3, <3>2
      <3> QED
        BY <3>1, <3>2
    <2> QED
      BY <2>4 DEF Worktree!NothingLost
  <1>7. CASE Worktree!Attach
    <2>1. /\ job.new \in Commits /\ commits[job.new] = [parent |-> job.head, content |-> job.x]
          /\ Worktree!HEAD = job.head /\ commits' = commits /\ remote' = remote
          /\ ref' = [ref EXCEPT ![cur] = job.new]
      BY <1>1, <1>7 DEF MadeOK, Worktree!Attach, Worktree!At
    <2>2. job.new \in Commits' /\ commits'[job.new].parent = Worktree!HEAD
      BY <1>2, <2>1
    <2> QED
      BY <1>6, <2>1, <2>2
  <1>8. CASE Worktree!Revert
    <2>1. CASE UNCHANGED <<commits, ref, index>>
      BY <1>5, <1>8, <2>1 DEF Worktree!Revert
    <2>2. CASE \E t \in Worktree!Contents :
                 Worktree!NewCommit(Worktree!HEAD, t) /\ ref' = [ref EXCEPT ![cur] = Worktree!Newest]
      <3>1. PICK t \in Worktree!Contents :
                 Worktree!NewCommit(Worktree!HEAD, t) /\ ref' = [ref EXCEPT ![cur] = Worktree!Newest]
        BY <2>2
      <3>2. Worktree!HEAD \in 0..Len(commits) /\ t \in Nat
        BY <1>1, <1>2, TreeFacts, MoreCommits
      <3>3. Worktree!Newest \in Commits' /\ commits'[Worktree!Newest] = [parent |-> Worktree!HEAD, content |-> t]
        BY <1>1, <3>1, <3>2, NewCommitGrows
      <3>4. remote' = remote
        BY <1>8 DEF Worktree!Revert
      <3>5. commits'[Worktree!Newest].parent = Worktree!HEAD
        BY <3>3
      <3> QED
        BY <1>6, <3>1, <3>3, <3>4, <3>5
    <2> QED
      BY <1>8, <2>1, <2>2 DEF Worktree!Revert
  <1>9. CASE Worktree!Push
    <2>1. /\ remote[job.branch] \in Worktree!Line(commits, job.head) /\ commits' = commits /\ ref' = ref
          /\ remote' = [remote EXCEPT ![job.branch] = job.head]
      BY <1>9 DEF Worktree!Push, Worktree!Forward, Worktree!localVars
    <2>2. \A b \in Worktree!Branch : remote'[b] = IF b = job.branch THEN job.head ELSE remote[b]
      BY <1>1, <2>1 DEF TreeTyped
    <2>3. remote[job.branch] \in Worktree!Line(commits', job.head)
      BY <2>1
    <2>4. ASSUME NEW b \in Worktree!Branch
          PROVE  ref[b] \in Worktree!Line(commits', ref'[b]) /\ remote[b] \in Worktree!Line(commits', remote'[b])
      <3>1. CASE b = job.branch
        BY <1>4, <2>1, <2>2, <2>3, <3>1
      <3>2. CASE b # job.branch
        BY <1>4, <2>1, <2>2, <3>2
      <3> QED
        BY <3>1, <3>2
    <2> QED
      BY <2>4 DEF Worktree!NothingLost
  <1>10. CASE Worktree!Others
    <2>1. edits' = edits + 1 /\ edits \in Nat
      BY <1>1, <1>10 DEF TreeTyped, Worktree!Others, Worktree!Edit, Worktree!Commit, Worktree!SwitchAway,
         Worktree!PushElsewhere, Worktree!Other
    <2> QED
      BY <1>5, <2>1
  <1>11. CASE Worktree!Review \/ Verifies
    BY <1>5, <1>11, ReviewKeeps, VerifyKeeps DEF TreeKept
  <1>12. CASE Worktree!CommitTree \/ Worktree!Switch \/ Worktree!Create \/ Worktree!Replace
              \/ UNCHANGED Worktree!vars
    BY <1>5, <1>12 DEF Worktree!CommitTree, Worktree!Switch, Worktree!Create, Worktree!Replace,
       Worktree!vars, Worktree!localVars
  <1> QED
    BY <1>7, <1>8, <1>9, <1>10, <1>11, <1>12 DEF Worktree!Next, Worktree!Execute, Verifies

LEMMA WorkInitOK == ASSUME Worktree!Init PROVE WorkIInv
  <1>1. commits = << [parent |-> 0, content |-> 1], [parent |-> 1, content |-> 2] >>
    BY DEF Worktree!Init, Worktree!None
  <1>2. Len(commits) = 2 /\ commits[1] = [parent |-> 0, content |-> 1] /\ commits[2] = [parent |-> 1, content |-> 2]
    BY <1>1
  <1>3. Commits = {1, 2}
    BY <1>2 DEF Commits
  <1>4. HistoryTyped
    <2>1. commits \in Seq([parent : Nat, content : Nat])
      BY <1>1
    <2> QED
      BY <1>2, <1>3, <2>1 DEF HistoryTyped
  <1>5. TreeTyped
    BY <1>2, <1>3 DEF Worktree!Init, TreeTyped, Worktree!Branch, Worktree!Main, Worktree!Topic
  <1>6. job = Worktree!Idle /\ shown = Worktree!Idle /\ done = Worktree!Idle
    BY DEF Worktree!Init
  <1>7. Worktree!Idle \in Job /\ Worktree!Idle.op = "none" /\ Worktree!Idle.exec = FALSE
    BY <1>4, IdleTyped DEF Worktree!Idle
  <1>8. JobsTyped
    BY <1>6, <1>7 DEF JobsTyped
  <1>9. ExecutionOK /\ MadeOK /\ InverseOK /\ DoneOK
    BY <1>6, <1>7 DEF ExecutionOK, MadeOK, InverseOK, DoneOK, Worktree!AsShown
  <1> QED
    BY <1>4, <1>5, <1>8, <1>9 DEF WorkIInv, WorkTypeOK

\* One step of the worktree keeps the invariant and what it promises.
LEMMA WorkStep ==
  ASSUME WorkIInv, [Worktree!Next]_(Worktree!vars)
  PROVE  WorkIInv' /\ Worktree!AsShown' /\ Worktree!NothingLost
  <1>1. HistoryTyped'
    BY HistoryStep DEF Grown
  <1> QED
    BY <1>1, TreeStep, JobsStep, ExecutionStep, MadeStep, InverseStep,
       DoneStep, LostStep
       DEF WorkIInv, WorkTypeOK, DoneOK

-----------------------------------------------------------------------------
\* A step of the windows is one of the worktree, or leaves it as it is.
LEMMA WindowsWork ==
  ASSUME [WindowsNext]_windowsVars
  PROVE  [Worktree!Next]_(Worktree!vars) /\ (UNCHANGED Worktree!vars => UNCHANGED workVars)
  BY DEF WindowsNext, windowsVars, workVars, Worktree!vars, Worktree!localVars, Worktree!budget

\* The invariant of the worktree holds of the application's windows.
THEOREM WorktreeInvariant == WindowsSpec => []WorkIInv
  <1>1. WindowsInit => WorkIInv
    BY WorkInitOK DEF WindowsInit
  <1>2. WorkIInv /\ [WindowsNext]_windowsVars => WorkIInv'
    BY WindowsWork, WorkStep
  <1> QED
    BY <1>1, <1>2, PTL DEF WindowsSpec

\* A reported commit is the one that was confirmed
\* (create_maintainer_local_commit), and so is a reported inverse commit while
\* others leave HEAD alone (execute_maintainer_rollback); and no execution of
\* nvidia.rs takes a commit off a branch: for every number of commits,
\* contents, calls and steps of others.
THEOREM MaintainerIsExact == WindowsSpec => MaintainerExact
  <1>1. WorkIInv /\ [WindowsNext]_windowsVars => [Worktree!AsShown' /\ Worktree!NothingLost]_workVars
    BY WindowsWork, WorkStep
  <1> QED
    BY <1>1, WorktreeInvariant, PTL DEF WindowsSpec, MaintainerExact

-----------------------------------------------------------------------------
(***************************************************************************)
(* The USB writer of the Windows build.                                    *)
(***************************************************************************)
Disks   == WinDisk \union {NoDisk}
Leaving == {"recover", "eject", "remount"}
Answers == {"none", "failure", "ejected", "connected", "manual", "killed"}
Helpers == [pc : {"none", "exited", "admit", "lock", "offline", "isolated", "open", "recheck", "copy",
                  "verify", "receipt"} \union Leaving,
            seen : SUBSET (1..WinVolumes), refused : BOOLEAN, off : BOOLEAN,
            then : {"none", "failed", "verified"}]

UsbTypeOK ==
  /\ at \in Disks /\ offline \in [WinDisk -> BOOLEAN]
  /\ written \in [WinDisk -> [by : 0..MaxWrites, blocks : Nat]]
  /\ app \in [at : {"idle", "prompt", "wait", "ending"}, n : 0..MaxWrites]
  /\ target \in [Usb!Write -> Disks] /\ handle \in [Usb!Write -> Disks]
  /\ result \in [Usb!Write -> {"none", "verified", "failed", "unwatched"}]
  /\ helper \in [Usb!Write -> Helpers] /\ answer \in [Usb!Write -> Answers]
  /\ swaps \in Nat

\* One helper: what it carries along fits where it is.  h is the helper, a its
\* answer and d its handle.
LocalOK(h, a, d, t) ==
  /\ h.then = "verified" => h.pc \in Leaving \union {"receipt"}
  /\ h.pc \in Leaving => h.then \in {"failed", "verified"}
  /\ a # "none" => h.pc \in {"receipt", "exited"}
  /\ h.pc \in {"copy", "verify"} /\ d # NoDisk => d = t
HelpersOK == \A n \in Usb!Write : /\ LocalOK(helper[n], answer[n], handle[n], target[n])
                                  /\ handle[n] # NoDisk /\ at # NoDisk => handle[n] = at

\* Attempts are made one after another; only one that was given up for lack of
\* a way to watch it may still have its helper.
AttemptsOK ==
  /\ app.at # "idle" => app.n \in Usb!Write
  /\ \A n \in Usb!Write :
       /\ n > app.n => helper[n].pc = "none" /\ result[n] = "none"
       /\ n = app.n /\ app.at = "prompt" => helper[n].pc = "none"
       /\ n = app.n /\ app.at # "idle" => result[n] = "none"
       /\ n < app.n \/ (n = app.n /\ app.at = "idle") => result[n] # "none"
       /\ result[n] \in {"verified", "failed"} => ~Usb!Running(n)

\* A copy that was verified is on the disk.
Verified(n) == \/ helper[n].then = "verified"
               \/ answer[n] \in {"ejected", "connected"} /\ result[n] # "failed"
               \/ result[n] = "verified"
OnDisk(n)   == /\ target[n] \in WinDisk
               /\ \/ written[target[n]] = [by |-> n, blocks |-> Usb!Blocks]
                  \/ \E m \in Usb!Write : written[target[n]].by = m /\ (m > n \/ result[m] = "unwatched")
VerifiedOK  == ~foreign /\ \A n \in Usb!Write : Verified(n) => OnDisk(n)

\* The helper will bring the disk online again, or report that it could not.
Owner(h)  == \/ h.pc \in {"isolated", "open", "recheck", "copy", "verify", "recover", "remount"}
             \/ h.pc = "eject" /\ h.off
OfflineOK ==
  /\ swaps = 0 => \A d \in WinDisk : d # at => ~offline[d]
  /\ at # NoDisk /\ swaps < 2 /\ offline[at] =>
       \E n \in Usb!Write : Owner(helper[n]) \/ answer[n] \in {"killed", "manual"}

UsbIInv == UsbTypeOK /\ HelpersOK /\ AttemptsOK /\ VerifiedOK /\ OfflineOK

LEMMA UsbFacts == /\ MaxWrites \in Nat /\ Usb!Write \subseteq Nat /\ NoDisk \notin WinDisk
                  /\ 1 \in Nat /\ Usb!Blocks = 2 /\ Usb!Write = 1..MaxWrites
  BY WindowsBounds DEF Usb!Write, Usb!Blocks

\* What a step of the helper n does: it is h then, its answer a, its handle d.
Moved(n, h, a, d) ==
  /\ h \in Helpers /\ a \in Answers /\ d \in Disks
  /\ helper' = [helper EXCEPT ![n] = h] /\ answer' = [answer EXCEPT ![n] = a]
  /\ handle' = [handle EXCEPT ![n] = d]
  /\ UNCHANGED <<app, target, result, swaps>>
  /\ Usb!Running(n) /\ h.pc # "none"
\* What it carries along, and what it leaves of the disks.
Carries(n, h, a, d) ==
  /\ LocalOK(h, a, d, target[n]) /\ (d # NoDisk => d = handle[n] \/ d = at)
  /\ answer[n] # "none" => a = answer[n]
  /\ h.then = "verified" \/ (a \in {"ejected", "connected"} /\ answer[n] # a) =>
       \/ helper[n].then = "verified"
       \/ target[n] \in WinDisk /\ written[target[n]] = [by |-> n, blocks |-> Usb!Blocks] /\ UNCHANGED written
Disk(n, h, a) ==
  /\ at' \in {at, NoDisk} /\ (at' = at \/ ~offline'[at])
  /\ offline' \in [WinDisk -> BOOLEAN]
  /\ \A d \in WinDisk : offline'[d] => offline[d] \/ (d = at /\ h.pc = "isolated")
  /\ at' # NoDisk /\ offline'[at'] /\ Owner(helper[n]) => Owner(h) \/ a \in {"killed", "manual"}
Writes(n, h, a) ==
  \/ UNCHANGED <<written, foreign>>
  \/ /\ helper[n].pc = "copy" /\ a = answer[n] /\ h.then = helper[n].then /\ target[n] \in WinDisk
     /\ foreign' = foreign
     /\ \E b \in Nat : written' = [written EXCEPT ![target[n]] = [by |-> n, blocks |-> b]]
Moves(n) == \E h, a, d : Moved(n, h, a, d) /\ Carries(n, h, a, d) /\ Disk(n, h, a) /\ Writes(n, h, a)
DiskKept == UNCHANGED <<at, offline, written, foreign>>

\* Most steps leave the disks alone.
LEMMA QuietMoves ==
  ASSUME UsbIInv, NEW n \in Usb!Write, DiskKept, NEW h, NEW a, NEW d, Moved(n, h, a, d), Carries(n, h, a, d),
         at # NoDisk /\ offline[at] /\ Owner(helper[n]) => Owner(h) \/ a \in {"killed", "manual"}
  PROVE  Moves(n)
  <1>1. Disk(n, h, a)
    <2>1. offline' = offline /\ at' = at /\ offline \in [WinDisk -> BOOLEAN]
      BY DEF DiskKept, UsbIInv, UsbTypeOK
    <2> QED
      BY <2>1 DEF Disk
  <1>2. Writes(n, h, a)
    BY DEF DiskKept, Writes
  <1> QED
    BY <1>1, <1>2 DEF Moves

\* The helper, as it is.
LEMMA HelperIs ==
  ASSUME UsbIInv, NEW n \in Usb!Write
  PROVE  /\ helper[n] \in Helpers /\ answer[n] \in Answers /\ handle[n] \in Disks /\ target[n] \in Disks
         /\ helper = [helper EXCEPT ![n] = helper[n]] /\ answer = [answer EXCEPT ![n] = answer[n]]
         /\ handle = [handle EXCEPT ![n] = handle[n]]
         /\ LocalOK(helper[n], answer[n], handle[n], target[n])
         /\ handle[n] # NoDisk /\ at # NoDisk => handle[n] = at
         /\ at \in Disks
  BY DEF UsbIInv, UsbTypeOK, HelpersOK

\* It goes on, and drops or keeps its handle.
LEMMA HelperGoes ==
  ASSUME UsbIInv, NEW n \in Usb!Write, DiskKept, UNCHANGED <<app, target, result, swaps, answer>>,
         NEW h \in Helpers, helper' = [helper EXCEPT ![n] = h],
         NEW d \in Disks, handle' = [handle EXCEPT ![n] = d], d \in {handle[n], at, NoDisk},
         Usb!Running(n), h.pc \notin {"none", "receipt", "exited"}, helper[n].pc # "receipt",
         h.pc \in {"copy", "verify"} /\ d # NoDisk => d = target[n],
         h.pc \in Leaving => h.then \in {"failed", "verified"},
         h.then = "verified" =>
           /\ h.pc \in Leaving
           /\ \/ helper[n].then = "verified"
              \/ target[n] \in WinDisk /\ written[target[n]] = [by |-> n, blocks |-> Usb!Blocks],
         at # NoDisk /\ offline[at] /\ Owner(helper[n]) => Owner(h)
  PROVE  Moves(n)
  <1>1. answer[n] = "none"
    BY HelperIs DEF LocalOK, Usb!Running
  <1>2. Moved(n, h, answer[n], d)
    BY HelperIs DEF Moved
  <1>3. LocalOK(h, answer[n], d, target[n])
    BY <1>1 DEF LocalOK
  <1>4. Carries(n, h, answer[n], d)
    BY <1>1, <1>3 DEF Carries, DiskKept
  <1> QED
    BY <1>2, <1>4, QuietMoves

\* It answers.
LEMMA HelperAnswers ==
  ASSUME UsbIInv, NEW n \in Usb!Write, NEW how \in Answers, UNCHANGED <<app, target, result, swaps, handle>>,
         Usb!Answer(n, how), Usb!Running(n), helper[n].pc # "receipt",
         how \in {"ejected", "connected"} => helper[n].then = "verified", UNCHANGED written
  PROVE  LET h == [helper[n] EXCEPT !.pc = "receipt"]
         IN  Moved(n, h, how, handle[n]) /\ Carries(n, h, how, handle[n])
  <1> DEFINE h == [helper[n] EXCEPT !.pc = "receipt"]
  <1>1. h \in Helpers /\ h.pc = "receipt" /\ h.then = helper[n].then
    BY HelperIs DEF Helpers
  <1>2. answer[n] = "none"
    BY HelperIs DEF LocalOK, Usb!Running
  <1>3. helper' = [helper EXCEPT ![n] = h] /\ answer' = [answer EXCEPT ![n] = how]
    BY DEF Usb!Answer
  <1> HIDE DEF h
  <1>4. Moved(n, h, how, handle[n])
    BY <1>1, <1>3, HelperIs DEF Moved
  <1>5. LocalOK(h, how, handle[n], target[n])
    BY <1>1 DEF LocalOK, Leaving
  <1>6. Carries(n, h, how, handle[n])
    BY <1>1, <1>2, <1>5 DEF Carries
  <1> QED
    BY <1>4, <1>6 DEF h

\* It drops its handles, to recover the disk.
LEMMA HelperLeaves ==
  ASSUME UsbIInv, NEW n \in Usb!Write, NEW then \in {"failed", "verified"}, DiskKept,
         UNCHANGED <<app, target, result, swaps, answer>>, Usb!Leave(n, then),
         Usb!Running(n), helper[n].pc # "receipt",
         then = "verified" => target[n] \in WinDisk /\ written[target[n]] = [by |-> n, blocks |-> Usb!Blocks]
  PROVE  Moves(n)
  <1> DEFINE h == [helper[n] EXCEPT !.pc = "recover", !.then = then]
  <1>1. h \in Helpers /\ h.pc = "recover" /\ h.then = then
    BY HelperIs DEF Helpers, Leaving
  <1>2. helper' = [helper EXCEPT ![n] = h] /\ handle' = [handle EXCEPT ![n] = NoDisk] /\ NoDisk \in Disks
    BY DEF Usb!Leave, Disks
  <1>3. Owner(h) /\ h.pc \in Leaving
    BY <1>1 DEF Owner, Leaving
  <1> HIDE DEF h
  <1> QED
    BY <1>1, <1>2, <1>3, HelperGoes

\* Its process ends.
LEMMA HelperGone ==
  ASSUME UsbIInv, NEW n \in Usb!Write, NEW how \in {"none", "killed"}, Usb!Gone(n, how), DiskKept,
         UNCHANGED <<app, target, result, swaps>>, Usb!Running(n),
         helper[n].pc # "receipt" => how = "killed"
  PROVE  Moves(n)
  <1> DEFINE h == [Usb!NoHelper EXCEPT !.pc = "exited"]
             a == IF answer[n] = "none" THEN how ELSE answer[n]
  <1>1. h \in Helpers /\ h.pc = "exited" /\ h.then = "none"
    BY DEF Helpers, Usb!NoHelper
  <1>2. /\ helper' = [helper EXCEPT ![n] = h] /\ handle' = [handle EXCEPT ![n] = NoDisk] /\ NoDisk \in Disks
        /\ answer' = [answer EXCEPT ![n] = a]
    BY HelperIs DEF Usb!Gone, Disks, UsbIInv, UsbTypeOK
  <1>3. a \in Answers /\ (answer[n] # "none" => a = answer[n]) /\ (answer[n] = "none" => a = how)
    BY HelperIs DEF Answers
  <1>4. helper[n].pc # "receipt" => answer[n] = "none"
    BY HelperIs DEF LocalOK, Usb!Running
  <1> HIDE DEF h, a
  <1>5. Moved(n, h, a, NoDisk)
    BY <1>1, <1>2, <1>3 DEF Moved
  <1>6. LocalOK(h, a, NoDisk, target[n])
    BY <1>1 DEF LocalOK, Leaving
  <1>7. Carries(n, h, a, NoDisk)
    BY <1>1, <1>3, <1>6 DEF Carries
  <1>8. Owner(helper[n]) => a = "killed"
    BY <1>3, <1>4 DEF Owner
  <1> QED
    BY <1>5, <1>7, <1>8, QuietMoves

\* Every step of a helper is of this kind.
LEMMA HelperMoves ==
  ASSUME UsbIInv, NEW n \in Usb!Write, Usb!Helper(n) PROVE Moves(n)
  <1> DEFINE g == helper[n]
  <1>0. /\ g \in Helpers /\ handle[n] \in Disks /\ target[n] \in Disks /\ at \in Disks
        /\ LocalOK(g, answer[n], handle[n], target[n])
        /\ handle[n] # NoDisk /\ at # NoDisk => handle[n] = at
        /\ offline \in [WinDisk -> BOOLEAN] /\ NoDisk \notin WinDisk /\ NoDisk \in Disks
    BY HelperIs, UsbFacts DEF UsbIInv, UsbTypeOK, Disks
  <1>1. ASSUME NEW pc, Usb!In(n, pc), pc \notin {"none", "exited"}
        PROVE  g.pc = pc /\ Usb!Running(n) /\ UNCHANGED <<app, target, result, swaps>>
    BY <1>1 DEF Usb!In, Usb!Running, Usb!side
  \* It moves on, without its handle.
  <1>2. ASSUME NEW h, h \in Helpers, helper' = [helper EXCEPT ![n] = h], handle' = handle, DiskKept,
               UNCHANGED <<app, target, result, swaps, answer>>, Usb!Running(n), g.pc # "receipt",
               h.pc \notin {"none", "receipt", "exited", "copy", "verify"} \union Leaving, h.then # "verified",
               Owner(g) => Owner(h)
        PROVE  Moves(n)
    <2>1. handle' = [handle EXCEPT ![n] = handle[n]]
      BY <1>2, HelperIs
    <2> QED
      BY <1>0, <1>2, <2>1, HelperGoes
  <1>3. ASSUME g.pc \notin Leaving \union {"receipt"} PROVE g.then # "verified"
    BY <1>0, <1>3 DEF LocalOK
  <1>4. Usb!Still => DiskKept
    BY DEF Usb!Still, Usb!disks, DiskKept
  \* It answers, and the disks stay as they are.
  <1>5. ASSUME NEW how \in Answers, Usb!Answer(n, how), UNCHANGED <<app, target, result, swaps, handle>>, DiskKept,
               Usb!Running(n), g.pc # "receipt", how \in {"ejected", "connected"} => g.then = "verified",
               at # NoDisk /\ offline[at] /\ Owner(g) => how = "manual"
        PROVE  Moves(n)
    <2> DEFINE h == [g EXCEPT !.pc = "receipt"]
    <2>1. Moved(n, h, how, handle[n]) /\ Carries(n, h, how, handle[n])
      BY <1>5, HelperAnswers DEF DiskKept
    <2> HIDE DEF h
    <2> QED
      BY <1>5, <2>1, QuietMoves
  \* A step before the disk is touched is a step forward or a refusal.
  <1>6. ASSUME NEW pc \in {"admit", "lock"}, Usb!In(n, pc), Usb!Refuse(n), DiskKept PROVE Moves(n)
    <2>1. Usb!Answer(n, "failure") /\ handle' = handle /\ "failure" \in Answers
      BY <1>6 DEF Usb!Refuse, Answers
    <2> QED
      BY <1>1, <1>5, <1>6, <2>1 DEF Owner
  <1>7. CASE Usb!Admit(n) \/ Usb!VolumesLocked(n)
    <2>1. CASE Usb!Refuse(n)
      BY <1>4, <1>6, <1>7, <2>1 DEF Usb!Admit, Usb!VolumesLocked
    <2>2. CASE \E s \in {"lock", "offline"} : Usb!Go(n, s) /\ Usb!Held /\ UNCHANGED answer
      <3>1. PICK s \in {"lock", "offline"} : Usb!Go(n, s) /\ Usb!Held /\ UNCHANGED answer
        BY <2>2
      <3> DEFINE h == [g EXCEPT !.pc = s]
      <3>2. PICK pc \in {"admit", "lock"} : Usb!In(n, pc) /\ Usb!Still
        BY <1>7 DEF Usb!Admit, Usb!VolumesLocked
      <3>3. h \in Helpers /\ h.pc = s /\ h.then = g.then
        BY <1>0 DEF Helpers
      <3>4. helper' = [helper EXCEPT ![n] = h] /\ handle' = handle
        BY <3>1 DEF Usb!Go, Usb!Held
      <3>5. /\ Usb!Running(n) /\ UNCHANGED <<app, target, result, swaps, answer>> /\ g.pc = pc
            /\ DiskKept
        BY <1>1, <1>4, <3>1, <3>2
      <3> HIDE DEF h
      <3> QED
        BY <1>2, <1>3, <3>3, <3>4, <3>5 DEF Leaving, Owner
    <2> QED
      BY <1>7, <2>1, <2>2 DEF Usb!Admit, Usb!VolumesLocked
  <1>8. CASE Usb!InspectVolume(n)
    <2>1. Usb!In(n, "lock") /\ Usb!Still /\ DiskKept
      BY <1>4, <1>8 DEF Usb!InspectVolume
    <2>2. CASE Usb!Refuse(n)
      BY <1>6, <2>1, <2>2
    <2>3. CASE /\ at # NoDisk /\ UNCHANGED <<handle, answer>>
               /\ \E v \in Usb!VolumesOf(at) : helper' = [helper EXCEPT ![n].seen = @ \union {v[2]}]
      <3>1. PICK v \in Usb!VolumesOf(at) : helper' = [helper EXCEPT ![n].seen = @ \union {v[2]}]
        BY <2>3
      <3> DEFINE h == [g EXCEPT !.seen = @ \union {v[2]}]
      <3>2. v[2] \in 1..WinVolumes
        BY <3>1 DEF Usb!VolumesOf
      <3>3. h \in Helpers /\ h.pc = g.pc /\ h.then = g.then
        BY <1>0, <3>2 DEF Helpers
      <3>4. helper' = [helper EXCEPT ![n] = h]
        BY <3>1
      <3>5. Usb!Running(n) /\ UNCHANGED <<app, target, result, swaps, answer, handle>> /\ g.pc = "lock"
        BY <1>1, <2>1, <2>3
      <3> HIDE DEF h
      <3> QED
        BY <1>2, <1>3, <2>1, <3>3, <3>4, <3>5 DEF Leaving, Owner
    <2> QED
      BY <1>8, <2>2, <2>3 DEF Usb!InspectVolume
  <1>9. CASE Usb!CopyFails(n) \/ Usb!ReadBack(n)
    <2>1. /\ g.pc \in {"copy", "verify"} /\ Usb!Running(n) /\ DiskKept
          /\ UNCHANGED <<app, target, result, swaps, answer>>
      BY <1>1, <1>4, <1>9 DEF Usb!CopyFails, Usb!ReadBack, Usb!side, Usb!Running
    <2>2. CASE Usb!Leave(n, "failed")
      BY <2>1, <2>2, HelperLeaves
    <2>3. CASE Usb!ReadBack(n)
      <3>1. /\ Usb!Leave(n, "verified") /\ handle[n] # NoDisk /\ handle[n] = at
            /\ written[at] = [by |-> n, blocks |-> Usb!Blocks]
        BY <2>3 DEF Usb!ReadBack
      <3>2. target[n] = at /\ at \in WinDisk
        BY <1>0, <2>1, <3>1 DEF LocalOK, Disks
      <3> QED
        BY <2>1, <3>1, <3>2, HelperLeaves
    <2> QED
      BY <1>9, <2>2, <2>3 DEF Usb!CopyFails
  <1>10. CASE Usb!Isolated(n)
    <2>1. /\ g.pc = "isolated" /\ Usb!Running(n) /\ DiskKept
          /\ UNCHANGED <<app, target, result, swaps, answer>>
      BY <1>1, <1>4, <1>10 DEF Usb!Isolated
    <2>2. CASE Usb!Leave(n, "failed")
      BY <2>1, <2>2, HelperLeaves
    <2>3. CASE /\ at # NoDisk /\ Usb!Held
               /\ helper' = [helper EXCEPT ![n].pc = "open", ![n].off = offline[at]]
      <3> DEFINE h == [g EXCEPT !.pc = "open", !.off = offline[at]]
      <3>1. h \in Helpers /\ h.pc = "open" /\ h.then = g.then
        BY <1>0, <2>3 DEF Helpers, Disks
      <3>2. helper' = [helper EXCEPT ![n] = h] /\ handle' = handle
        BY <2>3 DEF Usb!Held
      <3>3. Owner(h)
        BY <3>1 DEF Owner
      <3> HIDE DEF h
      <3> QED
        BY <1>2, <1>3, <2>1, <3>1, <3>2, <3>3 DEF Leaving
    <2> QED
      BY <1>10, <2>2, <2>3 DEF Usb!Isolated, Usb!Eligible
  <1>11. CASE Usb!OpenRaw(n) \/ Usb!Recheck(n)
    <2>1. /\ g.pc \in {"open", "recheck"} /\ Usb!Running(n) /\ DiskKept
          /\ UNCHANGED <<app, target, result, swaps, answer>>
      BY <1>1, <1>4, <1>11 DEF Usb!OpenRaw, Usb!Recheck
    <2>2. CASE Usb!Leave(n, "failed")
      BY <2>1, <2>2, HelperLeaves
    <2>3. CASE /\ at # NoDisk /\ handle' = [handle EXCEPT ![n] = at] /\ Usb!Go(n, "recheck")
      <3> DEFINE h == [g EXCEPT !.pc = "recheck"]
      <3>1. h \in Helpers /\ h.pc = "recheck" /\ h.then = g.then /\ g.then # "verified"
        BY <1>0, <1>3, <2>1 DEF Helpers, Leaving
      <3>2. helper' = [helper EXCEPT ![n] = h]
        BY <2>3 DEF Usb!Go
      <3>3. Owner(h) /\ h.pc \notin Leaving
        BY <3>1 DEF Owner, Leaving
      <3> HIDE DEF h
      <3> QED
        BY <1>0, <2>1, <2>3, <3>1, <3>2, <3>3, HelperGoes
    <2>4. CASE at # NoDisk /\ at = target[n] /\ Usb!Go(n, "copy") /\ Usb!Held
      <3> DEFINE h == [g EXCEPT !.pc = "copy"]
      <3>1. h \in Helpers /\ h.pc = "copy" /\ h.then = g.then /\ g.then # "verified"
        BY <1>0, <1>3, <2>1 DEF Helpers, Leaving
      <3>2. helper' = [helper EXCEPT ![n] = h] /\ handle' = [handle EXCEPT ![n] = handle[n]]
        BY <2>4, HelperIs DEF Usb!Go, Usb!Held
      <3>3. Owner(h) /\ h.pc \notin Leaving
        BY <3>1 DEF Owner, Leaving
      <3>4. handle[n] # NoDisk => handle[n] = target[n]
        BY <1>0, <2>4
      <3> HIDE DEF h
      <3> QED
        BY <1>0, <2>1, <3>1, <3>2, <3>3, <3>4, HelperGoes
    <2> QED
      BY <1>11, <2>2, <2>3, <2>4 DEF Usb!OpenRaw, Usb!Recheck, Usb!Eligible
  <1>12. CASE Usb!RecoverIdentity(n)
    <2>1. /\ g.pc = "recover" /\ Usb!Running(n) /\ DiskKept /\ handle' = handle
          /\ UNCHANGED <<app, target, result, swaps>>
      BY <1>1, <1>4, <1>12 DEF Usb!RecoverIdentity, Usb!Held
    <2>2. CASE Usb!Answer(n, "manual")
      BY <1>5, <2>1, <2>2 DEF Answers
    <2>3. CASE /\ at # NoDisk /\ UNCHANGED answer
               /\ helper' = [helper EXCEPT ![n].pc = "eject", ![n].off = offline[at]]
      <3> DEFINE h == [g EXCEPT !.pc = "eject", !.off = offline[at]]
      <3>1. h \in Helpers /\ h.pc = "eject" /\ h.then = g.then /\ h.off = offline[at]
        BY <1>0, <2>3 DEF Helpers, Disks, Leaving
      <3>2. helper' = [helper EXCEPT ![n] = h] /\ handle' = [handle EXCEPT ![n] = handle[n]]
        BY <2>1, <2>3, HelperIs
      <3>3. h.pc \in Leaving /\ h.then \in {"failed", "verified"} /\ (offline[at] => Owner(h))
        BY <1>0, <2>1, <3>1 DEF Owner, Leaving, LocalOK
      <3> HIDE DEF h
      <3> QED
        BY <1>0, <2>1, <2>3, <3>1, <3>2, <3>3, HelperGoes
    <2> QED
      BY <1>12, <2>2, <2>3 DEF Usb!RecoverIdentity
  <1>13. CASE Usb!Receipt(n) \/ Usb!HelperDies(n)
    <2>1. /\ Usb!Running(n) /\ DiskKept /\ UNCHANGED <<app, target, result, swaps>>
          /\ \/ g.pc = "receipt" /\ Usb!Gone(n, "none")
             \/ Usb!Gone(n, "killed")
      BY <1>1, <1>13 DEF Usb!Receipt, Usb!HelperDies, Usb!disks, DiskKept, Usb!side
    <2> QED
      BY <2>1, HelperGone
  \* A step that acts on the disk that has the number.
  <1>14. ASSUME NEW h, h \in Helpers, helper' = [helper EXCEPT ![n] = h], UNCHANGED <<handle, answer>>,
                UNCHANGED <<app, target, result, swaps>>, Usb!Running(n), g.pc # "receipt",
                h.pc \notin {"none", "receipt", "exited"}, h.then = g.then,
                h.then = "verified" => h.pc \in Leaving,
                h.pc \in Leaving => h.then \in {"failed", "verified"},
                h.pc \in {"copy", "verify"} => g.pc \in {"copy", "verify"}
         PROVE  Moved(n, h, answer[n], handle[n]) /\ Carries(n, h, answer[n], handle[n])
    <2>1. answer[n] = "none"
      BY <1>0, <1>14 DEF LocalOK, Usb!Running
    <2>2. Moved(n, h, answer[n], handle[n])
      BY <1>0, <1>14, HelperIs DEF Moved
    <2>3. LocalOK(h, answer[n], handle[n], target[n])
      BY <1>0, <1>14, <2>1 DEF LocalOK
    <2>4. Carries(n, h, answer[n], handle[n])
      BY <1>14, <2>1, <2>3 DEF Carries
    <2> QED
      BY <2>2, <2>4
  <1>15. CASE Usb!SetOffline(n)
    <2>1. /\ g.pc = "offline" /\ Usb!Running(n) /\ UNCHANGED <<app, target, result, swaps, answer, handle>>
          /\ UNCHANGED <<at, written, foreign>>
      BY <1>1, <1>15 DEF Usb!SetOffline, Usb!Held
    <2>2. PICK h \in {[g EXCEPT !.pc = "isolated"], [g EXCEPT !.pc = "isolated", !.refused = TRUE]} :
            /\ helper' = [helper EXCEPT ![n] = h]
            /\ \/ at \in WinDisk /\ offline' = [offline EXCEPT ![at] = TRUE]
               \/ offline' = offline
      BY <1>0, <1>15 DEF Usb!SetOffline, Usb!Go, Usb!Eligible, Disks
    <2>3. h \in Helpers /\ h.pc = "isolated" /\ h.then = g.then /\ g.then # "verified" /\ Owner(h)
      BY <1>0, <1>3, <2>1, <2>2 DEF Helpers, Leaving, Owner
    <2>4. Moved(n, h, answer[n], handle[n]) /\ Carries(n, h, answer[n], handle[n])
      BY <1>14, <2>1, <2>2, <2>3 DEF Leaving
    <2>5. Disk(n, h, answer[n])
      BY <1>0, <2>1, <2>2, <2>3 DEF Disk
    <2> QED
      BY <2>1, <2>4, <2>5 DEF Moves, Writes
  <1>16. CASE Usb!Put(n)
    <2>1. /\ g.pc = "copy" /\ Usb!Running(n) /\ UNCHANGED <<app, target, result, swaps, answer, handle>>
          /\ UNCHANGED <<at, offline>> /\ handle[n] # NoDisk /\ handle[n] = at
      BY <1>1, <1>16 DEF Usb!Put, Usb!Held
    <2>2. target[n] = at /\ at \in WinDisk
      BY <1>0, <2>1 DEF LocalOK, Disks
    <2>3. PICK b \in Nat :
            /\ written' = [written EXCEPT ![target[n]] = [by |-> n, blocks |-> b]] /\ foreign' = foreign
            /\ \E s \in {"copy", "verify"} : helper' = [helper EXCEPT ![n] = [g EXCEPT !.pc = s]]
      <3> DEFINE b == IF written[at].by = n THEN written[at].blocks + 1 ELSE 1
      <3>1. written[at].blocks \in Nat
        BY <2>2 DEF UsbIInv, UsbTypeOK
      <3>2. b \in Nat
        BY <3>1
      <3>3. /\ written' = [written EXCEPT ![at] = [by |-> n, blocks |-> b]]
            /\ foreign' = (foreign \/ at # target[n])
            /\ Usb!Go(n, IF b = Usb!Blocks THEN "verify" ELSE "copy")
        BY <1>16 DEF Usb!Put
      <3>4. foreign = FALSE
        BY <2>2, <3>3 DEF UsbIInv, VerifiedOK
      <3> HIDE DEF b
      <3>5. foreign' = foreign
        BY <2>2, <3>3, <3>4
      <3>6. \E s \in {"copy", "verify"} : helper' = [helper EXCEPT ![n] = [g EXCEPT !.pc = s]]
        BY <3>3 DEF Usb!Go
      <3> QED
        BY <2>2, <3>2, <3>3, <3>5, <3>6
    <2>4. PICK s \in {"copy", "verify"} : helper' = [helper EXCEPT ![n] = [g EXCEPT !.pc = s]]
      BY <2>3
    <2> DEFINE h == [g EXCEPT !.pc = s]
    <2>5. h \in Helpers /\ h.pc = s /\ h.then = g.then /\ g.then # "verified"
      BY <1>0, <1>3, <2>1 DEF Helpers, Leaving
    <2>6. helper' = [helper EXCEPT ![n] = h]
      BY <2>4
    <2> HIDE DEF h
    <2>7. Moved(n, h, answer[n], handle[n]) /\ Carries(n, h, answer[n], handle[n])
      BY <1>14, <2>1, <2>5, <2>6 DEF Leaving
    <2>8. Disk(n, h, answer[n])
      BY <1>0, <2>1, <2>5 DEF Disk, Owner
    <2>9. Writes(n, h, answer[n])
      BY <2>1, <2>2, <2>3, <2>5 DEF Writes
    <2> QED
      BY <2>7, <2>8, <2>9 DEF Moves
  \* The disk leaves, comes online again, or stays for another helper to mind.
  <1>17. ASSUME NEW how \in Answers, Usb!Answer(n, how), Usb!Running(n), g.pc # "receipt",
                UNCHANGED <<app, target, result, swaps, handle, written, foreign>>,
                how \in {"ejected", "connected"} => g.then = "verified",
                \/ at' = NoDisk /\ at \in WinDisk /\ offline' = [offline EXCEPT ![at] = FALSE]
                \/ at' = at /\ at \in WinDisk /\ offline' = [offline EXCEPT ![at] = FALSE]
                \/ at' = at /\ offline' = offline /\ (Owner(g) => how = "manual")
         PROVE  Moves(n)
    <2> DEFINE h == [g EXCEPT !.pc = "receipt"]
    <2>1. Moved(n, h, how, handle[n]) /\ Carries(n, h, how, handle[n])
      BY <1>17, HelperAnswers
    <2> HIDE DEF h
    <2>2. Disk(n, h, how)
      <3>1. CASE at \in WinDisk /\ at' \in {at, NoDisk} /\ offline' = [offline EXCEPT ![at] = FALSE]
        <4>1. /\ offline' \in [WinDisk -> BOOLEAN] /\ ~offline'[at]
              /\ \A d \in WinDisk : offline'[d] => offline[d]
          BY <1>0, <3>1
        <4> QED
          BY <1>0, <3>1, <4>1 DEF Disk
      <3>2. CASE at' = at /\ offline' = offline /\ (Owner(g) => how = "manual")
        BY <1>0, <3>2 DEF Disk
      <3> QED
        BY <1>17, <3>1, <3>2
    <2> QED
      BY <1>17, <2>1, <2>2 DEF Moves, Writes
  <1>18. CASE Usb!Eject(n) \/ Usb!Remount(n)
    <2>1. /\ g.pc \in {"eject", "remount"} /\ Usb!Running(n)
          /\ UNCHANGED <<app, target, result, swaps, handle, written, foreign>>
      BY <1>1, <1>18 DEF Usb!Eject, Usb!Remount, Usb!Held
    <2>2. g.then \in {"failed", "verified"}
      BY <1>0, <2>1 DEF LocalOK, Leaving
    <2>3. /\ Usb!Recovered(n, TRUE) = IF g.then = "failed" THEN "failure" ELSE "ejected"
          /\ Usb!Recovered(n, FALSE) = IF g.then = "failed" THEN "failure" ELSE "connected"
      BY DEF Usb!Recovered
    <2> DEFINE R == {Usb!Recovered(n, TRUE), Usb!Recovered(n, FALSE)}
    <2>4. \A r \in R : r \in Answers /\ (r \in {"ejected", "connected"} => g.then = "verified")
      <3>1. CASE g.then = "failed"
        <4>1. R = {"failure"}
          BY <2>3, <3>1, Zenon
        <4> QED
          BY <4>1 DEF Answers
      <3>2. CASE g.then = "verified"
        <4>1. \A r \in R : r \in {"ejected", "connected"}
          BY <2>3, <3>2
        <4> QED
          BY <3>2, <4>1 DEF Answers
      <3> QED
        BY <2>2, <3>1, <3>2
    <2>5. ASSUME NEW r \in R, Usb!Answer(n, r),
                 \/ at' = NoDisk /\ at # NoDisk /\ offline' = [offline EXCEPT ![at] = FALSE]
                 \/ at' = at /\ at # NoDisk /\ offline' = [offline EXCEPT ![at] = FALSE]
                 \/ at' = at /\ offline' = offline /\ ~Owner(g)
          PROVE  Moves(n)
      <3>1. at # NoDisk => at \in WinDisk
        BY <1>0 DEF Disks
      <3>2. r \in Answers /\ (r \in {"ejected", "connected"} => g.then = "verified")
        BY <2>4, <2>5
      <3> QED
        BY <1>17, <2>1, <2>5, <3>1, <3>2
    <2>6. CASE Usb!Remount(n)
      <3>1. CASE Usb!Answer(n, "manual") /\ UNCHANGED <<at, offline>>
        <4>1. "manual" \in Answers /\ "manual" \notin {"ejected", "connected"}
          BY DEF Answers
        <4> QED
          BY <1>17, <2>1, <3>1, <4>1
      <3>2. CASE at # NoDisk /\ at' = at /\ offline' = [offline EXCEPT ![at] = FALSE] /\ Usb!Answer(n, Usb!Recovered(n, FALSE))
        BY <2>5, <3>2
      <3> QED
        BY <2>6, <3>1, <3>2 DEF Usb!Remount
    <2>7. CASE Usb!Eject(n)
      <3>1. CASE /\ at # NoDisk /\ at' = NoDisk /\ offline' = [offline EXCEPT ![at] = FALSE]
                 /\ Usb!Answer(n, Usb!Recovered(n, TRUE))
        BY <2>5, <3>1
      <3>2. CASE UNCHANGED <<at, offline>> /\ ~g.off /\ Usb!Answer(n, Usb!Recovered(n, FALSE)) /\ g.pc = "eject"
        <4>1. ~Owner(g)
          BY <3>2 DEF Owner
        <4> QED
          BY <2>5, <3>2, <4>1
      <3>3. CASE UNCHANGED <<at, offline, answer>> /\ Usb!Go(n, "remount")
        <4> DEFINE h == [g EXCEPT !.pc = "remount"]
        <4>1. h \in Helpers /\ h.pc = "remount" /\ h.then = g.then
          BY <1>0 DEF Helpers, Leaving
        <4>2. helper' = [helper EXCEPT ![n] = h]
          BY <3>3 DEF Usb!Go
        <4> HIDE DEF h
        <4>3. Moved(n, h, answer[n], handle[n]) /\ Carries(n, h, answer[n], handle[n])
          BY <1>14, <2>1, <2>2, <3>3, <4>1, <4>2 DEF Leaving
        <4>4. Disk(n, h, answer[n])
          BY <1>0, <3>3, <4>1 DEF Disk, Owner
        <4> QED
          BY <2>1, <4>3, <4>4 DEF Moves, Writes
      <3> QED
        BY <2>7, <3>1, <3>2, <3>3 DEF Usb!Eject, Usb!In
    <2> QED
      BY <1>18, <2>6, <2>7
  <1> QED
    BY <1>7, <1>8, <1>9, <1>10, <1>11, <1>12, <1>13, <1>15, <1>16, <1>18 DEF Usb!Helper

\* Its steps keep what holds of the helpers,
LEMMA MovesTyped ==
  ASSUME UsbIInv, NEW n \in Usb!Write, Moves(n) PROVE UsbTypeOK'
  <1>1. PICK h, a, d : Moved(n, h, a, d) /\ Carries(n, h, a, d) /\ Disk(n, h, a) /\ Writes(n, h, a)
    BY DEF Moves
  <1>2. /\ helper' \in [Usb!Write -> Helpers] /\ answer' \in [Usb!Write -> Answers]
        /\ handle' \in [Usb!Write -> Disks] /\ UNCHANGED <<app, target, result, swaps>>
    BY <1>1 DEF Moved, UsbIInv, UsbTypeOK
  <1>3. at' \in Disks /\ offline' \in [WinDisk -> BOOLEAN]
    BY <1>1 DEF Disk, UsbIInv, UsbTypeOK, Disks
  <1>4. written' \in [WinDisk -> [by : 0..MaxWrites, blocks : Nat]]
    <2>1. n \in 0..MaxWrites
      BY UsbFacts
    <2> QED
      BY <1>1, <2>1 DEF Writes, UsbIInv, UsbTypeOK
  <1> QED
    BY <1>2, <1>3, <1>4 DEF UsbIInv, UsbTypeOK

LEMMA MovesHelpers ==
  ASSUME UsbIInv, NEW n \in Usb!Write, Moves(n) PROVE HelpersOK'
  <1>1. PICK h, a, d : Moved(n, h, a, d) /\ Carries(n, h, a, d) /\ Disk(n, h, a) /\ Writes(n, h, a)
    BY DEF Moves
  <1> SUFFICES ASSUME NEW m \in Usb!Write
               PROVE  /\ LocalOK(helper'[m], answer'[m], handle'[m], target'[m])
                      /\ handle'[m] # NoDisk /\ at' # NoDisk => handle'[m] = at'
    BY DEF HelpersOK
  <1>2. target' = target /\ at' \in {at, NoDisk}
    BY <1>1 DEF Moved, Disk
  <1>3. CASE m = n
    <2>1. helper'[m] = h /\ answer'[m] = a /\ handle'[m] = d
      BY <1>1, <1>3 DEF Moved, UsbIInv, UsbTypeOK
    <2> QED
      BY <1>1, <1>2, <1>3, <2>1 DEF Carries, UsbIInv, HelpersOK
  <1>4. CASE m # n
    <2>1. helper'[m] = helper[m] /\ answer'[m] = answer[m] /\ handle'[m] = handle[m]
      BY <1>1, <1>4 DEF Moved, UsbIInv, UsbTypeOK
    <2> QED
      BY <1>2, <2>1 DEF UsbIInv, HelpersOK
  <1> QED
    BY <1>3, <1>4

LEMMA MovesAttempts ==
  ASSUME UsbIInv, NEW n \in Usb!Write, Moves(n) PROVE AttemptsOK'
  <1>1. PICK h, a, d : Moved(n, h, a, d)
    BY DEF Moves
  <1>2. UNCHANGED <<app, result>> /\ Usb!Running(n) /\ AttemptsOK
    BY <1>1 DEF Moved, UsbIInv
  <1>3. \A m \in Usb!Write : helper'[m] = IF m = n THEN h ELSE helper[m]
    BY <1>1 DEF Moved, UsbIInv, UsbTypeOK
  <1> QED
    BY <1>2, <1>3 DEF AttemptsOK, Usb!Running

\* and what holds of the disks.
LEMMA MovesVerified ==
  ASSUME UsbIInv, NEW n \in Usb!Write, Moves(n) PROVE VerifiedOK'
  <1>1. PICK h, a, d : Moved(n, h, a, d) /\ Carries(n, h, a, d) /\ Disk(n, h, a) /\ Writes(n, h, a)
    BY DEF Moves
  <1>2. UNCHANGED <<app, target, result>> /\ VerifiedOK /\ AttemptsOK /\ Usb!Running(n)
    BY <1>1 DEF Moved, UsbIInv
  <1>3. \A m \in Usb!Write : /\ helper'[m] = IF m = n THEN h ELSE helper[m]
                             /\ answer'[m] = IF m = n THEN a ELSE answer[m]
    BY <1>1 DEF Moved, UsbIInv, UsbTypeOK
  <1>4. foreign' = foreign
    BY <1>1 DEF Writes
  \* What is verified was, or is now.
  <1>5. ASSUME NEW m \in Usb!Write, Verified(m)'
        PROVE  Verified(m) \/ (m = n /\ written' = written /\ OnDisk(m))
    BY <1>1, <1>2, <1>3, <1>5 DEF Verified, Carries, OnDisk
  \* What the helper writes is later, or it is unwatched.
  <1>6. ASSUME NEW m \in Usb!Write, Verified(m), OnDisk(m) PROVE OnDisk(m)'
    <2>1. CASE written' = written
      BY <1>2, <1>6, <2>1 DEF OnDisk
    <2>2. CASE helper[n].pc = "copy" /\ target[n] # target[m]
      BY <1>1, <1>2, <1>6, <2>2 DEF OnDisk, Writes, UsbIInv, UsbTypeOK
    <2>3. CASE helper[n].pc = "copy" /\ target[n] = target[m] /\ written' # written
      <3>1. PICK b \in Nat : written' = [written EXCEPT ![target[n]] = [by |-> n, blocks |-> b]]
        BY <1>1, <2>3 DEF Writes
      <3>2. written'[target[m]].by = n
        BY <1>6, <2>3, <3>1 DEF OnDisk, UsbIInv, UsbTypeOK
      <3>3. m # n
        BY <1>6, <2>3, UsbFacts DEF Verified, UsbIInv, HelpersOK, LocalOK, Leaving, AttemptsOK, Usb!Running
      <3>4. n > m \/ result[n] = "unwatched"
        <4>1. m \in Nat /\ n \in Nat /\ app.n \in Nat
          BY UsbFacts DEF UsbIInv, UsbTypeOK
        <4>2. helper[m].pc # "none" \/ result[m] # "none"
          BY <1>6 DEF Verified, UsbIInv, HelpersOK, LocalOK, Leaving
        <4>3. ~(m > app.n)
          BY <1>2, <4>2 DEF AttemptsOK
        <4>4. CASE m > n
          <5>1. n < app.n
            BY <4>1, <4>3, <4>4
          <5>2. result[n] # "none" /\ result[n] \notin {"verified", "failed"}
            BY <1>2, <5>1 DEF AttemptsOK
          <5> QED
            BY <5>2 DEF UsbIInv, UsbTypeOK
        <4> QED
          BY <3>3, <4>1, <4>4
      <3> QED
        BY <1>2, <1>6, <3>2, <3>4 DEF OnDisk
    <2> QED
      BY <1>1, <2>1, <2>2, <2>3 DEF Writes
  <1>7. ASSUME NEW m \in Usb!Write, written' = written, OnDisk(m) PROVE OnDisk(m)'
    BY <1>2, <1>7 DEF OnDisk
  <1> QED
    BY <1>2, <1>4, <1>5, <1>6, <1>7 DEF VerifiedOK

LEMMA MovesOffline ==
  ASSUME UsbIInv, NEW n \in Usb!Write, Moves(n) PROVE OfflineOK'
  <1>1. PICK h, a, d : Moved(n, h, a, d) /\ Carries(n, h, a, d) /\ Disk(n, h, a) /\ Writes(n, h, a)
    BY DEF Moves
  <1>2. swaps' = swaps /\ OfflineOK /\ at \in Disks
    BY <1>1 DEF Moved, UsbIInv, UsbTypeOK
  <1>3. \A m \in Usb!Write : /\ helper'[m] = IF m = n THEN h ELSE helper[m]
                             /\ answer'[m] = IF m = n THEN a ELSE answer[m]
    BY <1>1 DEF Moved, UsbIInv, UsbTypeOK
  <1>4. ASSUME swaps = 0, NEW e \in WinDisk, e # at' PROVE ~offline'[e]
    <2>1. CASE e = at
      BY <1>1, <1>4, <2>1 DEF Disk
    <2>2. CASE e # at
      BY <1>1, <1>2, <1>4, <2>2 DEF Disk, OfflineOK
    <2> QED
      BY <2>1, <2>2
  <1>5. ASSUME at' # NoDisk, swaps < 2, offline'[at']
        PROVE  \E m \in Usb!Write : Owner(helper'[m]) \/ answer'[m] \in {"killed", "manual"}
    <2>1. at' = at /\ at \in WinDisk
      BY <1>1, <1>2, <1>5 DEF Disk, Disks
    <2>2. CASE h.pc = "isolated"
      BY <1>3, <2>2 DEF Owner
    <2>3. CASE offline[at]
      <3>1. PICK m \in Usb!Write : Owner(helper[m]) \/ answer[m] \in {"killed", "manual"}
        BY <1>2, <1>5, <2>1, <2>3 DEF OfflineOK
      <3>2. CASE m # n
        BY <1>3, <3>1, <3>2
      <3>3. CASE m = n /\ answer[n] # "none"
        <4>1. helper[n].pc \in {"receipt", "exited"} /\ a = answer[n]
          BY <1>1, <3>3 DEF Carries, UsbIInv, HelpersOK, LocalOK
        <4>2. ~Owner(helper[n])
          BY <4>1 DEF Owner
        <4> QED
          BY <1>3, <3>1, <3>3, <4>1, <4>2
      <3>4. CASE m = n /\ answer[n] = "none"
        <4>1. Owner(h) \/ a \in {"killed", "manual"}
          BY <1>1, <1>5, <3>1, <3>4 DEF Disk
        <4> QED
          BY <1>3, <4>1
      <3> QED
        BY <3>2, <3>3, <3>4
    <2> QED
      BY <1>1, <1>5, <2>1, <2>2, <2>3 DEF Disk
  <1> QED
    BY <1>2, <1>4, <1>5 DEF OfflineOK

-----------------------------------------------------------------------------
\* The application returns.  Its helper goes on, or has been ended.
HelperEnded(n) == /\ helper' = [helper EXCEPT ![n] = [Usb!NoHelper EXCEPT !.pc = "exited"]]
            /\ handle' = [handle EXCEPT ![n] = NoDisk]
            /\ answer' = [answer EXCEPT ![n] = IF @ = "none" THEN "killed" ELSE @]
Returns(r) ==
  /\ app.at # "idle" /\ r \in {"verified", "failed", "unwatched"} /\ \E k \in BOOLEAN : Usb!Return(r, k)
  /\ UNCHANGED <<at, offline, written, foreign, swaps>>
  /\ UNCHANGED <<helper, handle, answer>> \/ (r = "failed" /\ Usb!Running(app.n) /\ HelperEnded(app.n))
  /\ r \in {"verified", "failed"} => ~Usb!Running(app.n)'
  /\ r = "verified" => answer[app.n] \in {"ejected", "connected"}

LEMMA ReturnFacts ==
  ASSUME UsbIInv, NEW r, Returns(r)
  PROVE  /\ app.n \in Usb!Write /\ result[app.n] = "none" /\ app'.at = "idle" /\ app'.n = app.n
         /\ \A m \in Usb!Write : /\ result'[m] = IF m = app.n THEN r ELSE result[m]
                                 /\ target'[m] = IF m = app.n /\ r = "failed" THEN NoDisk ELSE target[m]
         /\ \A m \in Usb!Write : m # app.n =>
              helper'[m] = helper[m] /\ answer'[m] = answer[m] /\ handle'[m] = handle[m]
         /\ \/ helper'[app.n] = helper[app.n] /\ answer'[app.n] = answer[app.n] /\ handle'[app.n] = handle[app.n]
            \/ /\ r = "failed" /\ Usb!Running(app.n) /\ handle'[app.n] = NoDisk
               /\ helper'[app.n].pc = "exited" /\ helper'[app.n].then = "none"
               /\ answer'[app.n] = IF answer[app.n] = "none" THEN "killed" ELSE answer[app.n]
  <1>1. /\ app.n \in Usb!Write /\ result[app.n] = "none"
        /\ app \in [at : {"idle", "prompt", "wait", "ending"}, n : 0..MaxWrites]
    BY DEF Returns, UsbIInv, AttemptsOK, UsbTypeOK
  <1>2. /\ app' = [app EXCEPT !.at = "idle"] /\ result' = [result EXCEPT ![app.n] = r]
        /\ target' = IF r = "failed" THEN [target EXCEPT ![app.n] = NoDisk] ELSE target
    BY DEF Returns, Usb!Return
  <1>3. app'.at = "idle" /\ app'.n = app.n
    BY <1>1, <1>2
  <1>4. \A m \in Usb!Write : /\ result'[m] = IF m = app.n THEN r ELSE result[m]
                             /\ target'[m] = IF m = app.n /\ r = "failed" THEN NoDisk ELSE target[m]
    BY <1>1, <1>2 DEF UsbIInv, UsbTypeOK
  <1>5. CASE UNCHANGED <<helper, handle, answer>>
    BY <1>1, <1>3, <1>4, <1>5
  <1>6. CASE r = "failed" /\ Usb!Running(app.n) /\ HelperEnded(app.n)
    <2>1. \A m \in Usb!Write : m # app.n =>
            helper'[m] = helper[m] /\ answer'[m] = answer[m] /\ handle'[m] = handle[m]
      BY <1>1, <1>6 DEF HelperEnded, UsbIInv, UsbTypeOK
    <2>2. helper'[app.n] = [Usb!NoHelper EXCEPT !.pc = "exited"] /\ handle'[app.n] = NoDisk
      BY <1>1, <1>6 DEF HelperEnded, UsbIInv, UsbTypeOK
    <2>3. answer'[app.n] = IF answer[app.n] = "none" THEN "killed" ELSE answer[app.n]
      BY <1>1, <1>6 DEF HelperEnded, UsbIInv, UsbTypeOK
    <2>4. helper'[app.n].pc = "exited" /\ helper'[app.n].then = "none"
      BY <2>2 DEF Usb!NoHelper
    <2> QED
      BY <1>1, <1>3, <1>4, <1>6, <2>1, <2>2, <2>3, <2>4
  <1> QED
    BY <1>5, <1>6 DEF Returns

LEMMA ReturnKeeps ==
  ASSUME UsbIInv, NEW r, Returns(r) PROVE UsbIInv'
  <1> DEFINE n == app.n
  <1>0. UsbTypeOK /\ HelpersOK /\ AttemptsOK /\ VerifiedOK /\ OfflineOK
    BY DEF UsbIInv
  <1>1. UNCHANGED <<at, offline, written, foreign, swaps>> /\ app.at # "idle"
    BY DEF Returns
  <1>2. n \in Usb!Write /\ n \in Nat /\ NoDisk \in Disks
    BY ReturnFacts, UsbFacts DEF Disks
  <1>3. UsbTypeOK'
    <2>1. app' \in [at : {"idle", "prompt", "wait", "ending"}, n : 0..MaxWrites]
      BY <1>0 DEF Returns, Usb!Return, UsbTypeOK
    <2>2. target' \in [Usb!Write -> Disks]
      BY <1>0, <1>2 DEF Returns, Usb!Return, UsbTypeOK
    <2>3. result' \in [Usb!Write -> {"none", "verified", "failed", "unwatched"}]
      BY <1>0, <1>2 DEF Returns, Usb!Return, UsbTypeOK
    <2>4. /\ helper' \in [Usb!Write -> Helpers] /\ answer' \in [Usb!Write -> Answers]
          /\ handle' \in [Usb!Write -> Disks]
      <3>1. CASE UNCHANGED <<helper, handle, answer>>
        BY <1>0, <3>1 DEF UsbTypeOK
      <3>2. CASE HelperEnded(n)
        <4>1. [Usb!NoHelper EXCEPT !.pc = "exited"] \in Helpers
          BY DEF Usb!NoHelper, Helpers
        <4>2. (IF answer[n] = "none" THEN "killed" ELSE answer[n]) \in Answers
          BY <1>0, <1>2 DEF UsbTypeOK, Answers
        <4> QED
          BY <1>0, <1>2, <3>2, <4>1, <4>2 DEF HelperEnded, UsbTypeOK
      <3> QED
        BY <3>1, <3>2 DEF Returns
    <2> QED
      BY <1>0, <1>1, <2>1, <2>2, <2>3, <2>4 DEF UsbTypeOK
  <1>4. HelpersOK'
    <2> SUFFICES ASSUME NEW m \in Usb!Write
                 PROVE  /\ LocalOK(helper'[m], answer'[m], handle'[m], target'[m])
                        /\ handle'[m] # NoDisk /\ at' # NoDisk => handle'[m] = at'
      BY DEF HelpersOK
    <2>1. LocalOK(helper[m], answer[m], handle[m], target[m]) /\ (handle[m] # NoDisk /\ at # NoDisk => handle[m] = at)
      BY <1>0 DEF HelpersOK
    <2>2. CASE m # n
      BY <1>1, <2>1, <2>2, ReturnFacts
    <2>3. CASE m = n /\ r = "failed" /\ helper'[n].pc = "exited" /\ helper'[n].then = "none" /\ handle'[n] = NoDisk
      BY <1>1, <2>3 DEF LocalOK, Leaving
    <2>4. CASE m = n /\ r = "failed" /\ helper'[n] = helper[n] /\ answer'[n] = answer[n] /\ handle'[n] = handle[n]
      <3>1. ~Usb!Running(n)
        BY <2>4, ReturnFacts DEF Returns, Usb!Running
      <3> QED
        BY <1>1, <2>1, <2>4, <3>1 DEF LocalOK, Usb!Running
    <2>5. CASE m = n /\ r # "failed"
      BY <1>1, <1>2, <2>1, <2>5, ReturnFacts
    <2> QED
      BY <2>2, <2>3, <2>4, <2>5, ReturnFacts
  <1>5. AttemptsOK'
    <2>1. \A m \in Usb!Write : m # n => helper'[m] = helper[m] /\ result'[m] = result[m]
      BY ReturnFacts
    <2>2. r # "none" /\ (r \in {"verified", "failed"} => ~Usb!Running(n)') /\ result'[n] = r /\ app'.at = "idle" /\ app'.n = n
      BY <1>2, ReturnFacts DEF Returns
    <2>3. \A m \in Usb!Write : m \in Nat
      BY UsbFacts
    <2>4. Usb!Running(n)' <=> helper'[n].pc \notin {"none", "exited"}
      BY <2>2 DEF Usb!Running
    <2> SUFFICES ASSUME NEW m \in Usb!Write
                 PROVE  /\ m > app'.n => helper'[m].pc = "none" /\ result'[m] = "none"
                        /\ m < app'.n \/ m = app'.n => result'[m] # "none"
                        /\ result'[m] \in {"verified", "failed"} => helper'[m].pc \in {"none", "exited"}
      BY <2>2 DEF AttemptsOK, Usb!Running
    <2>5. CASE m = n
      BY <1>2, <2>2, <2>4, <2>5
    <2>6. CASE m # n
      BY <1>0, <2>1, <2>2, <2>6 DEF AttemptsOK, Usb!Running
    <2> QED
      BY <2>5, <2>6
  <1>6. VerifiedOK'
    <2>1. ASSUME NEW m \in Usb!Write, Verified(m)' PROVE Verified(m) /\ (m = n => r # "failed")
      <3>1. CASE m # n
        BY <2>1, <3>1, ReturnFacts DEF Verified
      <3>2. CASE m = n /\ r = "failed"
        <4>1. helper'[n].pc \in {"none", "exited"}
          BY <3>2, ReturnFacts DEF Returns, Usb!Running
        <4>2. helper'[n].then # "verified"
          BY <1>2, <1>4, <4>1 DEF HelpersOK, LocalOK, Leaving
        <4> QED
          BY <1>2, <2>1, <3>2, <4>2, ReturnFacts DEF Verified
      <3>3. CASE m = n /\ r # "failed"
        BY <1>2, <2>1, <3>3, ReturnFacts DEF Verified, Returns
      <3> QED
        BY <3>1, <3>2, <3>3
    <2>2. ASSUME NEW m \in Usb!Write, OnDisk(m), m = n => r # "failed" PROVE OnDisk(m)'
      <3>1. target'[m] = target[m]
        BY <2>2, ReturnFacts
      <3>2. \A k \in Usb!Write : result[k] = "unwatched" => result'[k] = "unwatched"
        BY ReturnFacts
      <3> QED
        BY <1>1, <2>2, <3>1, <3>2 DEF OnDisk
    <2> QED
      BY <1>0, <1>1, <2>1, <2>2 DEF VerifiedOK
  <1>7. OfflineOK'
    <2>1. ASSUME NEW m \in Usb!Write, Owner(helper[m]) \/ answer[m] \in {"killed", "manual"}
          PROVE  Owner(helper'[m]) \/ answer'[m] \in {"killed", "manual"}
      <3>1. Owner(helper[m]) => answer[m] = "none"
        BY <1>0 DEF HelpersOK, LocalOK, Owner
      <3> QED
        BY <2>1, <3>1, ReturnFacts
    <2> QED
      BY <1>0, <1>1, <2>1 DEF OfflineOK
  <1> QED
    BY <1>3, <1>4, <1>5, <1>6, <1>7 DEF UsbIInv

\* The request, the launch, the deadline, and a disk that is swapped.
LEMMA UsbStep ==
  ASSUME UsbIInv, [Usb!WinNext]_(Usb!winVars) PROVE UsbIInv'
  <1>0. /\ UsbTypeOK /\ HelpersOK /\ AttemptsOK /\ VerifiedOK /\ OfflineOK
        /\ NoDisk \in Disks /\ app.n \in Nat /\ MaxWrites \in Nat /\ Usb!Write = 1..MaxWrites
        /\ app.at # "idle" => app.n \in Usb!Write
    BY UsbFacts DEF UsbIInv, Disks, UsbTypeOK, AttemptsOK
  <1>1. CASE \E n \in Usb!Write : Usb!Helper(n)
    BY <1>1, HelperMoves, MovesTyped, MovesHelpers, MovesAttempts, MovesVerified, MovesOffline DEF UsbIInv
  <1>2. CASE UNCHANGED Usb!winVars
    <2>1. UNCHANGED <<at, offline, written, foreign, app, target, result, helper, handle, answer, swaps>>
      BY <1>2 DEF Usb!winVars, Usb!disks, Usb!side, Usb!process
    <2>2. UsbTypeOK' /\ HelpersOK' /\ OfflineOK'
      BY <1>0, <2>1 DEF UsbTypeOK, HelpersOK, OfflineOK
    <2>3. AttemptsOK'
      BY <1>0, <2>1 DEF AttemptsOK, Usb!Running
    <2>4. VerifiedOK'
      BY <1>0, <2>1 DEF VerifiedOK, Verified, OnDisk
    <2> QED
      BY <2>2, <2>3, <2>4 DEF UsbIInv
  <1>3. CASE Usb!Reap \/ Usb!WaitFails \/ Usb!AppDies \/ Usb!Terminate
    <2>1. UNCHANGED <<at, offline, written, foreign, swaps>> /\ app.at # "idle"
      BY <1>3 DEF Usb!Reap, Usb!WaitFails, Usb!AppDies, Usb!Terminate, Usb!Here, Usb!disks
    <2>2. CASE Usb!Reap
      <3>1. PICK r \in {"verified", "failed"} :
              Usb!Return(r, FALSE) /\ (r = "verified" => answer[app.n] \in {"ejected", "connected"})
        BY <2>2 DEF Usb!Reap, Usb!Valid
      <3>2. UNCHANGED <<helper, handle, answer>> /\ ~Usb!Running(app.n)
        BY <2>2 DEF Usb!Reap, Usb!process
      <3>3. app'.n = app.n
        BY <1>0, <3>1 DEF Usb!Return, UsbTypeOK
      <3>4. ~Usb!Running(app.n)'
        BY <3>2, <3>3 DEF Usb!Running
      <3> QED
        BY <2>1, <3>1, <3>2, <3>4, ReturnKeeps DEF Returns
    <2>3. CASE Usb!Return("unwatched", TRUE) /\ UNCHANGED <<helper, handle, answer>>
      <3>1. Returns("unwatched")
        BY <2>1, <2>3 DEF Returns
      <3> QED
        BY <3>1, ReturnKeeps
    <2>4. CASE /\ Usb!Return("failed", FALSE)
               /\ \/ ~Usb!Running(app.n) /\ UNCHANGED <<helper, handle, answer>>
                  \/ Usb!Running(app.n) /\ Usb!Gone(app.n, "killed")
      <3>1. app'.n = app.n
        BY <1>0, <2>4 DEF Usb!Return, UsbTypeOK
      <3>2. CASE ~Usb!Running(app.n) /\ UNCHANGED <<helper, handle, answer>>
        <4>1. ~Usb!Running(app.n)'
          BY <3>1, <3>2 DEF Usb!Running
        <4>2. Returns("failed")
          BY <2>1, <2>4, <3>2, <4>1 DEF Returns
        <4> QED
          BY <4>2, ReturnKeeps
      <3>3. CASE Usb!Running(app.n) /\ Usb!Gone(app.n, "killed")
        <4>1. HelperEnded(app.n)
          BY <3>3 DEF Usb!Gone, HelperEnded
        <4>2. helper'[app.n].pc = "exited"
          <5>1. helper'[app.n] = [Usb!NoHelper EXCEPT !.pc = "exited"]
            BY <1>0, <2>1, <4>1 DEF HelperEnded, UsbTypeOK
          <5> QED
            BY <5>1 DEF Usb!NoHelper
        <4>3. ~Usb!Running(app.n)'
          BY <3>1, <4>2 DEF Usb!Running
        <4>4. Returns("failed")
          BY <2>1, <2>4, <3>3, <4>1, <4>3 DEF Returns
        <4> QED
          BY <4>4, ReturnKeeps
      <3> QED
        BY <2>4, <3>2, <3>3
    <2> QED
      BY <1>3, <2>2, <2>3, <2>4 DEF Usb!WaitFails, Usb!AppDies, Usb!Terminate, Usb!process
  <1>4. CASE Usb!Launch
    <2>1. /\ UNCHANGED <<at, offline, written, foreign, swaps, handle, answer>> /\ app.at = "prompt"
          /\ app.n \in Usb!Write
      BY <1>0, <1>4 DEF Usb!Launch, Usb!Here, Usb!disks
    <2>2. helper[app.n].pc = "none" /\ helper[app.n].then # "verified" /\ helper[app.n] \in Helpers
          /\ answer[app.n] = "none" /\ result[app.n] = "none"
      BY <1>0, <2>1 DEF AttemptsOK, HelpersOK, LocalOK, Leaving, UsbTypeOK
    <2>3. CASE Usb!Return("failed", FALSE) /\ UNCHANGED helper
      <3>1. app'.n = app.n
        BY <1>0, <2>3 DEF Usb!Return, UsbTypeOK
      <3>2. ~Usb!Running(app.n)'
        BY <2>2, <2>3, <3>1 DEF Usb!Running
      <3>3. Returns("failed")
        BY <2>1, <2>3, <3>2 DEF Returns
      <3> QED
        BY <3>3, ReturnKeeps
    <2>4. CASE helper' = [helper EXCEPT ![app.n].pc = "admit"] /\ Usb!Step("wait") /\ UNCHANGED result
      <3> DEFINE h == [helper[app.n] EXCEPT !.pc = "admit"]
      <3>1. h \in Helpers /\ h.pc = "admit" /\ h.then # "verified" /\ ~Owner(h)
        BY <2>2 DEF Helpers, Owner
      <3>2. helper' = [helper EXCEPT ![app.n] = h]
        BY <2>4
      <3>3. app' = [app EXCEPT !.at = "wait"] /\ target' = target /\ result' = result
        BY <2>4 DEF Usb!Step
      <3> HIDE DEF h
      <3>4. \A m \in Usb!Write : helper'[m] = IF m = app.n THEN h ELSE helper[m]
        BY <1>0, <3>2 DEF UsbTypeOK
      <3>5. app'.at = "wait" /\ app'.n = app.n
        BY <1>0, <3>3 DEF UsbTypeOK
      <3>6. UsbTypeOK'
        BY <1>0, <2>1, <3>1, <3>2, <3>3 DEF UsbTypeOK
      <3>7. HelpersOK'
        BY <1>0, <2>1, <2>2, <3>1, <3>3, <3>4 DEF HelpersOK, LocalOK, Leaving
      <3>8. AttemptsOK'
        BY <1>0, <2>1, <2>2, <3>3, <3>4, <3>5 DEF AttemptsOK, Usb!Running
      <3>9. VerifiedOK'
        BY <1>0, <2>1, <2>2, <3>1, <3>3, <3>4 DEF VerifiedOK, Verified, OnDisk
      <3>10. OfflineOK'
        BY <1>0, <2>1, <2>2, <3>4 DEF OfflineOK, Owner
      <3> QED
        BY <3>6, <3>7, <3>8, <3>9, <3>10 DEF UsbIInv
    <2> QED
      BY <1>4, <2>3, <2>4 DEF Usb!Launch
  <1>5. CASE Usb!Overdue
    <2>1. /\ UNCHANGED <<at, offline, written, foreign, swaps, helper, handle, answer, target, result>>
          /\ app' = [app EXCEPT !.at = "ending"] /\ app.at = "wait" /\ app.n \in Usb!Write
      BY <1>0, <1>5 DEF Usb!Overdue, Usb!Here, Usb!disks, Usb!process, Usb!Step
    <2>2. app'.at = "ending" /\ app'.n = app.n
      BY <1>0, <2>1 DEF UsbTypeOK
    <2>3. UsbTypeOK' /\ HelpersOK' /\ OfflineOK'
      BY <1>0, <2>1 DEF UsbTypeOK, HelpersOK, OfflineOK
    <2>4. AttemptsOK'
      BY <1>0, <2>1, <2>2 DEF AttemptsOK, Usb!Running
    <2>5. VerifiedOK'
      BY <1>0, <2>1 DEF VerifiedOK, Verified, OnDisk
    <2> QED
      BY <2>3, <2>4, <2>5 DEF UsbIInv
  <1>6. CASE Usb!Request
    <2>1. /\ UNCHANGED <<at, offline, written, foreign, swaps, helper, handle, answer, result>>
          /\ app' = [at |-> "prompt", n |-> app.n + 1] /\ app.at = "idle"
          /\ target' = [target EXCEPT ![app.n + 1] = at] /\ app.n + 1 \in Usb!Write
      BY <1>0, <1>6 DEF Usb!Request, Usb!disks, Usb!process
    <2>2. app'.at = "prompt" /\ app'.n = app.n + 1 /\ app.n + 1 > app.n
      BY <1>0, <2>1
    <2>3. UsbTypeOK'
      BY <1>0, <2>1 DEF UsbTypeOK
    <2>4. \A m \in Usb!Write : target'[m] = IF m = app.n + 1 THEN at ELSE target[m]
      BY <1>0, <2>1 DEF UsbTypeOK
    <2>5. helper[app.n + 1].pc = "none" /\ result[app.n + 1] = "none"
      BY <1>0, <2>1, <2>2 DEF AttemptsOK
    <2>6. helper[app.n + 1].then # "verified" /\ answer[app.n + 1] = "none"
      BY <1>0, <2>1, <2>5 DEF HelpersOK, LocalOK, Leaving
    <2>7. HelpersOK'
      BY <1>0, <2>1, <2>4, <2>5 DEF HelpersOK, LocalOK
    <2>8. AttemptsOK'
      BY <1>0, <2>1, <2>2, <2>5 DEF AttemptsOK, Usb!Running
    <2>9. VerifiedOK'
      <3>1. ASSUME NEW m \in Usb!Write, Verified(m)' PROVE Verified(m) /\ m # app.n + 1
        BY <2>1, <2>5, <2>6, <3>1 DEF Verified
      <3>2. ASSUME NEW m \in Usb!Write, m # app.n + 1, OnDisk(m) PROVE OnDisk(m)'
        BY <2>1, <2>4, <3>2 DEF OnDisk
      <3> QED
        BY <1>0, <2>1, <3>1, <3>2 DEF VerifiedOK
    <2>10. OfflineOK'
      BY <1>0, <2>1 DEF OfflineOK
    <2> QED
      BY <2>3, <2>7, <2>8, <2>9, <2>10 DEF UsbIInv
  <1>7. CASE Usb!Swap
    <2>1. /\ swaps' = swaps + 1 /\ at' \in Disks \ {at} /\ handle' = [m \in Usb!Write |-> NoDisk]
          /\ UNCHANGED <<offline, written, foreign, app, target, result, helper, answer>>
      BY <1>7 DEF Usb!Swap, Usb!side, Disks
    <2>2. UsbTypeOK'
      BY <1>0, <2>1 DEF UsbTypeOK
    <2>3. HelpersOK'
      BY <1>0, <2>1 DEF HelpersOK, LocalOK
    <2>4. AttemptsOK'
      BY <1>0, <2>1 DEF AttemptsOK, Usb!Running
    <2>5. VerifiedOK'
      BY <1>0, <2>1 DEF VerifiedOK, Verified, OnDisk
    <2>6. OfflineOK'
      <3>1. swaps \in Nat
        BY <1>0 DEF UsbTypeOK
      <3>2. at' # NoDisk /\ swaps' < 2 => ~offline'[at']
        BY <1>0, <2>1, <3>1 DEF OfflineOK, Disks
      <3> QED
        BY <2>1, <3>1, <3>2 DEF OfflineOK
    <2> QED
      BY <2>2, <2>3, <2>4, <2>5, <2>6 DEF UsbIInv
  <1> QED
    BY <1>1, <1>2, <1>3, <1>4, <1>5, <1>6, <1>7 DEF Usb!WinNext, Usb!Application

LEMMA UsbInitOK == ASSUME Usb!WinInit PROVE UsbIInv
  <1>1. MaxWrites \in Nat /\ 0 \in 0..MaxWrites /\ Usb!Write = 1..MaxWrites
    BY UsbFacts
  <1>2. Usb!NoHelper \in Helpers /\ Usb!NoHelper.pc = "none" /\ Usb!NoHelper.then = "none"
    BY DEF Usb!NoHelper, Helpers
  <1>3. UsbTypeOK
    BY <1>1, <1>2 DEF Usb!WinInit, UsbTypeOK, Disks, Answers
  <1>4. HelpersOK
    BY <1>2 DEF Usb!WinInit, HelpersOK, LocalOK, Leaving
  <1>5. AttemptsOK
    BY <1>1, <1>2 DEF Usb!WinInit, AttemptsOK, Usb!Running
  <1>6. VerifiedOK
    BY <1>2 DEF Usb!WinInit, VerifiedOK, Verified
  <1>7. OfflineOK
    BY DEF Usb!WinInit, OfflineOK
  <1> QED
    BY <1>3, <1>4, <1>5, <1>6, <1>7 DEF UsbIInv

LEMMA UsbSafe == ASSUME UsbIInv PROVE Usb!WriterSafe
  <1>1. ASSUME NEW n \in Usb!Write, result[n] = "verified"
        PROVE  \/ written[target[n]] = [by |-> n, blocks |-> Usb!Blocks]
               \/ \E m \in Usb!Write : written[target[n]].by = m /\ (m > n \/ result[m] = "unwatched")
    BY <1>1 DEF UsbIInv, VerifiedOK, Verified, OnDisk
  <1>2. ASSUME NEW n \in Usb!Write, Owner(helper[n]) PROVE Usb!Running(n)
    BY <1>2 DEF Owner, Usb!Running
  <1>3. at # NoDisk /\ swaps < 2 /\ offline[at] =>
          \E n \in Usb!Write : Usb!Running(n) \/ answer[n] \in {"killed", "manual"}
    BY <1>2 DEF UsbIInv, OfflineOK
  <1>4. \A n \in Usb!Write : result[n] \in {"verified", "failed"} => ~Usb!Running(n)
    BY DEF UsbIInv, AttemptsOK
  <1> QED
    BY <1>1, <1>3, <1>4 DEF Usb!WriterSafe, UsbIInv, VerifiedOK

-----------------------------------------------------------------------------
(***************************************************************************)
(* The build.                                                              *)
(***************************************************************************)
Versions == Version \union {None}
Ports    == Port \union {None}
Builds   == Build \union {None}
Steps    == {"none", "start", "await", "mark", "resolve", "userspace", "bundle", "handoff", "awaitx",
             "build", "validate", "install", "export", "cleanup"}
Places   == {"none", "call", "prepare", "shake", "guest", "net", "packages", "stop", "claim", "record",
             "work", "convert"}
Flows    == [step : Steps, at : Places, n : Builds, port : Ports, m : Builds, ver : Versions, local : BOOLEAN]
Sessions == [state : {"none", "booting", "ready", "failed", "timedOut", "handoff", "handoff-validated",
                      "nvidia-installed"},
             guest : BOOLEAN, port : Ports, target : Builds,
             res : [status : {"none", "compatible", "unavailable", "build_required"}, ver : Versions],
             user : [ver : Versions, packages : Versions, full : BOOLEAN],
             bundle : BOOLEAN, valid : Versions, inst : Versions]
Boxes    == [state : {"none", "booting", "ready", "failed", "timedOut", "building", "validating", "installing"},
             guest : BOOLEAN, port : Ports, holds : Builds]
Tasks    == [todo : SUBSET {"native", "x86"}, seen : SUBSET {"native", "x86"}, for : Builds,
             as : {"none", "failed", "cancelled"}, on : BOOLEAN]
Outcomes == {<<>>} \union ({"complete", "failed", "cancelled", "none"} \X Builds)

BuildTypeOK ==
  /\ flow \in [Build -> Flows]
  /\ ui \in [running : BOOLEAN, cancelling : BOOLEAN, active : Builds]
  /\ cancelTask \in [Task -> Tasks] /\ main \in Builds /\ outcome \in [Build -> Outcomes]
  /\ native \in [cur : Builds, preparing : BOOLEAN, cancel : BOOLEAN] /\ image \in [Build -> Sessions]
  /\ x86 \in [cur : Builds, starting : BOOLEAN, cancel : BOOLEAN] /\ box \in [Build -> Boxes]

\* A build that has begun was requested, and is not requested again; one that
\* waits for its workers to stop does nothing else.
Requested(b) == outcome[b] # <<>> \/ main = b
RequestsOK   == \A b \in Build : /\ flow[b].step # "none" => Requested(b)
                                 /\ cancelTask[b].on => flow[b].step = "cleanup"

\* One handoff at a time prepares a guest, while there is none; there is no
\* other x86_64 guest than that of the session, or the one being prepared.
Starting(b) == flow[b].step = "handoff" /\ flow[b].at \in {"prepare", "record"}
BoxesOK ==
  /\ x86.starting => x86.cur = None
  /\ \A b \in Build : Starting(b) => x86.starting
  /\ \A b, c \in Build : Starting(b) /\ Starting(c) => b = c
  /\ \A b \in Build : box[b].guest => x86.cur = b \/ At(b, "handoff", "record")

\* An image that is handed over has lost its native guest, and its build will
\* not start another.
Past(n) == n \in Build /\ Requested(n) /\ flow[n].step # "start"
Given(n) == Past(n) /\ ~image[n].guest
ImagesOK ==
  /\ native.cur # None => Past(native.cur)
  /\ \A b \in Build : /\ flow[b].step = "handoff" /\ flow[b].at \in {"claim", "prepare"} => Given(flow[b].n)
                      /\ box[b].guest => Given(box[b].holds)

BuildIInv == BuildTypeOK /\ RequestsOK /\ BoxesOK /\ ImagesOK

LEMMA BuildFacts == /\ MaxBuild \in Nat /\ Build = 1..MaxBuild /\ None = 0 /\ None \notin Build
                    /\ Click \notin Build /\ Task = {Click} \union Build /\ Build \subseteq Task
                    /\ NoFlow \in Flows /\ NoSession \in Sessions /\ NoBox \in Boxes /\ NoTask \in Tasks
                    /\ NoSession.guest = FALSE /\ NoBox.guest = FALSE
  <1>1. MaxBuild \in Nat /\ Build = 1..MaxBuild /\ None = 0 /\ Click = 0 /\ Task = {Click} \union Build
    BY BuildBounds DEF Build, None, Click, Task
  <1>2. NoFlow \in Flows /\ NoBox \in Boxes /\ NoTask \in Tasks
    BY DEF NoFlow, Flows, Steps, Places, Builds, Ports, Versions, NoBox, Boxes, NoTask, Tasks
  <1>3. NoSession \in Sessions
    BY DEF NoSession, NoUserspace, Sessions, Builds, Ports, Versions
  <1>4. NoSession.guest = FALSE /\ NoBox.guest = FALSE
    BY DEF NoSession, NoBox
  <1> QED
    BY <1>1, <1>2, <1>3, <1>4

\* What a step of a command does to its build: it goes on, neither starts nor
\* hands over an image, or is refused and waits for the workers to stop.
Plain(b, f) ==
  /\ f \in Flows /\ flow' = [flow EXCEPT ![b] = f]
  /\ f.step = "handoff" => f.at \in {"call", "stop"}
  /\ f.step = "start" => flow[b].step = "start"
Waits(b, f) ==
  \/ UNCHANGED cancelTask /\ f.step # "cleanup"
  \/ /\ f.step = "cleanup" /\ \E s \in {"failed", "cancelled"} : cancelTask' = [cancelTask EXCEPT ![b] = StopAll(b, s)]
Advances(b) == \E f : Plain(b, f) /\ Waits(b, f)

LEMMA CallPlain ==
  ASSUME BuildTypeOK, NEW b \in Build, NEW s \in Steps \ {"start"}, Call(b, s)
  PROVE  \E f : Plain(b, f) /\ f.step = s
  <1> DEFINE f == [NoFlow EXCEPT !.step = s, !.at = "call", !.local = flow[b].local /\ s # "cleanup"]
  <1>1. flow[b].local \in BOOLEAN
    BY DEF BuildTypeOK, Flows
  <1>2. (flow[b].local /\ s # "cleanup") \in BOOLEAN
    OBVIOUS
  <1>3. f \in Flows /\ f.step = s /\ f.at = "call"
    BY <1>2, BuildFacts DEF Flows, Places
  <1>4. flow' = [flow EXCEPT ![b] = f]
    BY DEF Call
  <1> HIDE DEF f
  <1> QED
    BY <1>3, <1>4 DEF Plain

LEMMA OverPlain ==
  ASSUME NEW b \in Build, Over(b) PROVE \E f : Plain(b, f) /\ f.step = "none"
  <1>1. NoFlow \in Flows /\ NoFlow.step = "none" /\ flow' = [flow EXCEPT ![b] = NoFlow]
    BY BuildFacts DEF NoFlow, Over
  <1> QED
    BY <1>1 DEF Plain

LEMMA AnsweredPlain ==
  ASSUME BuildTypeOK, NEW b \in Build, NEW s \in Steps \ {"start", "cleanup"}, NEW l \in BOOLEAN,
         Answered(b, s, l), UNCHANGED cancelTask
  PROVE  Advances(b)
  <1>1. Over(b) \/ Call(b, s)
    BY DEF Answered
  <1> QED
    BY <1>1, CallPlain, OverPlain DEF Advances, Waits

LEMMA RefusedPlain ==
  ASSUME BuildTypeOK, NEW b \in Build, Refused(b) PROVE Advances(b)
  <1>1. CASE Over(b) /\ UNCHANGED cancelTask
    BY <1>1, OverPlain DEF Advances, Waits
  <1>2. CASE Call(b, "cleanup") /\ cancelTask' = [cancelTask EXCEPT ![b] = StopAll(b, "failed")]
    <2>1. "cleanup" \in Steps \ {"start"}
      BY DEF Steps
    <2> QED
      BY <1>2, <2>1, CallPlain DEF Advances, Waits
  <1> QED
    BY <1>1, <1>2 DEF Refused

LEMMA DeclinedPlain ==
  ASSUME BuildTypeOK, NEW b \in Build, Declined(b) PROVE Advances(b)
  <1>1. "cleanup" \in Steps \ {"start"}
    BY DEF Steps
  <1> QED
    BY <1>1, CallPlain DEF Advances, Waits, Declined

\* It goes on within a command.
Within(b, l) == /\ l \in Places /\ flow[b].step \notin {"cleanup"}
                /\ flow[b].step = "handoff" => l \in {"call", "stop"}

LEMMA GotoPlain ==
  ASSUME BuildTypeOK, NEW b \in Build, NEW l, Goto(b, l), Within(b, l), UNCHANGED cancelTask PROVE Advances(b)
  <1> DEFINE f == [flow[b] EXCEPT !.at = l]
  <1>1. f \in Flows /\ f.step = flow[b].step /\ f.at = l
    BY DEF BuildTypeOK, Flows, Within
  <1>2. flow' = [flow EXCEPT ![b] = f]
    BY DEF Goto
  <1> HIDE DEF f
  <1> QED
    BY <1>1, <1>2 DEF Plain, Waits, Advances, Within

LEMMA CurTyped ==
  ASSUME BuildTypeOK
  PROVE  /\ Cur \in Sessions /\ CurBox \in Boxes /\ native.cur \in Builds /\ x86.cur \in Builds
         /\ (Open <=> native.cur \in Build) /\ (OpenX <=> x86.cur \in Build)
         /\ (Open => Cur = image[native.cur]) /\ (OpenX => CurBox = box[x86.cur])
  BY BuildFacts DEF BuildTypeOK, Cur, CurBox, Open, OpenX, Builds

LEMMA SnapshotPlain ==
  ASSUME BuildTypeOK, NEW b \in Build, NEW l, NEW v \in Versions, Snapshot(b, l, v), Within(b, l), UNCHANGED cancelTask
  PROVE  Advances(b)
  <1> DEFINE f == [flow[b] EXCEPT !.at = l, !.n = native.cur, !.port = Cur.port, !.ver = v]
  <1>1. Cur.port \in Ports /\ native.cur \in Builds
    BY CurTyped DEF Sessions
  <1>2. f \in Flows /\ f.step = flow[b].step /\ f.at = l
    BY <1>1 DEF BuildTypeOK, Flows, Within
  <1>3. flow' = [flow EXCEPT ![b] = f]
    BY DEF Snapshot
  <1> HIDE DEF f
  <1> QED
    BY <1>2, <1>3 DEF Plain, Waits, Advances, Within

\* No guest is added to the sessions, or to the boxes.
ImagesKept ==
  /\ image' \in [Build -> Sessions] /\ native' \in [cur : Builds, preparing : BOOLEAN, cancel : BOOLEAN]
  /\ native'.cur \in {native.cur, None}
  /\ \A n \in Build : image'[n].guest => image[n].guest
BoxesKept ==
  /\ box' \in [Build -> Boxes] /\ x86' \in [cur : Builds, starting : BOOLEAN, cancel : BOOLEAN]
  /\ x86'.starting = x86.starting /\ x86'.cur \in {x86.cur, None}
  /\ \A m \in Build : box'[m].guest =>
       /\ box[m].guest /\ box'[m].holds = box[m].holds
       /\ x86.cur = m => x86'.cur = m

LEMMA SetCurKept ==
  ASSUME BuildTypeOK, NEW r \in Sessions, r.guest => Cur.guest, SetCur(r), UNCHANGED native PROVE ImagesKept
  <1>1. image \in [Build -> Sessions] /\ image' = [image EXCEPT ![native.cur] = r]
    BY DEF BuildTypeOK, SetCur
  <1>2. CASE native.cur \in Build
    <2>1. Cur = image[native.cur]
      BY <1>2, CurTyped
    <2> QED
      BY <1>1, <1>2, <2>1 DEF ImagesKept, BuildTypeOK
  <1>3. CASE native.cur \notin Build
    BY <1>1, <1>3 DEF ImagesKept, BuildTypeOK
  <1> QED
    BY <1>2, <1>3

LEMMA SetBoxKept ==
  ASSUME BuildTypeOK, NEW s, s \in {"ready", "failed", "timedOut", "building", "validating", "installing"},
         SetBox([CurBox EXCEPT !.state = s]), UNCHANGED <<x86>> \/ (x86' = [x86 EXCEPT !.cancel = FALSE])
  PROVE  BoxesKept
  <1> DEFINE r == [CurBox EXCEPT !.state = s]
  <1>1. r \in Boxes /\ r.guest = CurBox.guest /\ r.holds = CurBox.holds
    BY CurTyped DEF Boxes
  <1>2. box \in [Build -> Boxes] /\ box' = [box EXCEPT ![x86.cur] = r]
    BY DEF BuildTypeOK, SetBox
  <1>3. /\ x86' \in [cur : Builds, starting : BOOLEAN, cancel : BOOLEAN] /\ x86'.starting = x86.starting
        /\ x86'.cur = x86.cur
    BY DEF BuildTypeOK
  <1> HIDE DEF r
  <1>4. CASE x86.cur \in Build
    <2>1. CurBox = box[x86.cur]
      BY <1>4, CurTyped
    <2> QED
      BY <1>1, <1>2, <1>3, <1>4, <2>1 DEF BoxesKept
  <1>5. CASE x86.cur \notin Build
    BY <1>1, <1>2, <1>3, <1>5 DEF BoxesKept
  <1> QED
    BY <1>4, <1>5

LEMMA TakeBoxKept ==
  ASSUME BuildTypeOK, TakeBox PROVE BoxesKept
  <1>1. /\ box' = [box EXCEPT ![x86.cur] = NoBox] /\ x86' = [x86 EXCEPT !.cur = None]
        /\ NoBox \in Boxes /\ ~NoBox.guest /\ None \in Builds
    BY BuildFacts DEF TakeBox, DropBox, NoBox, Builds
  <1>2. /\ x86' \in [cur : Builds, starting : BOOLEAN, cancel : BOOLEAN] /\ x86'.starting = x86.starting
        /\ x86'.cur = None
    BY <1>1 DEF BuildTypeOK
  <1> QED
    BY <1>1, <1>2 DEF BoxesKept, BuildTypeOK

LEMMA SameKept ==
  ASSUME BuildTypeOK
  PROVE  /\ UNCHANGED <<native, image>> => ImagesKept
         /\ UNCHANGED <<x86, box>> => BoxesKept
  BY DEF BuildTypeOK, ImagesKept, BoxesKept

WindowKept == /\ ui' \in [running : BOOLEAN, cancelling : BOOLEAN, active : Builds]
              /\ main' \in Builds /\ outcome' \in [Build -> Outcomes]
              /\ \A c \in Build : Requested(c) => Requested(c)'
Quiet(b) == /\ Advances(b) /\ ImagesKept /\ BoxesKept /\ WindowKept
            /\ flow[b].step \notin {"none", "cleanup"} /\ ~Starting(b)

LEMMA WindowSame == ASSUME BuildTypeOK, UNCHANGED <<ui, main, outcome>> PROVE WindowKept
  BY DEF BuildTypeOK, WindowKept, Requested

\* finish: the build the main window waited for has its outcome.
LEMMA FinishKept ==
  ASSUME BuildTypeOK, NEW s \in {"complete", "failed", "cancelled", "none"}, NEW w \in Builds, Finish(s, w)
  PROVE  WindowKept
  <1>1. ui' \in [running : BOOLEAN, cancelling : BOOLEAN, active : Builds]
    BY BuildFacts DEF Finish, BuildTypeOK, Builds
  <1>2. CASE UNCHANGED <<outcome, main>>
    BY <1>1, <1>2 DEF BuildTypeOK, WindowKept, Requested
  <1>3. CASE outcome' = [outcome EXCEPT ![main] = <<s, w>>] /\ main' = None
    <2>1. <<s, w>> \in Outcomes /\ <<s, w>> # <<>>
      BY DEF Outcomes
    <2>2. main' \in Builds /\ outcome' \in [Build -> Outcomes]
      BY <1>3, <2>1 DEF BuildTypeOK, Builds
    <2>3. \A c \in Build : outcome'[c] = IF c = main THEN <<s, w>> ELSE outcome[c]
      BY <1>3 DEF BuildTypeOK
    <2>4. \A c \in Build : outcome[c] # <<>> \/ main = c => outcome'[c] # <<>> \/ main' = c
      BY <2>1, <2>3
    <2> QED
      BY <1>1, <2>2, <2>4 DEF WindowKept, Requested
  <1> QED
    BY <1>2, <1>3 DEF Finish

LEMMA QuietOK ==
  ASSUME BuildTypeOK, NEW b \in Build, Advances(b), ImagesKept, BoxesKept, UNCHANGED <<ui, main, outcome>>,
         flow[b].step \notin {"none", "cleanup"}, ~Starting(b)
  PROVE  Quiet(b)
  BY WindowSame DEF Quiet

\* start_appliance, get_appliance_status and the marker.
LEMMA StartQuiet ==
  ASSUME BuildTypeOK, NEW b \in Build, StartBegin(b) PROVE Quiet(b)
  <1>1. flow[b].step = "start" /\ UNCHANGED <<ui, main, outcome, x86, box>>
    BY DEF StartBegin, At
  <1>2. Advances(b)
    <2>1. "await" \in Steps \ {"start", "cleanup"} /\ Within(b, "prepare")
      BY <1>1 DEF Steps, Within, Places
    <2> QED
      BY <2>1, RefusedPlain, AnsweredPlain, GotoPlain DEF StartBegin
  <1>3. ImagesKept
    <2>1. CASE UNCHANGED <<native, image>>
      BY <2>1, SameKept
    <2>2. CASE native' = [cur |-> None, preparing |-> TRUE, cancel |-> FALSE] /\ image' = image
      BY <2>2, BuildFacts DEF ImagesKept, BuildTypeOK, Builds
    <2>3. CASE native' = [cur |-> None, preparing |-> TRUE, cancel |-> FALSE] /\ Drop(native.cur)
      BY <2>3, BuildFacts DEF Drop, ImagesKept, BuildTypeOK, Builds
    <2> QED
      BY <2>1, <2>2, <2>3 DEF StartBegin
  <1> QED
    BY <1>1, <1>2, <1>3, SameKept, QuietOK DEF Starting

LEMMA AwaitQuiet ==
  ASSUME BuildTypeOK, NEW b \in Build, AwaitBegin(b) \/ AwaitEnd(b) PROVE Quiet(b)
  <1>1. flow[b].step = "await" /\ UNCHANGED <<ui, main, outcome, native, x86, box>>
    BY DEF AwaitBegin, AwaitEnd, At
  <1>2. Advances(b)
    <2>1. {"await", "mark"} \subseteq Steps \ {"start", "cleanup"} /\ Within(b, "shake") /\ None \in Versions
      BY <1>1 DEF Steps, Within, Places, Versions
    <2>2. CASE AwaitBegin(b)
      BY <2>1, <2>2, RefusedPlain, AnsweredPlain, SnapshotPlain, OverPlain DEF AwaitBegin, Advances, Waits
    <2>3. CASE AwaitEnd(b)
      BY <2>1, <2>3, RefusedPlain, AnsweredPlain DEF AwaitEnd
    <2> QED
      BY <2>2, <2>3
  <1>3. ImagesKept
    <2>1. CASE image' = image
      BY <1>1, <2>1, SameKept
    <2>2. CASE \E s \in Readiness : SetCur([Cur EXCEPT !.state = s])
      <3>1. PICK s \in Readiness : SetCur([Cur EXCEPT !.state = s])
        BY <2>2
      <3>2. [Cur EXCEPT !.state = s] \in Sessions /\ [Cur EXCEPT !.state = s].guest = Cur.guest
        BY CurTyped DEF Sessions, Readiness
      <3> QED
        BY <1>1, <3>1, <3>2, SetCurKept
    <2> QED
      BY <2>1, <2>2 DEF AwaitBegin, AwaitEnd, Readiness
  <1> QED
    BY <1>1, <1>2, <1>3, SameKept, QuietOK DEF Starting

LEMMA MarkQuiet ==
  ASSUME BuildTypeOK, NEW b \in Build, MarkBegin(b) \/ MarkEnd(b) PROVE Quiet(b)
  <1>1. flow[b].step = "mark" /\ UNCHANGED <<ui, main, outcome, native, x86, box>>
    BY DEF MarkBegin, MarkEnd, At, managers
  <1>2. Advances(b)
    <2>1. "resolve" \in Steps \ {"start", "cleanup"} /\ Within(b, "guest") /\ None \in Versions
      BY <1>1 DEF Steps, Within, Places, Versions
    <2> QED
      BY <2>1, RefusedPlain, AnsweredPlain, SnapshotPlain DEF MarkBegin, MarkEnd
  <1>3. ImagesKept
    <2>1. CASE image' = image
      BY <1>1, <2>1, SameKept
    <2>2. CASE SetCur([Cur EXCEPT !.target = flow[b].n])
      <3>1. flow[b].n \in Builds
        BY DEF BuildTypeOK, Flows
      <3>2. [Cur EXCEPT !.target = flow[b].n] \in Sessions /\ [Cur EXCEPT !.target = flow[b].n].guest = Cur.guest
        BY <3>1, CurTyped DEF Sessions
      <3> QED
        BY <1>1, <2>2, <3>2, SetCurKept
    <2> QED
      BY <2>1, <2>2 DEF MarkBegin, MarkEnd, managers
  <1> QED
    BY <1>1, <1>2, <1>3, SameKept, QuietOK DEF Starting

\* The NVIDIA inputs.
LEMMA ResolvedKept ==
  ASSUME BuildTypeOK, NEW s \in {"compatible", "unavailable", "build_required"}, NEW v \in Versions,
         Resolved(s, v), UNCHANGED native
  PROVE  ImagesKept
  <1> DEFINE r == [Cur EXCEPT !.res = [status |-> s, ver |-> v], !.user = NoUserspace,
                              !.bundle = FALSE, !.valid = None, !.inst = None]
  <1>1. NoUserspace \in [ver : Versions, packages : Versions, full : BOOLEAN] /\ None \in Versions
    BY DEF NoUserspace, Versions
  <1>2. r \in Sessions /\ r.guest = Cur.guest
    BY <1>1, CurTyped DEF Sessions
  <1>3. SetCur(r)
    BY DEF Resolved
  <1> HIDE DEF r
  <1> QED
    BY <1>2, <1>3, SetCurKept

LEMMA ResolveQuiet ==
  ASSUME BuildTypeOK, NEW b \in Build, ResolveBegin(b) \/ ResolveEnd(b) PROVE Quiet(b)
  <1>1. flow[b].step = "resolve" /\ UNCHANGED <<ui, main, outcome, native, x86, box>>
    BY DEF ResolveBegin, ResolveEnd, At, managers
  <1>2. Advances(b)
    <2>1. "userspace" \in Steps \ {"start", "cleanup"} /\ Within(b, "net") /\ None \in Versions
      BY <1>1 DEF Steps, Within, Places, Versions
    <2> DEFINE f == [NoFlow EXCEPT !.step = "handoff", !.at = "call", !.local = TRUE]
    <2>2. CASE flow' = [flow EXCEPT ![b] = f] /\ UNCHANGED cancelTask
      <3>1. f \in Flows /\ f.step = "handoff" /\ f.at = "call"
        BY BuildFacts DEF Flows, Steps, Places
      <3> HIDE DEF f
      <3> QED
        BY <2>2, <3>1 DEF Advances, Plain, Waits
    <2> QED
      BY <2>1, <2>2, RefusedPlain, AnsweredPlain, DeclinedPlain, SnapshotPlain DEF ResolveBegin, ResolveEnd
  <1>3. ImagesKept
    <2>1. CASE image' = image
      BY <1>1, <2>1, SameKept
    <2>2. CASE \/ Resolved("unavailable", None)
               \/ \E v \in Version : Resolved("compatible", v) \/ Resolved("build_required", v)
      BY <1>1, <2>2, ResolvedKept DEF Versions
    <2> QED
      BY <2>1, <2>2 DEF ResolveBegin, ResolveEnd, managers
  <1> QED
    BY <1>1, <1>2, <1>3, SameKept, QuietOK DEF Starting

LEMMA UserspaceQuiet ==
  ASSUME BuildTypeOK, NEW b \in Build, UserspaceBegin(b) \/ UserspaceBundle(b) \/ UserspaceEnd(b) PROVE Quiet(b)
  <1>1. flow[b].step = "userspace" /\ UNCHANGED <<ui, main, outcome, native, x86, box>>
    BY DEF UserspaceBegin, UserspaceBundle, UserspaceEnd, At, managers
  <1>2. Advances(b)
    <2>1. "bundle" \in Steps \ {"start", "cleanup"} /\ Within(b, "net") /\ Within(b, "packages")
      BY <1>1 DEF Steps, Within, Places
    <2>2. Cur.res.ver \in Versions
      BY CurTyped DEF Sessions
    <2> QED
      BY <2>1, <2>2, RefusedPlain, AnsweredPlain, SnapshotPlain, GotoPlain
         DEF UserspaceBegin, UserspaceBundle, UserspaceEnd
  <1>3. ImagesKept
    <2>1. CASE image' = image
      BY <1>1, <2>1, SameKept
    <2>2. CASE SetCur([Cur EXCEPT !.bundle = TRUE])
      <3>1. [Cur EXCEPT !.bundle = TRUE] \in Sessions /\ [Cur EXCEPT !.bundle = TRUE].guest = Cur.guest
        BY CurTyped DEF Sessions
      <3> QED
        BY <1>1, <2>2, <3>1, SetCurKept
    <2>3. CASE UserspaceEnd(b) /\ image' # image
      <3> DEFINE r == [Cur EXCEPT !.user = [ver |-> flow[b].ver, packages |-> flow[b].ver, full |-> FALSE],
                                  !.bundle = TRUE, !.valid = None, !.inst = None]
      <3>1. flow[b].ver \in Versions /\ None \in Versions
        BY DEF BuildTypeOK, Flows, Versions
      <3>2. r \in Sessions /\ r.guest = Cur.guest
        BY <3>1, CurTyped DEF Sessions
      <3>3. SetCur(r)
        BY <2>3 DEF UserspaceEnd
      <3> HIDE DEF r
      <3> QED
        BY <1>1, <3>2, <3>3, SetCurKept
    <2> QED
      BY <2>1, <2>2, <2>3 DEF UserspaceBegin, UserspaceBundle, managers
  <1> QED
    BY <1>1, <1>2, <1>3, SameKept, QuietOK DEF Starting

LEMMA BundleQuiet ==
  ASSUME BuildTypeOK, NEW b \in Build, BundleBegin(b) \/ BundleEnd(b) PROVE Quiet(b)
  <1>1. flow[b].step = "bundle" /\ UNCHANGED <<ui, main, outcome, native, x86, box>>
    BY DEF BundleBegin, BundleEnd, At, managers
  <1>2. Advances(b)
    <2>1. {"validate", "handoff"} \subseteq Steps \ {"start", "cleanup"} /\ Within(b, "net")
      BY <1>1 DEF Steps, Within, Places
    <2>2. Cur.res.ver \in Versions /\ (IF flow[b].local THEN "validate" ELSE "handoff") \in {"validate", "handoff"}
      BY CurTyped DEF Sessions
    <2> QED
      BY <2>1, <2>2, RefusedPlain, AnsweredPlain, SnapshotPlain DEF BundleBegin, BundleEnd
  <1>3. ImagesKept
    <2>1. CASE image' = image
      BY <1>1, <2>1, SameKept
    <2>2. CASE image' # image
      <3> DEFINE r == [Cur EXCEPT !.bundle = TRUE, !.user.packages = flow[b].ver, !.user.full = TRUE]
      <3>1. flow[b].ver \in Versions
        BY DEF BuildTypeOK, Flows
      <3>2. r \in Sessions /\ r.guest = Cur.guest
        BY <3>1, CurTyped DEF Sessions
      <3>3. SetCur(r)
        BY <2>2 DEF BundleBegin, BundleEnd, managers
      <3> HIDE DEF r
      <3> QED
        BY <1>1, <3>2, <3>3, SetCurKept
    <2> QED
      BY <2>1, <2>2
  <1> QED
    BY <1>1, <1>2, <1>3, SameKept, QuietOK DEF Starting

\* The x86_64 guest boots and works.
LEMMA AwaitXQuiet ==
  ASSUME BuildTypeOK, NEW b \in Build, AwaitX(b) PROVE Quiet(b)
  <1>1. flow[b].step = "awaitx" /\ UNCHANGED <<ui, main, outcome, native, image, x86>>
    BY DEF AwaitX, At
  <1>2. Advances(b)
    <2>1. {"build", "validate"} \subseteq Steps \ {"start", "cleanup"}
      BY DEF Steps
    <2>2. Booted(b) /\ UNCHANGED cancelTask => Advances(b)
      BY <2>1, AnsweredPlain DEF Booted
    <2> QED
      BY <2>2, RefusedPlain, OverPlain DEF AwaitX, Advances, Waits
  <1>3. BoxesKept
    <2>1. CASE box' = box
      BY <1>1, <2>1, SameKept
    <2>2. CASE \E s \in {"ready", "failed", "timedOut"} : SetBox([CurBox EXCEPT !.state = s])
      BY <1>1, <2>2, SetBoxKept
    <2> QED
      BY <2>1, <2>2 DEF AwaitX
  <1> QED
    BY <1>1, <1>2, <1>3, SameKept, QuietOK DEF Starting

\* An operation claims the session.
LEMMA ClaimPlain ==
  ASSUME BuildTypeOK, NEW b \in Build, NEW s \in {"building", "validating", "installing"}, NEW free \in BOOLEAN,
         Claim(b, s, free), flow[b].step \in {"build", "validate", "install"},
         UNCHANGED x86 \/ (x86' = [x86 EXCEPT !.cancel = FALSE])
  PROVE  Advances(b) /\ BoxesKept
  <1>1. CASE Refused(b) /\ UNCHANGED box
    <2>1. BoxesKept
      BY <1>1 DEF BoxesKept, BuildTypeOK
    <2> QED
      BY <1>1, <2>1, RefusedPlain
  <1>2. CASE /\ SetBox([CurBox EXCEPT !.state = s]) /\ UNCHANGED cancelTask
             /\ flow' = [flow EXCEPT ![b] = [flow[b] EXCEPT !.at = "work", !.m = x86.cur, !.port = CurBox.port]]
    <2> DEFINE f == [flow[b] EXCEPT !.at = "work", !.m = x86.cur, !.port = CurBox.port]
    <2>1. CurBox.port \in Ports /\ x86.cur \in Builds
      BY CurTyped DEF Boxes
    <2>0. flow[b] \in Flows /\ "work" \in Places
      BY DEF BuildTypeOK, Places
    <2>2. f \in Flows /\ f.step = flow[b].step
      BY <2>0, <2>1 DEF Flows
    <2>3. flow' = [flow EXCEPT ![b] = f]
      BY <1>2
    <2> HIDE DEF f
    <2>4. Advances(b)
      BY <1>2, <2>2, <2>3 DEF Plain, Waits, Advances
    <2>5. BoxesKept
      BY <1>2, SetBoxKept
    <2> QED
      BY <2>4, <2>5
  <1> QED
    BY <1>1, <1>2 DEF Claim

LEMMA BuildQuiet ==
  ASSUME BuildTypeOK, NEW b \in Build, BuildBegin(b) \/ BuildClaim(b) \/ BuildWork(b) \/ BuildEnd(b) PROVE Quiet(b)
  <1>1. flow[b].step = "build" /\ UNCHANGED <<ui, main, outcome, native, x86>>
    BY DEF BuildBegin, BuildClaim, BuildWork, BuildEnd, At, managers
  <1>2. Cur.res.ver \in Versions /\ Within(b, "claim") /\ Within(b, "record")
    BY <1>1, CurTyped DEF Sessions, Steps, Within, Places
  <1>3. CASE BuildBegin(b)
    BY <1>1, <1>2, <1>3, RefusedPlain, SnapshotPlain, SameKept, QuietOK DEF BuildBegin, Starting, managers
  <1>4. CASE BuildClaim(b)
    <2>1. (OpenX /\ CurBox.state = "ready") \in BOOLEAN
      BY DEF OpenX
    <2>2. Advances(b) /\ BoxesKept
      BY <1>1, <1>4, <2>1, ClaimPlain DEF BuildClaim
    <2> QED
      BY <1>1, <1>4, <2>2, SameKept, QuietOK DEF BuildClaim, Starting
  <1>5. CASE BuildWork(b)
    <2>1. BoxesKept
      BY <1>1, <1>5, SetBoxKept, SameKept DEF BuildWork
    <2>2. Advances(b)
      BY <1>2, <1>5, RefusedPlain, GotoPlain DEF BuildWork
    <2> QED
      BY <1>1, <1>5, <2>1, <2>2, SameKept, QuietOK DEF BuildWork, Starting
  <1>6. CASE BuildEnd(b)
    <2>1. flow[b].ver \in Versions /\ "userspace" \in Steps \ {"start", "cleanup"}
      BY DEF BuildTypeOK, Flows, Steps
    <2>2. ImagesKept
      BY <1>1, <1>6, <2>1, ResolvedKept, SameKept DEF BuildEnd
    <2>3. Advances(b)
      BY <1>6, <2>1, RefusedPlain, AnsweredPlain DEF BuildEnd
    <2> QED
      BY <1>1, <1>6, <2>2, <2>3, SameKept, QuietOK DEF BuildEnd, Starting
  <1> QED
    BY <1>3, <1>4, <1>5, <1>6

LEMMA ValidateQuiet ==
  ASSUME BuildTypeOK, NEW b \in Build, ValidateBegin(b) \/ ValidateClaim(b) \/ ValidateWork(b) \/ ValidateEnd(b)
  PROVE  Quiet(b)
  <1>1. flow[b].step = "validate" /\ UNCHANGED <<ui, main, outcome, native>>
    BY DEF ValidateBegin, ValidateClaim, ValidateWork, ValidateEnd, At, managers
  <1>2. Cur.res.ver \in Versions /\ Within(b, "claim") /\ Within(b, "record")
    BY <1>1, CurTyped DEF Sessions, Steps, Within, Places
  <1>3. CASE ValidateBegin(b)
    BY <1>1, <1>2, <1>3, RefusedPlain, SnapshotPlain, SameKept, QuietOK DEF ValidateBegin, Starting, managers
  <1>4. CASE ValidateClaim(b)
    <2>1. Holding(b) \in BOOLEAN
      BY DEF Holding
    <2>2. Advances(b) /\ BoxesKept
      BY <1>1, <1>4, <2>1, ClaimPlain DEF ValidateClaim
    <2> QED
      BY <1>1, <1>4, <2>2, SameKept, QuietOK DEF ValidateClaim, Starting
  <1>5. CASE ValidateWork(b)
    <2>1. BoxesKept
      BY <1>1, <1>5, SetBoxKept, TakeBoxKept, SameKept DEF ValidateWork
    <2>2. Advances(b)
      BY <1>2, <1>5, RefusedPlain, GotoPlain DEF ValidateWork
    <2> QED
      BY <1>1, <1>5, <2>1, <2>2, SameKept, QuietOK DEF ValidateWork, Starting
  <1>6. CASE ValidateEnd(b)
    <2>1. "install" \in Steps \ {"start", "cleanup"}
      BY DEF Steps
    <2>2. ImagesKept
      <3>1. CASE image' = image
        BY <1>1, <3>1, SameKept
      <3>2. CASE image' # image
        <4> DEFINE r == [Cur EXCEPT !.state = "handoff-validated", !.valid = flow[b].ver]
        <4>1. flow[b].ver \in Versions
          BY DEF BuildTypeOK, Flows
        <4>2. r \in Sessions /\ r.guest = Cur.guest
          BY <4>1, CurTyped DEF Sessions
        <4>3. SetCur(r)
          BY <1>6, <3>2 DEF ValidateEnd
        <4> HIDE DEF r
        <4> QED
          BY <1>1, <4>2, <4>3, SetCurKept
      <3> QED
        BY <3>1, <3>2
    <2>3. Advances(b)
      BY <1>6, <2>1, RefusedPlain, AnsweredPlain DEF ValidateEnd
    <2> QED
      BY <1>1, <1>6, <2>2, <2>3, SameKept, QuietOK DEF ValidateEnd, Starting
  <1> QED
    BY <1>3, <1>4, <1>5, <1>6

LEMMA InstallQuiet ==
  ASSUME BuildTypeOK, NEW b \in Build, InstallBegin(b) \/ InstallClaim(b) \/ InstallWork(b) \/ InstallEnd(b)
  PROVE  Quiet(b)
  <1>1. flow[b].step = "install" /\ UNCHANGED <<ui, main, outcome, native>>
    BY DEF InstallBegin, InstallClaim, InstallWork, InstallEnd, At, managers
  <1>2. Cur.res.ver \in Versions /\ Within(b, "claim") /\ Within(b, "record")
    BY <1>1, CurTyped DEF Sessions, Steps, Within, Places
  <1>3. CASE InstallBegin(b)
    BY <1>1, <1>2, <1>3, RefusedPlain, SnapshotPlain, SameKept, QuietOK DEF InstallBegin, Starting, managers
  <1>4. CASE InstallClaim(b)
    <2>1. Holding(b) \in BOOLEAN
      BY DEF Holding
    <2>2. Advances(b) /\ BoxesKept
      BY <1>1, <1>4, <2>1, ClaimPlain DEF InstallClaim
    <2> QED
      BY <1>1, <1>4, <2>2, SameKept, QuietOK DEF InstallClaim, Starting
  <1>5. CASE InstallWork(b)
    <2>1. BoxesKept
      BY <1>1, <1>5, TakeBoxKept, SameKept DEF InstallWork
    <2>2. Advances(b)
      BY <1>2, <1>5, RefusedPlain, GotoPlain DEF InstallWork
    <2> QED
      BY <1>1, <1>5, <2>1, <2>2, SameKept, QuietOK DEF InstallWork, Starting
  <1>6. CASE InstallEnd(b)
    <2>1. "export" \in Steps \ {"start", "cleanup"}
      BY DEF Steps
    <2>2. ImagesKept
      <3>1. CASE image' = image
        BY <1>1, <3>1, SameKept
      <3>2. CASE image' # image
        <4> DEFINE r == [Cur EXCEPT !.state = "nvidia-installed", !.inst = flow[b].ver]
        <4>1. flow[b].ver \in Versions
          BY DEF BuildTypeOK, Flows
        <4>2. r \in Sessions /\ r.guest = Cur.guest
          BY <4>1, CurTyped DEF Sessions
        <4>3. SetCur(r)
          BY <1>6, <3>2 DEF InstallEnd
        <4> HIDE DEF r
        <4> QED
          BY <1>1, <4>2, <4>3, SetCurKept
      <3> QED
        BY <3>1, <3>2
    <2>3. Advances(b)
      BY <1>6, <2>1, RefusedPlain, AnsweredPlain DEF InstallEnd
    <2> QED
      BY <1>1, <1>6, <2>2, <2>3, SameKept, QuietOK DEF InstallEnd, Starting
  <1> QED
    BY <1>3, <1>4, <1>5, <1>6

LEMMA ExportQuiet ==
  ASSUME BuildTypeOK, NEW b \in Build, ExportBegin(b) \/ ExportEnd(b) PROVE Quiet(b)
  <1>1. flow[b].step = "export" /\ UNCHANGED <<x86, box>>
    BY DEF ExportBegin, ExportEnd, At
  <1>2. CASE ExportBegin(b)
    <2>1. Within(b, "convert") /\ None \in Versions /\ None \in Builds
      BY <1>1 DEF Within, Places, Versions, Builds
    <2>2. Advances(b)
      BY <1>2, <2>1, RefusedPlain, SnapshotPlain DEF ExportBegin
    <2>3. ImagesKept
      <3>1. CASE UNCHANGED <<native, image>>
        BY <3>1, SameKept
      <3>2. CASE native' = [cur |-> None, preparing |-> TRUE, cancel |-> FALSE] /\ image' = image
        BY <2>1, <3>2 DEF ImagesKept, BuildTypeOK
      <3> QED
        BY <1>2, <3>1, <3>2 DEF ExportBegin
    <2> QED
      BY <1>1, <1>2, <2>2, <2>3, SameKept, QuietOK DEF ExportBegin, Starting
  <1>3. CASE ExportEnd(b)
    <2>1. ImagesKept
      BY <1>3, BuildFacts DEF ExportEnd, Drop, ImagesKept, BuildTypeOK
    <2>2. Advances(b)
      BY <1>3, RefusedPlain, OverPlain DEF ExportEnd, Advances, Waits
    <2>3. WindowKept
      <3>1. b \in Builds
        BY DEF Builds
      <3> QED
        BY <1>3, <3>1, FinishKept, WindowSame DEF ExportEnd
    <2> QED
      BY <1>1, <2>1, <2>2, <2>3, SameKept DEF Quiet, Starting
  <1> QED
    BY <1>2, <1>3

\* What any step of a command leaves true of the builds.
Turn(b, f) == /\ f \in Flows /\ flow' = [flow EXCEPT ![b] = f]
              /\ f.step = "start" => flow[b].step = "start"

LEMMA TurnOK ==
  ASSUME BuildTypeOK, RequestsOK, NEW b \in Build, NEW f, Turn(b, f), Waits(b, f), WindowKept,
         flow[b].step \notin {"none", "cleanup"}
  PROVE  /\ flow' \in [Build -> Flows] /\ flow'[b] = f /\ \A c \in Build : c # b => flow'[c] = flow[c]
         /\ cancelTask' \in [Task -> Tasks] /\ RequestsOK'
         /\ \A n : Past(n) => Past(n)'
  <1>1. flow' \in [Build -> Flows] /\ flow'[b] = f /\ \A c \in Build : c # b => flow'[c] = flow[c]
    <2>1. flow \in [Build -> Flows]
      BY DEF BuildTypeOK
    <2>2. f \in Flows /\ flow' = [flow EXCEPT ![b] = f]
      BY DEF Turn
    <2> QED
      BY <2>1, <2>2
  <1>2. \A c \in Build : cancelTask[c].on => flow[c].step = "cleanup"
    BY DEF RequestsOK
  <1>3. \A s \in {"failed", "cancelled"} : StopAll(b, s) \in Tasks
    BY DEF StopAll, Tasks, Builds
  <1>4. /\ cancelTask' \in [Task -> Tasks]
        /\ \A c \in Build : cancelTask'[c].on => flow'[c].step = "cleanup"
    <2>1. CASE UNCHANGED cancelTask /\ f.step # "cleanup"
      BY <1>1, <1>2, <2>1 DEF BuildTypeOK
    <2>2. CASE f.step = "cleanup" /\ \E s \in {"failed", "cancelled"} : cancelTask' = [cancelTask EXCEPT ![b] = StopAll(b, s)]
      <3>1. PICK s \in {"failed", "cancelled"} : cancelTask' = [cancelTask EXCEPT ![b] = StopAll(b, s)]
        BY <2>2
      <3>2. /\ cancelTask \in [Task -> Tasks] /\ StopAll(b, s) \in Tasks /\ b \in Task
            /\ \A c \in Build : c \in Task
        BY <1>3, BuildFacts DEF BuildTypeOK
      <3>3. cancelTask' \in [Task -> Tasks] /\ \A c \in Build : c # b => cancelTask'[c] = cancelTask[c]
        BY <3>1, <3>2
      <3> QED
        BY <1>1, <1>2, <2>2, <3>3
    <2> QED
      BY <2>1, <2>2 DEF Waits
  <1>5. \A c \in Build : Requested(c) => Requested(c)'
    BY DEF WindowKept
  <1>6. RequestsOK'
    BY <1>1, <1>4, <1>5 DEF RequestsOK
  <1>7. \A n : Past(n) => Past(n)'
    <2>1. f.step = "start" => flow[b].step = "start"
      BY DEF Turn
    <2> QED
      BY <1>1, <1>5, <2>1 DEF Past
  <1> QED
    BY <1>1, <1>4, <1>6, <1>7

LEMMA GivenKept ==
  ASSUME NEW n, Given(n), Past(n) => Past(n)', image'[n].guest => image[n].guest PROVE Given(n)'
  BY DEF Given

LEMMA QuietStep ==
  ASSUME BuildIInv, NEW b \in Build, Quiet(b) PROVE BuildIInv'
  <1>1. PICK f : Plain(b, f) /\ Waits(b, f)
    BY DEF Quiet, Advances
  <1>2. Turn(b, f) /\ WindowKept /\ flow[b].step \notin {"none", "cleanup"}
    BY <1>1 DEF Plain, Turn, Quiet
  <1>3. BuildTypeOK /\ RequestsOK /\ BoxesOK /\ ImagesOK
    BY DEF BuildIInv
  <1>4. /\ flow' \in [Build -> Flows] /\ flow'[b] = f /\ \A c \in Build : c # b => flow'[c] = flow[c]
        /\ cancelTask' \in [Task -> Tasks] /\ RequestsOK'
        /\ \A n : Past(n) => Past(n)'
    BY <1>1, <1>2, <1>3, TurnOK
  <1>5. BuildTypeOK'
    BY <1>2, <1>4 DEF BuildTypeOK, Quiet, ImagesKept, BoxesKept, WindowKept
  <1>6. BoxesOK'
    <2>1. \A c \in Build : Starting(c)' => c # b /\ Starting(c)
      BY <1>1, <1>4 DEF Starting, Plain
    <2>2. \A c \in Build : At(c, "handoff", "record") => c # b /\ At(c, "handoff", "record")'
      BY <1>4 DEF At, Quiet, Starting
    <2>3. /\ x86'.starting = x86.starting /\ x86'.cur \in {x86.cur, None}
          /\ \A m \in Build : box'[m].guest => box[m].guest /\ (x86.cur = m => x86'.cur = m)
      BY DEF Quiet, BoxesKept
    <2> QED
      BY <1>3, <2>1, <2>2, <2>3 DEF BoxesOK
  <1>7. ImagesOK'
    <2>1. \A n : Given(n) => Given(n)'
      BY <1>4, GivenKept DEF Quiet, ImagesKept, Given, Past
    <2>2. \A c \in Build : flow'[c].step = "handoff" /\ flow'[c].at \in {"claim", "prepare"} => c # b
      BY <1>1, <1>4 DEF Plain
    <2>3. /\ native'.cur \in {native.cur, None}
          /\ \A m \in Build : box'[m].guest => box[m].guest /\ box'[m].holds = box[m].holds
      BY DEF Quiet, ImagesKept, BoxesKept
    <2> QED
      BY <1>3, <1>4, <2>1, <2>2, <2>3 DEF ImagesOK
  <1> QED
    BY <1>4, <1>5, <1>6, <1>7 DEF BuildIInv

\* The native guest is started: its build is past the start.
LEMMA StartEndStep ==
  ASSUME BuildIInv, NEW b \in Build, StartEnd(b) PROVE BuildIInv'
  <1>1. BuildTypeOK /\ RequestsOK /\ BoxesOK /\ ImagesOK
    BY DEF BuildIInv
  <1>2. flow[b].step = "start" /\ UNCHANGED <<ui, main, outcome, x86, box>>
    BY DEF StartEnd, At
  <1>3. CASE native' = [native EXCEPT !.preparing = FALSE] /\ Refused(b) /\ UNCHANGED image
    <2>1. ImagesKept
      BY <1>1, <1>3 DEF BuildTypeOK, ImagesKept
    <2> QED
      BY <1>1, <1>2, <1>3, <2>1, SameKept, RefusedPlain, QuietOK, QuietStep DEF Starting
  <1>4. CASE /\ native' = [native EXCEPT !.preparing = FALSE, !.cur = b]
             /\ \E p \in Port : image' = [image EXCEPT ![b] = [NoSession EXCEPT !.state = "booting", !.guest = TRUE, !.port = p]]
             /\ Answered(b, "await", TRUE) /\ UNCHANGED cancelTask
    <2>1. PICK f : Plain(b, f) /\ f.step \in {"none", "await"}
      <3>1. "await" \in Steps \ {"start"}
        BY DEF Steps
      <3> QED
        BY <1>1, <1>4, <3>1, CallPlain, OverPlain DEF Answered
    <2>2. Turn(b, f) /\ Waits(b, f) /\ WindowKept
      BY <1>1, <1>2, <1>4, <2>1, WindowSame DEF Plain, Turn, Waits
    <2>3. /\ flow' \in [Build -> Flows] /\ flow'[b] = f /\ \A c \in Build : c # b => flow'[c] = flow[c]
          /\ cancelTask' \in [Task -> Tasks] /\ RequestsOK'
          /\ \A n : Past(n) => Past(n)'
      BY <1>1, <1>2, <2>2, TurnOK
    <2>4. PICK p \in Port : image' = [image EXCEPT ![b] = [NoSession EXCEPT !.state = "booting", !.guest = TRUE, !.port = p]]
      BY <1>4
    <2>5. [NoSession EXCEPT !.state = "booting", !.guest = TRUE, !.port = p] \in Sessions
      BY BuildFacts DEF Sessions, Ports
    <2>6. image' \in [Build -> Sessions] /\ \A n \in Build : n # b => image'[n] = image[n]
      BY <1>1, <2>4, <2>5 DEF BuildTypeOK
    <2>7. native' \in [cur : Builds, preparing : BOOLEAN, cancel : BOOLEAN] /\ native'.cur = b
      BY <1>1, <1>4 DEF BuildTypeOK, Builds
    <2>8. BuildTypeOK'
      BY <1>1, <1>2, <2>3, <2>6, <2>7 DEF BuildTypeOK
    <2>9. BoxesOK'
      BY <1>1, <1>2, <2>1, <2>3 DEF BoxesOK, Starting, At
    <2>10. ImagesOK'
      <3>1. \A n : Given(n) => n # b /\ Given(n)'
        BY <1>2, <2>3, <2>6 DEF Given, Past
      <3>2. Past(b)'
        <4>1. Requested(b) /\ (Requested(b) => Requested(b)')
          BY <1>1, <1>2, <2>2 DEF RequestsOK, WindowKept
        <4> QED
          BY <2>1, <2>3, <4>1 DEF Past
      <3> QED
        BY <1>1, <1>2, <2>1, <2>3, <2>7, <3>1, <3>2 DEF ImagesOK
    <2> QED
      BY <2>3, <2>8, <2>9, <2>10 DEF BuildIInv
  <1> QED
    BY <1>3, <1>4 DEF StartEnd

LEMMA HandoffBeginStep ==
  ASSUME BuildIInv, NEW b \in Build, HandoffBegin(b) PROVE BuildIInv'
  <1>1. BuildTypeOK /\ flow[b].step = "handoff" /\ flow[b].at = "call" /\ UNCHANGED <<ui, main, outcome, native, image, x86, box>>
    BY DEF BuildIInv, HandoffBegin, At, managers
  <1>2. Within(b, "stop")
    BY <1>1 DEF Within, Places
  <1>3. Advances(b)
    BY <1>1, <1>2, RefusedPlain, GotoPlain DEF HandoffBegin
  <1> QED
    BY <1>1, <1>3, SameKept, QuietOK, QuietStep DEF Starting

\* The native guest is stopped, and the image is the handoff's.
LEMMA HandoffStopStep ==
  ASSUME BuildIInv, NEW b \in Build, HandoffStop(b) PROVE BuildIInv'
  <1>1. BuildTypeOK /\ RequestsOK /\ BoxesOK /\ ImagesOK
    BY DEF BuildIInv
  <1>2. flow[b].step = "handoff" /\ flow[b].at = "stop" /\ UNCHANGED <<ui, main, outcome, native, x86, box>>
    BY DEF HandoffStop, At
  <1>3. CASE Refused(b) /\ UNCHANGED image
    BY <1>1, <1>2, <1>3, SameKept, RefusedPlain, QuietOK, QuietStep DEF Starting
  <1>4. CASE /\ Open /\ SetCur([Cur EXCEPT !.state = "handoff", !.guest = FALSE])
             /\ Snapshot(b, "claim", None) /\ UNCHANGED cancelTask
    <2> DEFINE f == [flow[b] EXCEPT !.at = "claim", !.n = native.cur, !.port = Cur.port, !.ver = None]
               r == [Cur EXCEPT !.state = "handoff", !.guest = FALSE]
    <2>1. flow[b] \in Flows /\ "claim" \in Places /\ None \in Versions /\ Cur.port \in Ports /\ native.cur \in Build
      BY <1>1, <1>4, CurTyped DEF BuildTypeOK, Places, Versions, Sessions
    <2>2. f \in Flows /\ f.step = "handoff" /\ f.at = "claim" /\ f.n = native.cur
      BY <1>2, <2>1 DEF Flows, Builds
    <2>3. r \in Sessions /\ r.guest = FALSE
      BY <1>1, CurTyped DEF Sessions
    <2>4. flow' = [flow EXCEPT ![b] = f] /\ image' = [image EXCEPT ![native.cur] = r]
      BY <1>4 DEF Snapshot, SetCur
    <2> HIDE DEF f, r
    <2>5. Turn(b, f) /\ Waits(b, f) /\ WindowKept
      BY <1>1, <1>2, <1>4, <2>2, <2>4, WindowSame DEF Turn, Waits
    <2>6. /\ flow' \in [Build -> Flows] /\ flow'[b] = f /\ \A c \in Build : c # b => flow'[c] = flow[c]
          /\ cancelTask' \in [Task -> Tasks] /\ RequestsOK'
          /\ \A n : Past(n) => Past(n)'
      BY <1>1, <1>2, <2>5, TurnOK
    <2>7. /\ image' \in [Build -> Sessions] /\ ~image'[native.cur].guest
          /\ \A n \in Build : image'[n].guest => image[n].guest
      BY <1>1, <2>1, <2>3, <2>4 DEF BuildTypeOK
    <2>8. BuildTypeOK'
      BY <1>1, <1>2, <2>6, <2>7 DEF BuildTypeOK
    <2>9. BoxesOK'
      BY <1>1, <1>2, <2>2, <2>6 DEF BoxesOK, Starting, At
    <2>10. ImagesOK'
      <3>1. \A n : Given(n) => Given(n)'
        BY <2>6, <2>7 DEF Given, Past
      <3>2. Past(native.cur) /\ native' = native
        BY <1>1, <1>2, <2>1, BuildFacts DEF ImagesOK
      <3>3. Given(native.cur)'
        BY <2>6, <2>7, <3>2 DEF Given
      <3>4. Given(flow[b].n)'
        BY <2>2, <2>6, <3>2, <3>3 DEF Given, Past
      <3>5. ASSUME NEW c \in Build, flow'[c].step = "handoff", flow'[c].at \in {"claim", "prepare"}
            PROVE  Given(flow[c].n)'
        <4>1. CASE c = b
          BY <3>4, <4>1
        <4>2. CASE c # b
          <5>1. flow'[c] = flow[c] /\ Given(flow[c].n)
            BY <1>1, <2>6, <3>5, <4>2 DEF ImagesOK
          <5>2. PICK n : n = flow[c].n
            OBVIOUS
          <5>3. Given(n)' /\ flow'[c].n = n
            BY <3>1, <5>1, <5>2
          <5> QED
            BY <5>3 DEF Given, Past, Requested
        <4> QED
          BY <4>1, <4>2
      <3> QED
        BY <1>1, <1>2, <2>6, <3>1, <3>2, <3>5 DEF ImagesOK
    <2> QED
      BY <2>6, <2>8, <2>9, <2>10 DEF BuildIInv
  <1> QED
    BY <1>3, <1>4 DEF HandoffStop

\* The handoff claims the x86_64 manager, spawns its guest and records it.
LEMMA HandoffClaimStep ==
  ASSUME BuildIInv, NEW b \in Build, HandoffClaim(b) PROVE BuildIInv'
  <1>1. BuildTypeOK /\ RequestsOK /\ BoxesOK /\ ImagesOK
    BY DEF BuildIInv
  <1>2. flow[b].step = "handoff" /\ flow[b].at = "claim" /\ UNCHANGED <<ui, main, outcome, native, image, box>>
    BY DEF HandoffClaim, At
  <1>3. CASE Refused(b) /\ UNCHANGED x86
    BY <1>1, <1>2, <1>3, SameKept, RefusedPlain, QuietOK, QuietStep DEF Starting
  <1>4. CASE /\ ~x86.starting /\ ~OpenX /\ x86' = [x86 EXCEPT !.starting = TRUE, !.cancel = FALSE]
             /\ Goto(b, "prepare") /\ UNCHANGED cancelTask
    <2> DEFINE f == [flow[b] EXCEPT !.at = "prepare"]
    <2>1. flow[b] \in Flows /\ "prepare" \in Places
      BY <1>1 DEF BuildTypeOK, Places
    <2>2. f \in Flows /\ f.step = "handoff" /\ f.at = "prepare" /\ f.n = flow[b].n
      BY <1>2, <2>1 DEF Flows
    <2>3. flow' = [flow EXCEPT ![b] = f]
      BY <1>4 DEF Goto
    <2> HIDE DEF f
    <2>4. Turn(b, f) /\ Waits(b, f) /\ WindowKept
      BY <1>1, <1>2, <1>4, <2>2, <2>3, WindowSame DEF Turn, Waits
    <2>5. /\ flow' \in [Build -> Flows] /\ flow'[b] = f /\ \A c \in Build : c # b => flow'[c] = flow[c]
          /\ cancelTask' \in [Task -> Tasks] /\ RequestsOK'
          /\ \A n : Past(n) => Past(n)'
      BY <1>1, <1>2, <2>4, TurnOK
    <2>6. x86' \in [cur : Builds, starting : BOOLEAN, cancel : BOOLEAN] /\ x86'.starting /\ x86'.cur = None
      BY <1>1, <1>4 DEF BuildTypeOK, OpenX
    <2>7. BuildTypeOK'
      BY <1>1, <1>2, <2>5, <2>6 DEF BuildTypeOK
    <2>8. BoxesOK'
      <3>1. \A c \in Build : ~Starting(c) /\ (Starting(c)' => c = b)
        BY <1>1, <1>4, <2>5 DEF BoxesOK, Starting
      <3>2. \A m \in Build : ~box[m].guest
        <4>1. \A m \in Build : x86.cur # m
          BY <1>4, BuildFacts DEF OpenX
        <4> QED
          BY <1>1, <3>1, <4>1 DEF BoxesOK, Starting, At
      <3> QED
        BY <1>2, <2>6, <3>1, <3>2 DEF BoxesOK
    <2>9. ImagesOK'
      <3>1. \A n : Given(n) => Given(n)'
        BY <1>2, <2>5 DEF Given, Past
      <3>2. ASSUME NEW c \in Build, flow'[c].step = "handoff", flow'[c].at \in {"claim", "prepare"}
            PROVE  Given(flow[c].n)'
        <4>1. flow'[c].n = flow[c].n /\ Given(flow[c].n)
          BY <1>1, <1>2, <2>2, <2>5, <3>2 DEF ImagesOK
        <4>2. PICK n : n = flow[c].n
          OBVIOUS
        <4>3. Given(n)' /\ flow'[c].n = n
          BY <3>1, <4>1, <4>2
        <4> QED
          BY <4>3 DEF Given, Past, Requested
      <3> QED
        BY <1>1, <1>2, <2>5, <3>1, <3>2 DEF ImagesOK
    <2> QED
      BY <2>5, <2>7, <2>8, <2>9 DEF BuildIInv
  <1> QED
    BY <1>3, <1>4 DEF HandoffClaim

\* Until it is recorded, the guest that is prepared is the only one.
LEMMA OnlyStarting ==
  ASSUME BuildIInv, NEW b \in Build, Starting(b)
  PROVE  /\ x86.starting /\ x86.cur = None /\ \A c \in Build : Starting(c) => c = b
         /\ \A m \in Build : box[m].guest => m = b /\ flow[b].at = "record"
  <1>1. x86.starting /\ x86.cur = None /\ \A c \in Build : Starting(c) => c = b
    BY DEF BuildIInv, BoxesOK
  <1>2. \A m \in Build : x86.cur # m
    BY <1>1, BuildFacts
  <1> QED
    BY <1>1, <1>2 DEF BuildIInv, BoxesOK, Starting, At

LEMMA HandoffSpawnStep ==
  ASSUME BuildIInv, NEW b \in Build, HandoffSpawn(b) PROVE BuildIInv'
  <1>1. BuildTypeOK /\ RequestsOK /\ BoxesOK /\ ImagesOK
    BY DEF BuildIInv
  <1>2. flow[b].step = "handoff" /\ flow[b].at = "prepare" /\ UNCHANGED <<ui, main, outcome, native, image>>
    BY DEF HandoffSpawn, At
  <1>3. /\ x86.starting /\ x86.cur = None /\ \A c \in Build : Starting(c) => c = b
        /\ \A m \in Build : ~box[m].guest
    BY <1>2, OnlyStarting DEF Starting
  <1>4. CASE x86' = [x86 EXCEPT !.starting = FALSE] /\ Refused(b) /\ UNCHANGED box
    <2>1. PICK f : Plain(b, f) /\ Waits(b, f)
      BY <1>1, <1>4, RefusedPlain DEF Advances
    <2>2. Turn(b, f) /\ WindowKept
      BY <1>1, <1>2, <2>1, WindowSame DEF Plain, Turn
    <2>3. /\ flow' \in [Build -> Flows] /\ flow'[b] = f /\ \A c \in Build : c # b => flow'[c] = flow[c]
          /\ cancelTask' \in [Task -> Tasks] /\ RequestsOK'
          /\ \A n : Past(n) => Past(n)'
      BY <1>1, <1>2, <2>1, <2>2, TurnOK
    <2>4. x86' \in [cur : Builds, starting : BOOLEAN, cancel : BOOLEAN] /\ x86'.cur = None
      BY <1>1, <1>3, <1>4 DEF BuildTypeOK
    <2>5. BuildTypeOK'
      BY <1>1, <1>2, <1>4, <2>3, <2>4 DEF BuildTypeOK
    <2>6. BoxesOK'
      <3>1. \A c \in Build : ~Starting(c)'
        BY <1>3, <2>1, <2>3 DEF Starting, Plain
      <3> QED
        BY <1>3, <1>4, <2>4, <3>1 DEF BoxesOK
    <2>7. ImagesOK'
      <3>1. \A n : Given(n) => Given(n)'
        BY <1>2, <2>3 DEF Given, Past
      <3>2. \A c \in Build : flow'[c].step = "handoff" /\ flow'[c].at \in {"claim", "prepare"} => c # b
        BY <2>1, <2>3 DEF Plain
      <3> QED
        BY <1>1, <1>2, <1>3, <1>4, <2>3, <3>1, <3>2 DEF ImagesOK
    <2> QED
      BY <2>3, <2>5, <2>6, <2>7 DEF BuildIInv
  <1>5. CASE /\ UNCHANGED x86 /\ Goto(b, "record") /\ UNCHANGED cancelTask
             /\ \E p \in Port : box' = [box EXCEPT ![b] =
                  [state |-> "booting", guest |-> TRUE, port |-> p, holds |-> flow[b].n]]
    <2> DEFINE f == [flow[b] EXCEPT !.at = "record"]
    <2>1. flow[b] \in Flows /\ "record" \in Places /\ flow[b].n \in Builds
      BY <1>1 DEF BuildTypeOK, Places, Flows
    <2>2. f \in Flows /\ f.step = "handoff" /\ f.at = "record"
      BY <1>2, <2>1 DEF Flows
    <2>3. flow' = [flow EXCEPT ![b] = f]
      BY <1>5 DEF Goto
    <2> HIDE DEF f
    <2>4. Turn(b, f) /\ Waits(b, f) /\ WindowKept
      BY <1>1, <1>2, <1>5, <2>2, <2>3, WindowSame DEF Turn, Waits
    <2>5. /\ flow' \in [Build -> Flows] /\ flow'[b] = f /\ \A c \in Build : c # b => flow'[c] = flow[c]
          /\ cancelTask' \in [Task -> Tasks] /\ RequestsOK'
          /\ \A n : Past(n) => Past(n)'
      BY <1>1, <1>2, <2>4, TurnOK
    <2>6. PICK p \in Port : box' = [box EXCEPT ![b] =
                              [state |-> "booting", guest |-> TRUE, port |-> p, holds |-> flow[b].n]]
      BY <1>5
    <2>7. [state |-> "booting", guest |-> TRUE, port |-> p, holds |-> flow[b].n] \in Boxes
      BY <2>1 DEF Boxes, Ports
    <2>8. /\ box' \in [Build -> Boxes] /\ box'[b].holds = flow[b].n
          /\ \A m \in Build : m # b => ~box'[m].guest
      BY <1>1, <1>3, <2>6, <2>7 DEF BuildTypeOK
    <2>9. BuildTypeOK'
      BY <1>1, <1>2, <1>5, <2>5, <2>8 DEF BuildTypeOK
    <2>10. BoxesOK'
      <3>1. \A c \in Build : Starting(c)' => c = b
        BY <1>3, <2>5 DEF Starting
      <3>2. At(b, "handoff", "record")'
        BY <2>2, <2>5 DEF At
      <3> QED
        BY <1>3, <1>5, <2>8, <3>1, <3>2 DEF BoxesOK
    <2>11. ImagesOK'
      <3>1. \A n : Given(n) => Given(n)'
        BY <1>2, <2>5 DEF Given, Past
      <3>2. \A c \in Build : flow'[c].step = "handoff" /\ flow'[c].at \in {"claim", "prepare"} => c # b
        BY <2>2, <2>5
      <3>3. PICK n : n = flow[b].n
        OBVIOUS
      <3>4. Given(n)'
        BY <1>1, <1>2, <3>1, <3>3 DEF ImagesOK
      <3>5. Given(box[b].holds)'
        BY <2>8, <3>3, <3>4 DEF Given, Past, Requested
      <3> QED
        BY <1>1, <1>2, <2>5, <2>8, <3>1, <3>2, <3>5 DEF ImagesOK
    <2> QED
      BY <2>5, <2>9, <2>10, <2>11 DEF BuildIInv
  <1> QED
    BY <1>4, <1>5 DEF HandoffSpawn

LEMMA HandoffEndStep ==
  ASSUME BuildIInv, NEW b \in Build, HandoffEnd(b) PROVE BuildIInv'
  <1>1. BuildTypeOK /\ RequestsOK /\ BoxesOK /\ ImagesOK
    BY DEF BuildIInv
  <1>2. flow[b].step = "handoff" /\ flow[b].at = "record" /\ UNCHANGED <<ui, main, outcome, native, image>>
    BY DEF HandoffEnd, At
  <1>3. /\ \A c \in Build : Starting(c) => c = b
        /\ \A m \in Build : box[m].guest => m = b
    BY <1>2, OnlyStarting DEF Starting
  <1>4. /\ Advances(b) /\ box' \in [Build -> Boxes]
        /\ x86' \in [cur : Builds, starting : BOOLEAN, cancel : BOOLEAN] /\ ~x86'.starting
        /\ \A m \in Build : box'[m].guest => box[m].guest /\ box'[m] = box[m] /\ m = b /\ x86'.cur = b
    <2>1. CASE x86' = [x86 EXCEPT !.starting = FALSE] /\ DropBox(b) /\ Refused(b)
      <3>1. box' \in [Build -> Boxes] /\ \A m \in Build : ~box'[m].guest
        BY <1>1, <1>3, <2>1, BuildFacts DEF BuildTypeOK, DropBox
      <3>2. x86' \in [cur : Builds, starting : BOOLEAN, cancel : BOOLEAN] /\ ~x86'.starting
        BY <1>1, <2>1 DEF BuildTypeOK
      <3> QED
        BY <1>1, <2>1, <3>1, <3>2, RefusedPlain
    <2>2. CASE x86' = [x86 EXCEPT !.starting = FALSE, !.cur = b] /\ UNCHANGED <<cancelTask, box>> /\ Call(b, "awaitx")
      <3>1. "awaitx" \in Steps \ {"start"}
        BY DEF Steps
      <3>2. Advances(b)
        BY <1>1, <2>2, <3>1, CallPlain DEF Advances, Waits
      <3>3. x86' \in [cur : Builds, starting : BOOLEAN, cancel : BOOLEAN] /\ ~x86'.starting /\ x86'.cur = b
        BY <1>1, <2>2 DEF BuildTypeOK, Builds
      <3> QED
        BY <1>1, <1>3, <2>2, <3>2, <3>3 DEF BuildTypeOK
    <2> QED
      BY <2>1, <2>2 DEF HandoffEnd
  <1>5. PICK f : Plain(b, f) /\ Waits(b, f)
    BY <1>4 DEF Advances
  <1>6. Turn(b, f) /\ WindowKept
    BY <1>1, <1>2, <1>5, WindowSame DEF Plain, Turn
  <1>7. /\ flow' \in [Build -> Flows] /\ flow'[b] = f /\ \A c \in Build : c # b => flow'[c] = flow[c]
        /\ cancelTask' \in [Task -> Tasks] /\ RequestsOK'
        /\ \A n : Past(n) => Past(n)'
    BY <1>1, <1>2, <1>5, <1>6, TurnOK
  <1>8. BuildTypeOK'
    BY <1>1, <1>2, <1>4, <1>7 DEF BuildTypeOK
  <1>9. BoxesOK'
    <2>1. \A c \in Build : ~Starting(c)'
      BY <1>3, <1>5, <1>7 DEF Starting, Plain
    <2> QED
      BY <1>4, <2>1 DEF BoxesOK
  <1>10. ImagesOK'
    <2>1. \A n : Given(n) => Given(n)'
      BY <1>2, <1>7 DEF Given, Past
    <2>2. \A c \in Build : flow'[c].step = "handoff" /\ flow'[c].at \in {"claim", "prepare"} => c # b
      BY <1>5, <1>7 DEF Plain
    <2> QED
      BY <1>1, <1>2, <1>4, <1>7, <2>1, <2>2 DEF ImagesOK
  <1> QED
    BY <1>7, <1>8, <1>9, <1>10 DEF BuildIInv

LEMMA CommandStep ==
  ASSUME BuildIInv, NEW b \in Build, Command(b) PROVE BuildIInv'
  <1>1. BuildTypeOK
    BY DEF BuildIInv
  <1>2. CASE StartBegin(b) \/ AwaitBegin(b) \/ AwaitEnd(b) \/ MarkBegin(b) \/ MarkEnd(b)
    BY <1>1, <1>2, StartQuiet, AwaitQuiet, MarkQuiet, QuietStep
  <1>3. CASE ResolveBegin(b) \/ ResolveEnd(b) \/ UserspaceBegin(b) \/ UserspaceBundle(b) \/ UserspaceEnd(b)
               \/ BundleBegin(b) \/ BundleEnd(b)
    BY <1>1, <1>3, ResolveQuiet, UserspaceQuiet, BundleQuiet, QuietStep
  <1>4. CASE AwaitX(b) \/ BuildBegin(b) \/ BuildClaim(b) \/ BuildWork(b) \/ BuildEnd(b)
    BY <1>1, <1>4, AwaitXQuiet, BuildQuiet, QuietStep
  <1>5. CASE ValidateBegin(b) \/ ValidateClaim(b) \/ ValidateWork(b) \/ ValidateEnd(b)
    BY <1>1, <1>5, ValidateQuiet, QuietStep
  <1>6. CASE InstallBegin(b) \/ InstallClaim(b) \/ InstallWork(b) \/ InstallEnd(b)
    BY <1>1, <1>6, InstallQuiet, QuietStep
  <1>7. CASE ExportBegin(b) \/ ExportEnd(b)
    BY <1>1, <1>7, ExportQuiet, QuietStep
  <1>8. CASE StartEnd(b)
    BY <1>8, StartEndStep
  <1>9. CASE HandoffBegin(b) \/ HandoffStop(b) \/ HandoffClaim(b) \/ HandoffSpawn(b) \/ HandoffEnd(b)
    BY <1>9, HandoffBeginStep, HandoffStopStep, HandoffClaimStep, HandoffSpawnStep, HandoffEndStep
  <1> QED
    BY <1>2, <1>3, <1>4, <1>5, <1>6, <1>7, <1>8, <1>9 DEF Command

\* What the window and the workers do between the commands: no build moves.
TasksKept == /\ cancelTask' \in [Task -> Tasks]
             /\ \A c \in Build : cancelTask'[c].on => cancelTask[c].on

LEMMA StillStep ==
  ASSUME BuildIInv, UNCHANGED flow, ImagesKept, BoxesKept, WindowKept, TasksKept PROVE BuildIInv'
  <1>1. BuildTypeOK /\ RequestsOK /\ BoxesOK /\ ImagesOK
    BY DEF BuildIInv
  <1>2. BuildTypeOK'
    BY <1>1 DEF BuildTypeOK, ImagesKept, BoxesKept, WindowKept, TasksKept
  <1>3. RequestsOK'
    BY <1>1 DEF RequestsOK, WindowKept, TasksKept
  <1>4. BoxesOK'
    <2>1. \A c \in Build : Starting(c)' => Starting(c)
      BY DEF Starting
    <2>2. \A c \in Build : At(c, "handoff", "record") => At(c, "handoff", "record")'
      BY DEF At
    <2>3. /\ x86'.starting = x86.starting /\ x86'.cur \in {x86.cur, None}
          /\ \A m \in Build : box'[m].guest => box[m].guest /\ (x86.cur = m => x86'.cur = m)
      BY DEF BoxesKept
    <2> QED
      BY <1>1, <2>1, <2>2, <2>3 DEF BoxesOK
  <1>5. ImagesOK'
    <2>1. \A n : Past(n) => Past(n)'
      BY DEF Past, WindowKept
    <2>2. \A n : Given(n) => Given(n)'
      BY <2>1 DEF Given, Past, ImagesKept
    <2>3. /\ native'.cur \in {native.cur, None}
          /\ \A m \in Build : box'[m].guest => box[m].guest /\ box'[m].holds = box[m].holds
      BY DEF ImagesKept, BoxesKept
    <2> QED
      BY <1>1, <2>1, <2>2, <2>3 DEF ImagesOK
  <1> QED
    BY <1>2, <1>3, <1>4, <1>5 DEF BuildIInv

LEMMA TasksSame == ASSUME BuildTypeOK, UNCHANGED cancelTask PROVE TasksKept
  BY DEF BuildTypeOK, TasksKept

LEMMA CancelStep ==
  ASSUME BuildIInv, Cancel PROVE BuildIInv'
  <1>1. BuildTypeOK
    BY DEF BuildIInv
  <1>2. ImagesKept /\ BoxesKept
    BY <1>1, SameKept DEF Cancel, managers
  <1>3. WindowKept
    BY <1>1 DEF Cancel, WindowKept, BuildTypeOK, Requested
  <1>4. TasksKept
    <2> DEFINE s == StopAll(IF ui.running THEN ui.active ELSE None, "cancelled")
    <2>1. (IF ui.running THEN ui.active ELSE None) \in Builds
      BY <1>1 DEF BuildTypeOK, Builds
    <2>2. s \in Tasks
      BY <2>1 DEF StopAll, Tasks
    <2>3. cancelTask' = [cancelTask EXCEPT ![Click] = s] /\ Click \notin Build /\ Click \in Task /\ Build \subseteq Task
      BY BuildFacts DEF Cancel
    <2> HIDE DEF s
    <2> QED
      BY <1>1, <2>2, <2>3 DEF TasksKept, BuildTypeOK
  <1> QED
    BY <1>2, <1>3, <1>4, StillStep DEF Cancel

LEMMA ConfirmCancelStep ==
  ASSUME BuildIInv, NEW ok \in BOOLEAN, ConfirmCancel(ok) PROVE BuildIInv'
  <1>1. BuildTypeOK
    BY DEF BuildIInv
  <1>2. ImagesKept /\ BoxesKept
    BY <1>1, SameKept DEF ConfirmCancel, Ended, managers
  <1>3. WindowKept
    <2>1. cancelTask[Click].for \in Builds
      BY <1>1, BuildFacts DEF BuildTypeOK, Tasks
    <2>2. CASE Finish("cancelled", cancelTask[Click].for)
      BY <1>1, <2>1, <2>2, FinishKept
    <2>3. CASE ui' = [ui EXCEPT !.cancelling = @ /\ ok] /\ UNCHANGED <<main, outcome>>
      <3>1. (ui.cancelling /\ ok) \in BOOLEAN
        OBVIOUS
      <3>2. ui' \in [running : BOOLEAN, cancelling : BOOLEAN, active : Builds]
        BY <1>1, <2>3, <3>1 DEF BuildTypeOK
      <3> QED
        BY <1>1, <2>3, <3>2 DEF WindowKept, BuildTypeOK, Requested
    <2> QED
      BY <2>2, <2>3 DEF ConfirmCancel
  <1>4. TasksKept
    <2>1. cancelTask' = [cancelTask EXCEPT ![Click] = NoTask] /\ Click \notin Build /\ Build \subseteq Task
      BY BuildFacts DEF ConfirmCancel, Free
    <2> QED
      BY <1>1, <2>1, BuildFacts DEF TasksKept, BuildTypeOK
  <1> QED
    BY <1>2, <1>3, <1>4, StillStep DEF ConfirmCancel

\* The two managers are asked to stop, and asked whether they have.
LEMMA WorkersStep ==
  ASSUME BuildIInv, NEW t \in Task, StopNative(t) \/ StopX86(t) \/ Poll(t) PROVE BuildIInv'
  <1>1. BuildTypeOK /\ UNCHANGED <<flow, ui, main, outcome>>
    BY DEF BuildIInv, StopNative, StopX86, Poll
  <1>2. TasksKept
    <2>1. cancelTask \in [Task -> Tasks] /\ cancelTask[t] \in Tasks /\ Build \subseteq Task
      BY <1>1, BuildFacts DEF BuildTypeOK
    <2>2. PICK r : cancelTask' = [cancelTask EXCEPT ![t] = r] /\ r \in Tasks /\ (r.on => cancelTask[t].on)
      <3>1. ASSUME NEW w, cancelTask' = [cancelTask EXCEPT ![t].todo = @ \ {w}]
            PROVE  \E r : cancelTask' = [cancelTask EXCEPT ![t] = r] /\ r \in Tasks /\ (r.on => cancelTask[t].on)
        <4> DEFINE r == [cancelTask[t] EXCEPT !.todo = @ \ {w}]
        <4>1. r \in Tasks /\ r.on = cancelTask[t].on
          BY <2>1 DEF Tasks
        <4>2. cancelTask' = [cancelTask EXCEPT ![t] = r]
          BY <3>1
        <4> HIDE DEF r
        <4> QED
          BY <4>1, <4>2
      <3>2. ASSUME NEW s \in SUBSET {"native", "x86"}, cancelTask' = [cancelTask EXCEPT ![t].seen = s]
            PROVE  \E r : cancelTask' = [cancelTask EXCEPT ![t] = r] /\ r \in Tasks /\ (r.on => cancelTask[t].on)
        <4> DEFINE r == [cancelTask[t] EXCEPT !.seen = s]
        <4>1. r \in Tasks /\ r.on = cancelTask[t].on
          BY <2>1 DEF Tasks
        <4>2. cancelTask' = [cancelTask EXCEPT ![t] = r]
          BY <3>2
        <4> HIDE DEF r
        <4> QED
          BY <4>1, <4>2
      <3>3. CASE Poll(t)
        <4>1. cancelTask[t].seen \in SUBSET {"native", "x86"}
          BY <2>1 DEF Tasks
        <4>2. \E s \in SUBSET {"native", "x86"} : cancelTask' = [cancelTask EXCEPT ![t].seen = s]
          BY <3>3, <4>1 DEF Poll
        <4> QED
          BY <3>2, <4>2
      <3> QED
        BY <3>1, <3>3 DEF StopNative, StopX86
    <2> QED
      BY <2>1, <2>2 DEF TasksKept
  <1>3. ImagesKept
    <2>1. CASE UNCHANGED <<native, image>>
      BY <1>1, <2>1, SameKept
    <2>2. CASE native' = [native EXCEPT !.cancel = TRUE] /\ UNCHANGED image
      BY <1>1, <2>2 DEF ImagesKept, BuildTypeOK
    <2>3. CASE native' = [native EXCEPT !.cancel = TRUE, !.cur = None] /\ Drop(native.cur)
      BY <1>1, <2>3, BuildFacts DEF Drop, ImagesKept, BuildTypeOK, Builds
    <2> QED
      BY <2>1, <2>2, <2>3 DEF StopNative, StopX86, Poll, managers
  <1>4. BoxesKept
    <2>1. CASE UNCHANGED <<x86, box>>
      BY <1>1, <2>1, SameKept
    <2>2. CASE x86' = [x86 EXCEPT !.cancel = TRUE, !.cur = None] /\ DropBox(x86.cur)
      BY <1>1, <2>2, BuildFacts DEF DropBox, BoxesKept, BuildTypeOK, Builds
    <2>3. CASE x86' = [x86 EXCEPT !.cancel = TRUE, !.cur = None] /\ UNCHANGED box /\ ~OpenX
      BY <1>1, <2>3, BuildFacts DEF OpenX, BoxesKept, BuildTypeOK, Builds
    <2> QED
      BY <2>1, <2>2, <2>3 DEF StopNative, StopX86, Poll, managers
  <1> QED
    BY <1>1, <1>2, <1>3, <1>4, StillStep, WindowSame

LEMMA GuestDiesStep ==
  ASSUME BuildIInv, GuestDies PROVE BuildIInv'
  <1>1. BuildTypeOK /\ UNCHANGED <<flow, ui, cancelTask, main, outcome, native, x86>>
    BY DEF BuildIInv, GuestDies, windowVars
  <1>2. CASE UNCHANGED box /\ \E b \in Build : image' = [image EXCEPT ![b].guest = FALSE]
    <2>1. PICK b \in Build : image' = [image EXCEPT ![b] = [image[b] EXCEPT !.guest = FALSE]]
      BY <1>2
    <2>0. image[b] \in Sessions
      BY <1>1 DEF BuildTypeOK
    <2>2. [image[b] EXCEPT !.guest = FALSE] \in Sessions /\ [image[b] EXCEPT !.guest = FALSE].guest = FALSE
      BY <2>0 DEF Sessions
    <2>3. ImagesKept
      BY <1>1, <2>1, <2>2 DEF ImagesKept, BuildTypeOK
    <2> QED
      BY <1>1, <1>2, <2>3, SameKept, StillStep, WindowSame, TasksSame
  <1>3. CASE UNCHANGED image /\ \E b \in Build : box' = [box EXCEPT ![b].guest = FALSE]
    <2>1. PICK b \in Build : box' = [box EXCEPT ![b] = [box[b] EXCEPT !.guest = FALSE]]
      BY <1>3
    <2>2. [box[b] EXCEPT !.guest = FALSE] \in Boxes /\ [box[b] EXCEPT !.guest = FALSE].guest = FALSE
      BY <1>1 DEF BuildTypeOK, Boxes
    <2>3. BoxesKept
      BY <1>1, <2>1, <2>2 DEF BoxesKept, BuildTypeOK
    <2> QED
      BY <1>1, <1>3, <2>3, SameKept, StillStep, WindowSame, TasksSame
  <1> QED
    BY <1>2, <1>3 DEF GuestDies

\* A build is requested: it was not before.
LEMMA RequestStep ==
  ASSUME BuildIInv, NEW b \in Build, Request(b) PROVE BuildIInv'
  <1>1. BuildTypeOK /\ RequestsOK /\ BoxesOK /\ ImagesOK
    BY DEF BuildIInv
  <1>2. /\ main = None /\ main' = b /\ outcome[b] = <<>>
        /\ UNCHANGED <<cancelTask, outcome, native, image, x86, box>>
    <2>1. \A c \in Build : c < b <=> outcome[c] # <<>>
      BY DEF Request
    <2>2. ~(b < b)
      BY BuildFacts
    <2> QED
      BY <2>1, <2>2 DEF Request, managers
  <1>3. ~Requested(b) /\ flow[b].step = "none" /\ Requested(b)'
    BY <1>1, <1>2, BuildFacts DEF RequestsOK, Requested
  <1>4. \A c \in Build : Requested(c) => c # b /\ Requested(c)'
    BY <1>2, <1>3, BuildFacts DEF Requested
  <1>5. /\ flow' \in [Build -> Flows] /\ \A c \in Build : c # b => flow'[c] = flow[c]
        /\ flow'[b].step \in {"none", "start"}
        /\ ui' \in [running : BOOLEAN, cancelling : BOOLEAN, active : Builds]
    <2>1. CASE UNCHANGED <<flow, ui>>
      BY <1>1, <1>3, <2>1 DEF BuildTypeOK
    <2>2. CASE ui' = [running |-> TRUE, cancelling |-> FALSE, active |-> b] /\ Call(b, "start")
      <3> DEFINE f == [NoFlow EXCEPT !.step = "start", !.at = "call", !.local = flow[b].local]
      <3>1. flow[b].local \in BOOLEAN
        BY <1>1 DEF BuildTypeOK, Flows
      <3>2. f \in Flows /\ f.step = "start"
        BY <3>1, BuildFacts DEF Flows, Steps, Places
      <3>3. (flow[b].local /\ "start" # "cleanup") = flow[b].local
        BY <3>1
      <3>4. flow' = [flow EXCEPT ![b] = f]
        BY <2>2, <3>3 DEF Call
      <3> HIDE DEF f
      <3> QED
        BY <1>1, <2>2, <3>2, <3>4 DEF BuildTypeOK, Builds
    <2> QED
      BY <2>1, <2>2 DEF Request
  <1>6. BuildTypeOK'
    BY <1>1, <1>2, <1>5 DEF BuildTypeOK, Builds
  <1>7. RequestsOK'
    BY <1>1, <1>2, <1>3, <1>4, <1>5 DEF RequestsOK
  <1>8. BoxesOK'
    <2>1. \A c \in Build : Starting(c)' => Starting(c)
      BY <1>5 DEF Starting
    <2>2. \A c \in Build : At(c, "handoff", "record") => At(c, "handoff", "record")'
      BY <1>3, <1>5 DEF At
    <2> QED
      BY <1>1, <1>2, <2>1, <2>2 DEF BoxesOK
  <1>9. ImagesOK'
    <2>1. \A n : Past(n) => Past(n)'
      BY <1>4, <1>5 DEF Past
    <2>2. \A n : Given(n) => Given(n)'
      BY <1>2, <2>1 DEF Given, Past
    <2>3. \A c \in Build : flow'[c].step = "handoff" => c # b
      BY <1>5
    <2> QED
      BY <1>1, <1>2, <1>5, <2>1, <2>2, <2>3 DEF ImagesOK
  <1> QED
    BY <1>6, <1>7, <1>8, <1>9 DEF BuildIInv

\* A build whose workers have stopped is over, or waits once more.
LEMMA ConfirmEndStep ==
  ASSUME BuildIInv, NEW b \in Build, NEW ok \in BOOLEAN, ConfirmEnd(b, ok) PROVE BuildIInv'
  <1>1. BuildTypeOK /\ RequestsOK /\ BoxesOK /\ ImagesOK
    BY DEF BuildIInv
  <1>2. cancelTask[b].on /\ UNCHANGED <<native, image, x86, box>>
    BY DEF ConfirmEnd, Ended, managers
  <1>3. flow[b].step = "cleanup"
    BY <1>1, <1>2 DEF RequestsOK
  <1>4. WindowKept
    <2>1. cancelTask[b].as \in {"none", "failed", "cancelled"} /\ b \in Builds
      BY <1>1, BuildFacts DEF BuildTypeOK, Tasks, Builds
    <2>2. CASE Finish(cancelTask[b].as, b)
      BY <1>1, <2>1, <2>2, FinishKept
    <2>3. CASE UNCHANGED <<ui, main, outcome>>
      BY <1>1, <2>3, WindowSame
    <2> QED
      BY <2>2, <2>3 DEF ConfirmEnd
  <1>5. PICK f : Plain(b, f) /\ cancelTask' \in [Task -> Tasks]
                 /\ \A c \in Build : cancelTask'[c].on => IF c = b THEN f.step = "cleanup" ELSE cancelTask[c].on
    <2>1. b \in Task /\ Build \subseteq Task /\ cancelTask \in [Task -> Tasks] /\ NoTask \in Tasks /\ NoTask.on = FALSE
      BY <1>1, BuildFacts DEF BuildTypeOK, NoTask
    <2>2. CASE Free(b) /\ Over(b)
      <3>1. PICK f : Plain(b, f)
        BY <2>2, OverPlain
      <3>2. cancelTask' \in [Task -> Tasks] /\ \A c \in Build : cancelTask'[c].on => c # b /\ cancelTask[c].on
        BY <2>1, <2>2 DEF Free
      <3> QED
        BY <3>1, <3>2
    <2>3. CASE Call(b, "cleanup") /\ cancelTask' = [cancelTask EXCEPT ![b] = StopAll(b, "failed")]
      <3>1. "cleanup" \in Steps \ {"start"}
        BY DEF Steps
      <3>2. PICK f : Plain(b, f) /\ f.step = "cleanup"
        BY <1>1, <2>3, <3>1, CallPlain
      <3>3. StopAll(b, "failed") \in Tasks
        BY DEF StopAll, Tasks, Builds
      <3>4. cancelTask' \in [Task -> Tasks] /\ \A c \in Build : c # b => cancelTask'[c] = cancelTask[c]
        BY <2>1, <2>3, <3>3
      <3> QED
        BY <3>2, <3>4
    <2> QED
      BY <2>2, <2>3 DEF ConfirmEnd, Refused
  <1>6. flow' \in [Build -> Flows] /\ flow'[b] = f /\ \A c \in Build : c # b => flow'[c] = flow[c]
    BY <1>1, <1>5 DEF BuildTypeOK, Plain
  <1>7. BuildTypeOK'
    BY <1>1, <1>2, <1>4, <1>5, <1>6 DEF BuildTypeOK, WindowKept
  <1>8. RequestsOK'
    BY <1>1, <1>3, <1>4, <1>5, <1>6 DEF RequestsOK, WindowKept
  <1>9. BoxesOK'
    <2>1. \A c \in Build : Starting(c)' => Starting(c)
      BY <1>5, <1>6 DEF Starting, Plain
    <2>2. \A c \in Build : At(c, "handoff", "record") => At(c, "handoff", "record")'
      BY <1>3, <1>6 DEF At
    <2> QED
      BY <1>1, <1>2, <2>1, <2>2 DEF BoxesOK
  <1>10. ImagesOK'
    <2>1. \A n : Past(n) => Past(n)'
      BY <1>3, <1>4, <1>5, <1>6 DEF Past, Plain, WindowKept
    <2>2. \A n : Given(n) => Given(n)'
      BY <1>2, <2>1 DEF Given, Past
    <2>3. \A c \in Build : flow'[c].step = "handoff" /\ flow'[c].at \in {"claim", "prepare"} => c # b
      BY <1>5, <1>6 DEF Plain
    <2> QED
      BY <1>1, <1>2, <1>6, <2>1, <2>2, <2>3 DEF ImagesOK
  <1> QED
    BY <1>7, <1>8, <1>9, <1>10 DEF BuildIInv

LEMMA BuildStep ==
  ASSUME BuildIInv, [Next]_vars PROVE BuildIInv'
  <1>1. CASE \E b \in Build : Request(b) \/ Command(b)
    BY <1>1, RequestStep, CommandStep
  <1>2. CASE Cancel
    BY <1>2, CancelStep
  <1>3. CASE \E t \in Task : StopNative(t) \/ StopX86(t) \/ Poll(t)
    BY <1>3, WorkersStep
  <1>4. CASE \E ok \in BOOLEAN : ConfirmCancel(ok) \/ \E b \in Build : ConfirmEnd(b, ok)
    BY <1>4, ConfirmCancelStep, ConfirmEndStep
  <1>5. CASE GuestDies
    BY <1>5, GuestDiesStep
  <1>6. CASE UNCHANGED vars
    BY <1>6 DEF vars, BuildIInv, BuildTypeOK, RequestsOK, BoxesOK, ImagesOK, Requested, Starting, At, Past, Given
  <1> QED
    BY <1>1, <1>2, <1>3, <1>4, <1>5, <1>6 DEF Next

LEMMA BuildInitOK == ASSUME Init PROVE BuildIInv
  <1>1. BuildTypeOK
    BY BuildFacts DEF Init, BuildTypeOK, Builds, Outcomes
  <1>2. RequestsOK /\ BoxesOK /\ ImagesOK
    BY BuildFacts DEF Init, RequestsOK, BoxesOK, ImagesOK, Starting, NoFlow, NoTask
  <1> QED
    BY <1>1, <1>2 DEF BuildIInv

\* An image that a guest holds is not its build's any more, and at most one
\* guest holds it: there is but one.
LEMMA BuildSafe == ASSUME BuildIInv PROVE OneWriter
  <1>1. BuildTypeOK /\ BoxesOK /\ ImagesOK
    BY DEF BuildIInv
  <1>2. \A m, c \in Build : box[m].guest /\ box[c].guest => m = c
    <2>1. \A m \in Build : box[m].guest => x86.cur = m \/ (Starting(m) /\ x86.cur = None)
      BY <1>1 DEF BoxesOK, Starting, At
    <2> QED
      BY <1>1, <2>1, BuildFacts DEF BoxesOK
  <1>3. SUFFICES ASSUME NEW n \in Build
                 PROVE  Cardinality(Holders(n)) <= 1 /\ (image[n].guest => Holders(n) = {})
    BY DEF OneWriter
  <1>4. image[n].guest => Holders(n) = {}
    BY <1>1 DEF ImagesOK, Given, Holders
  <1>5. Cardinality(Holders(n)) <= 1
    <2>1. CASE Holders(n) = {}
      BY <2>1, FS_EmptySet
    <2>2. CASE Holders(n) # {}
      <3>1. PICK m : m \in Holders(n)
        BY <2>2
      <3>2. Holders(n) = {m}
        BY <1>2, <3>1 DEF Holders
      <3> QED
        BY <3>2, FS_Singleton
    <2> QED
      BY <2>1, <2>2
  <1> QED
    BY <1>4, <1>5

-----------------------------------------------------------------------------
(***************************************************************************)
(* The writers.                                                            *)
(***************************************************************************)

\* A step of the windows is one of the build, or leaves it as it is; so it is
\* for the USB writer.
LEMMA WindowsBuild == ASSUME [WindowsNext]_windowsVars PROVE [Next]_vars
  BY DEF WindowsNext, windowsVars

LEMMA WindowsUsb == ASSUME [WindowsNext]_windowsVars PROVE [Usb!WinNext]_(Usb!winVars)
  BY DEF WindowsNext, windowsVars, usbVars, Usb!winVars, Usb!disks, Usb!side, Usb!process

\* The invariant of the builds and the two managers they share holds of the
\* application's windows.
THEOREM BuildInvariant == WindowsSpec => []BuildIInv
  <1>1. WindowsInit => BuildIInv
    BY BuildInitOK DEF WindowsInit
  <1>2. BuildIInv /\ [WindowsNext]_windowsVars => BuildIInv'
    BY WindowsBuild, BuildStep
  <1> QED
    BY <1>1, <1>2, PTL DEF WindowsSpec

\* The invariant of the USB writer and its helpers holds of the application's
\* windows.
THEOREM UsbInvariant == WindowsSpec => []UsbIInv
  <1>1. WindowsInit => UsbIInv
    BY UsbInitOK DEF WindowsInit
  <1>2. UsbIInv /\ [WindowsNext]_windowsVars => UsbIInv'
    BY WindowsUsb, UsbStep
  <1> QED
    BY <1>1, <1>2, PTL DEF WindowsSpec

\* A working image has one guest at a time, and a disk is written by the helper
\* of the attempt that was confirmed for it, whatever builds, cancellations,
\* attempts, swaps and faults there are (start_nvidia_install_appliance and
\* stop_session_process of appliance.rs, perform_windows_usb_write and
\* launch_elevated_windows_usb_writer of image.rs).
THEOREM WritersAreKnown == WindowsSpec => []WritersKnown
  <1>1. BuildIInv /\ UsbIInv => WritersKnown
    BY BuildSafe, UsbSafe DEF WritersKnown
  <1> QED
    BY <1>1, BuildInvariant, UsbInvariant, PTL
=============================================================================
