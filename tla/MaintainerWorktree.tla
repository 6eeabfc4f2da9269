------------------------ MODULE MaintainerWorktree ------------------------
(***************************************************************************)
(* The maintainer's worktree of src-tauri/src/nvidia.rs.  Every operation  *)
(* (a local commit, a branch change, a push, a pull request, an inverse    *)
(* commit, a version change) is reviewed first: a sequence of git commands *)
(* reads the worktree and the user is shown what would be done.  When the  *)
(* user confirms, the review is made again, compared with what was shown,  *)
(* and followed by the commands that change something and by those that    *)
(* verify it.                                                              *)
(*                                                                         *)
(* Each git command is a step.  Between any two of them the maintainer may *)
(* edit, stage, commit, amend or switch in an editor that is open on the   *)
(* same worktree, and another maintainer may push.                         *)
(***************************************************************************)
EXTENDS Naturals, Sequences

CONSTANTS MaxContent,\* contents of the tracked file, version.mk
          MaxCommit, \* bound on commits
          MaxCalls,  \* bound on reviews and executions
          MaxEdits   \* bound on the steps of others

Main   == 1
Topic  == 2
Branch == {Main, Topic}
None   == 0
Op     == {"commit", "checkout", "push", "pull", "rollback", "version"}
Contents == 1..MaxContent

VARIABLES
  commits,       \* the commits there are: their parent and content
  ref, cur,      \* [Branch -> its local commit], and the branch of HEAD
  index, work,   \* the staged content, and the one in the worktree
  remote,        \* [Branch -> its commit at origin]
  pulls,         \* the pull requests: the heads and bases they were made with
  job,           \* the command that runs: its operation, step and readings;
                 \* (history) still: since which of them others left HEAD alone
  shown,         \* the review the user was shown last
  done,          \* (history) the last operation that reported success
  calls, edits

localVars == <<ref, cur, index, work>>
budget == <<calls, edits>>
vars == <<commits, localVars, remote, pulls, job, shown, done, budget>>

Idle == [op |-> "none", at |-> "idle", exec |-> FALSE, to |-> None, head |-> None,
         branch |-> None, x |-> None, y |-> <<>>, new |-> None, still |-> {}]

Init ==
  /\ commits = << [parent |-> None, content |-> 1], [parent |-> 1, content |-> 2] >>
  /\ ref = [b \in Branch |-> IF b = Main THEN 1 ELSE 2] /\ cur = Topic
  /\ index = 2 /\ work = 2
  /\ remote \in {r \in [Branch -> 0..2] : r[Main] = 1 /\ r[Topic] # 1} /\ pulls = {}
  /\ job = Idle /\ shown = Idle /\ done = Idle /\ calls = 0 /\ edits = 0

-----------------------------------------------------------------------------
HEAD  == ref[cur]
Clean == index = commits[HEAD].content /\ work = index

\* The commit c and its ancestors: the least set that has c and, with a
\* commit, its parent.
Lineages(cs) == {S \in SUBSET (0..Len(cs)) : \A d \in S \ {None} : cs[d].parent \in S}
Line(cs, c)  == {d \in 0..Len(cs) : \A S \in Lineages(cs) : c \in S => d \in S}
Forward(from, to) == from \in Line(commits, to)

NewCommit(p, t) == /\ Len(commits) < MaxCommit
                   /\ commits' = Append(commits, [parent |-> p, content |-> t])
Newest == Len(commits) + 1

\* The window drops a review with the execution of it.
End == job' = Idle /\ shown' = IF job.exec THEN Idle ELSE shown

Goto(l) == job' = [job EXCEPT !.at = l]
At(ops, l) == job.op \in ops /\ job.at = l
Same == UNCHANGED <<commits, localVars, remote, pulls, shown, done, budget>>

-----------------------------------------------------------------------------
\* Reviews.

\* A review is asked for, or what it showed is confirmed.
Begin ==
  /\ job.op = "none" /\ calls < MaxCalls /\ calls' = calls + 1
  /\ \/ \E o \in Op, t \in Contents :
          /\ o = "checkout" => t \in Branch
          /\ o \notin {"checkout", "version"} => t = 1
          /\ job' = [Idle EXCEPT !.op = o, !.to = t, !.at = "head"]
     \/ /\ shown.op # "none"
        /\ job' = [Idle EXCEPT !.op = shown.op, !.to = shown.to, !.at = "head", !.exec = TRUE]
  /\ UNCHANGED <<commits, localVars, remote, pulls, shown, done, edits>>

\* A command fails, a reading is refused, or the authorization is gone.
Refuse == /\ job.op # "none" /\ End
          /\ UNCHANGED <<commits, localVars, remote, pulls, done, budget>>

\* inspect_authorized_maintainer_worktree: HEAD, the branch and the changes.
ReadHead   == At(Op, "head") /\ Same
              /\ job' = [job EXCEPT !.head = HEAD, !.at = "branch", !.still = {"review"}]
ReadBranch == At(Op, "branch") /\ Same
              /\ job' = [job EXCEPT !.branch = cur, !.at = "status"]
ReadStatus == /\ At(Op, "status") /\ (job.op # "commit" => Clean)
              /\ job.op \in {"push", "pull", "rollback"} => job.branch # Main
              /\ Goto("read") /\ Same

\* What an execution compares with what was shown.
Compared(j) ==
  CASE j.op = "commit"   -> <<j.head, j.x, j.y>>
    [] j.op = "checkout" -> <<j.head, j.x>>
    [] j.op = "push"     -> <<j.head, j.x, j.branch>>
    [] j.op = "pull"     -> <<j.head, j.y, j.branch>>
    [] j.op = "rollback" -> <<j.head, j.branch>>
    [] j.op = "version"  -> <<j.branch, j.head, j.x, j.to>>

\* The review is complete: it is shown, or it is as shown and acted upon.
Reviewed(j) ==
  /\ IF j.exec THEN /\ Compared(j) = Compared(shown)
                    /\ job' = [j EXCEPT !.at = "act"] /\ UNCHANGED shown
     ELSE shown' = [j EXCEPT !.at = "shown", !.still = {}] /\ job' = Idle
  /\ UNCHANGED <<commits, localVars, remote, pulls, done, budget>>

\* The staged paths, then the staged tree, and then the patch that is shown.
ReadPaths == At({"commit"}, "read") /\ index # commits[HEAD].content /\ Goto("tree") /\ Same
ReadTree  == At({"commit"}, "tree") /\ Same /\ job' = [job EXCEPT !.x = index, !.at = "patch"]
ReadPatch == /\ At({"commit"}, "patch") /\ index # commits[HEAD].content
             /\ Reviewed([job EXCEPT !.y = <<commits[HEAD].content, index>>])

ReadTarget == At({"checkout"}, "read") /\ Reviewed([job EXCEPT !.x = ref[job.to]])

\* The branch at origin must be an ancestor of HEAD; for a pull request, HEAD.
ReadRemote ==
  /\ At({"push", "pull"}, "read")
  /\ Forward(remote[job.branch], job.head)
  /\ IF job.op = "push" THEN Reviewed([job EXCEPT !.x = remote[job.branch]])
     ELSE remote[job.branch] = job.head /\ Goto("base") /\ Same

ReadBase == At({"pull"}, "base") /\ Reviewed([job EXCEPT !.y = <<remote[Main]>>])

ReadParent == /\ At({"rollback"}, "read") /\ commits[job.head].parent # None
              /\ Reviewed([job EXCEPT !.x = commits[job.head].parent])

ReadVersion == At({"version"}, "read") /\ work # job.to /\ Reviewed([job EXCEPT !.x = work])

-----------------------------------------------------------------------------
\* Executions.

\* The operation reported success: it is what the user was shown.
Success(n) == /\ End /\ done' = [shown EXCEPT !.new = n, !.still = job.still]
              /\ UNCHANGED <<commits, localVars, remote, pulls, budget>>

\* commit-tree, and update-ref with the old value of HEAD.
CommitTree ==
  /\ At({"commit"}, "act") /\ NewCommit(job.head, job.x)
  /\ job' = [job EXCEPT !.new = Newest, !.at = "attach"]
  /\ UNCHANGED <<localVars, remote, pulls, shown, done, budget>>

\* (mutant) update-ref without the old value.
AttachAnyway ==
  /\ At({"commit"}, "attach")
  /\ ref' = [ref EXCEPT ![cur] = job.new] /\ Goto("made")
  /\ UNCHANGED <<commits, cur, index, work, remote, pulls, shown, done, budget>>

Attach ==
  /\ At({"commit"}, "attach")
  /\ HEAD = job.head
  /\ ref' = [ref EXCEPT ![cur] = job.new] /\ Goto("made")
  /\ UNCHANGED <<commits, cur, index, work, remote, pulls, shown, done, budget>>

Made == At({"commit"}, "made") /\ Success(job.new)

\* git switch takes changes along, or refuses; then three readings verify it.
SwitchTo(b) ==
  /\ cur' = b
  /\ IF Clean THEN index' = commits[ref[b]].content /\ work' = index' ELSE UNCHANGED <<index, work>>

Switch == /\ At({"checkout"}, "act") /\ SwitchTo(job.to) /\ Goto("at branch")
          /\ UNCHANGED <<commits, ref, remote, pulls, shown, done, budget>>
VerifyBranch == At({"checkout"}, "at branch") /\ cur = job.to /\ Goto("at head") /\ Same
VerifyHead   == At({"checkout"}, "at head") /\ HEAD = job.x /\ Goto("at status") /\ Same
VerifyStatus == At({"checkout"}, "at status") /\ Clean /\ Success(None)

\* A normal push: origin takes it if it only moves the branch forward.  It may
\* have been taken although the command failed.
Push == /\ At({"push"}, "act") /\ Forward(remote[job.branch], job.head)
        /\ remote' = [remote EXCEPT ![job.branch] = job.head]
        /\ (Goto("pushed") /\ UNCHANGED shown) \/ End
        /\ UNCHANGED <<commits, localVars, pulls, done, budget>>
VerifyPush == At({"push"}, "pushed") /\ remote[job.branch] = job.head /\ Success(None)

\* The pull request is of what the branches are when it is created.
Create == /\ At({"pull"}, "act") /\ pulls = {}
          /\ pulls' = {<<remote[job.branch], remote[Main]>>}
          /\ (Goto("created") /\ UNCHANGED shown) \/ End
          /\ UNCHANGED <<commits, localVars, remote, done, budget>>
VerifyPull == At({"pull"}, "created") /\ <<job.head, job.y[1]>> \in pulls /\ Success(None)

\* git revert works on the HEAD there is: on another one the result is what a
\* merge makes of it, or a conflict that is left in the worktree.
Revert ==
  /\ At({"rollback"}, "act") /\ index = commits[HEAD].content
  /\ \/ \E t \in Contents :
          /\ HEAD = job.head => t = commits[job.x].content
          /\ work = index /\ NewCommit(HEAD, t)
          /\ ref' = [ref EXCEPT ![cur] = Newest] /\ index' = t /\ work' = t
          /\ job' = [job EXCEPT !.new = Newest, !.at = "reverted"]
          /\ UNCHANGED shown
     \/ /\ HEAD # job.head /\ \E t \in Contents : work' = t
        /\ End /\ UNCHANGED <<commits, ref, index>>
  /\ UNCHANGED <<cur, remote, pulls, done, budget>>

\* HEAD is read twice: for the commit that is reported, and for the tree that
\* is compared with the one of the reviewed parent.
ReadInverse ==
  /\ At({"rollback"}, "reverted") /\ Same
  /\ job' = [job EXCEPT !.new = HEAD, !.at = "reported",
                        !.still = {"commit"} \union (IF "review" \in @ THEN {"inverse"} ELSE {})]

\* (mutant) the tree is not compared.
VerifyNothing == At({"rollback"}, "reported") /\ Success(job.new)

VerifyTree == /\ At({"rollback"}, "reported")
              /\ commits[HEAD].content = commits[job.x].content /\ Success(job.new)

\* The file is checked once more and replaced, and then the worktree verified.
Check   == At({"version"}, "act") /\ work = job.x /\ Goto("replace") /\ Same
Replace == /\ At({"version"}, "replace") /\ work' = job.to /\ Goto("replaced")
           /\ UNCHANGED <<commits, ref, cur, index, remote, pulls, shown, done, budget>>
VerifyFile    == At({"version"}, "replaced") /\ work = job.to /\ Goto("file") /\ Same
VersionHead   == At({"version"}, "file") /\ HEAD = job.head /\ Goto("file head") /\ Same
VersionBranch == At({"version"}, "file head") /\ cur = job.branch /\ Goto("file branch") /\ Same
VerifyVersion == At({"version"}, "file branch") /\ ~Clean /\ Success(None)

-----------------------------------------------------------------------------
\* Others.
Other == edits < MaxEdits /\ edits' = edits + 1 /\ UNCHANGED <<pulls, shown, done, calls>>
Moved == job' = IF HEAD' = HEAD THEN job ELSE [job EXCEPT !.still = @ \ {"review", "commit"}]

Edit  == /\ Other /\ \E t \in Contents : work' = t /\ index' \in {index, t}
         /\ UNCHANGED <<commits, ref, cur, remote, job>>
Commit(amend) ==
  /\ Other
  /\ index # commits[HEAD].content \/ amend
  /\ NewCommit(IF amend THEN commits[HEAD].parent ELSE HEAD, index)
  /\ ref' = [ref EXCEPT ![cur] = Newest] /\ UNCHANGED <<cur, index, work, remote>>
  /\ Moved
SwitchAway ==
  /\ Other /\ \E b \in Branch : SwitchTo(b)
  /\ UNCHANGED <<commits, ref, remote>> /\ Moved
PushElsewhere ==
  /\ Other /\ \E b \in Branch, t \in Contents :
       /\ remote[b] # None /\ NewCommit(remote[b], t)
       /\ remote' = [remote EXCEPT ![b] = Newest]
  /\ UNCHANGED <<localVars, job>>

Review  == Begin \/ Refuse \/ ReadHead \/ ReadBranch \/ ReadStatus \/ ReadPaths \/ ReadTree
           \/ ReadPatch \/ ReadTarget \/ ReadRemote \/ ReadBase \/ ReadParent \/ ReadVersion
Execute == CommitTree \/ Attach \/ Made \/ Switch \/ VerifyBranch \/ VerifyHead \/ VerifyStatus
           \/ Push \/ VerifyPush \/ Create \/ VerifyPull \/ Revert \/ ReadInverse \/ VerifyTree
           \/ Check \/ Replace \/ VerifyFile \/ VersionHead \/ VersionBranch \/ VerifyVersion
Others  == Edit \/ Commit(FALSE) \/ Commit(TRUE) \/ SwitchAway \/ PushElsewhere

Next == Review \/ Execute \/ Others

Spec == Init /\ [][Next]_vars

-----------------------------------------------------------------------------
\* A commit whose creation was reported has the content and the parent the
\* user was shown.  An inverse commit that was reported is that of the shown
\* HEAD if others left HEAD where it was from the review until the commit was
\* read, and has the content before the shown HEAD if they left it from there
\* until its tree was compared: the two readings of HEAD in
\* execute_maintainer_rollback are not bound to one another, nor the revert to
\* the review.
AsShown ==
  /\ done.op = "commit" => commits[done.new] = [parent |-> done.head, content |-> done.x]
  /\ done.op = "rollback" =>
       /\ "inverse" \in done.still =>
            commits[done.new] = [parent |-> done.head, content |-> commits[done.x].content]
       /\ "commit" \in done.still => commits[done.new].content = commits[done.x].content

\* What the application does never takes a commit off a branch, here or at
\* origin, whatever others commit, switch to or push between its steps.
NothingLost == edits' = edits /\ <<ref, remote>>' # <<ref, remote>> => \A b \in Branch :
                 /\ ref[b] \in Line(commits', ref'[b])
                 /\ remote[b] \in Line(commits', remote'[b])
=============================================================================
