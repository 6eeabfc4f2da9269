----------------------------- MODULE OwnedChild -----------------------------
(***************************************************************************)
(* The owned verifier child of                                             *)
(* src-tauri/src/core_generation_verifier/owned_child.rs: a pinned         *)
(* executable is copied into a private directory, compared and hashed,     *)
(* run in a process group of its own with two bounded pipes, supervised    *)
(* until it exits, overruns, is cancelled or late, and reaped; then the    *)
(* directory is removed.                                                   *)
(*                                                                         *)
(* Beside the supervisor run the two threads that drain the pipes, the     *)
(* verifier, which may ignore SIGTERM and fork a helper that inherits the  *)
(* pipes and may leave the group, the caller who cancels, and another      *)
(* program of the same user that changes the private copy.  Time is the    *)
(* flag "due": the deadline in force has passed.                           *)
(***************************************************************************)
EXTENDS Naturals, Sequences, FiniteSets

CONSTANTS Limit,      \* chunks that a pipe may yield: stdout_bytes, stderr_bytes
          MaxWrites,  \* bound on the chunks that are written
          MaxFaults   \* bound on read errors and changes of the private copy

Pipe    == {"stdout", "stderr"}
Process == {"leader", "helper"}

VARIABLES
  childPc,     \* where the supervisor is
  childCancel, \* the caller's flag
  due,         \* the deadline in force has passed
  outcome,     \* what the supervised run came to
  next,        \* where terminate_group_and_reap returns to
  childResult, \* what the caller gets
  copy,        \* the private directory: [root, entry, bytes]
  ran,         \* (history) the bytes that were executed
  proc,        \* [Process -> "none", "runs", "zombie" or "gone"]
  group,       \* the processes in the verifier's group
  attached,    \* the processes that hold the pipes
  deaf,        \* the processes that ignore SIGTERM
  pipe,        \* [Pipe -> chunks in it]
  reader,      \* [Pipe -> [got, how]]: the thread that drains it
  chan,        \* the pipes whose readers have sent their result
  stored,      \* the pipes whose results the supervisor has
  stop,        \* stop_readers
  early,       \* (history) cancelled while the verifier still ran
  writes, faults

supervisor == <<childPc, due, outcome, next, childResult>>
world      == <<proc, group, attached, deaf>>
pipes      == <<pipe, reader, chan, stored, stop>>
vars == <<supervisor, childCancel, early, copy, ran, world, pipes, writes, faults>>

-----------------------------------------------------------------------------
Reading == [got |-> 0, how |-> "reads"]
Failed(p) == p \in stored /\ reader[p].how \in {"failed", "exceeded"}

\* process_group_exists: a zombie still counts.
GroupExists == \E q \in group : proc[q] \in {"runs", "zombie"}
\* (mutant) the group is gone when its leader is.
LeaderExists == proc["leader"] = "runs"

\* require_root_entry, require_snapshot_entry: the names lead to the directory
\* and to the file that were made.
Named == copy.root = "own" /\ copy.entry = "own"
\* require_bound: so they do, and the file's size, mode and hash are the pinned.
Bound == Named /\ copy.bytes = "pinned"

Goto(l) == childPc' = l
Settle(o) == outcome' = o
Return(r) == Goto("done") /\ childResult' = r

Init ==
  /\ childPc = "idle" /\ childCancel = FALSE /\ due = FALSE
  /\ outcome = "none" /\ next = "none" /\ childResult = "none"
  /\ copy = [root |-> "none", entry |-> "none", bytes |-> "none"] /\ ran = "none"
  /\ proc = [q \in Process |-> "none"] /\ group = {} /\ attached = {}
  /\ deaf \in {{}, Process}
  /\ pipe = [p \in Pipe |-> 0]
  /\ reader = [p \in Pipe |-> [Reading EXCEPT !.how = "none"]]
  /\ chan = <<>> /\ stored = {} /\ stop = FALSE
  /\ early = FALSE /\ writes = 0 /\ faults = 0

-----------------------------------------------------------------------------
\* run_owned_verifier_child_with_hook: the limits are refused, or it starts.
Start ==
  /\ childPc = "idle"
  /\ IF childCancel THEN Return("cancelled")
     ELSE Goto("create") /\ UNCHANGED childResult
  /\ UNCHANGED <<childCancel, due, outcome, next, early, copy, ran, world, pipes, writes, faults>>

\* create_private_snapshot_root.
MakeRoot ==
  /\ childPc = "create"
  /\ \/ Goto("copy") /\ copy' = [copy EXCEPT !.root = "own"] /\ UNCHANGED childResult
     \/ Return("snapshot") /\ UNCHANGED copy
  /\ UNCHANGED <<childCancel, due, outcome, next, early, ran, world, pipes, writes, faults>>

\* ExecutableSnapshot::create: copy the source exclusively, compare it with
\* itself and with the expected hash; a copy that fails is removed again.
Copy ==
  /\ childPc = "copy"
  /\ \E b \in {"pinned", "other"} :
       IF b = "pinned" /\ copy.root = "own" /\ copy.entry = "none"
       THEN /\ copy' = [copy EXCEPT !.entry = "own", !.bytes = b]
            /\ Goto("launch") /\ UNCHANGED childResult
       ELSE /\ copy' = IF copy.root = "own" /\ copy.entry = "none"
                       THEN [copy EXCEPT !.root = "none"] ELSE copy
            /\ Return("snapshot")
  /\ UNCHANGED <<childCancel, due, outcome, next, early, ran, world, pipes, writes, faults>>

\* run_snapshot_child: the last checks before the process is made.
Launch ==
  /\ childPc = "launch"
  /\ IF childCancel \/ ~ Bound
     THEN /\ Settle(IF childCancel THEN "cancelled" ELSE "snapshot") /\ Goto("cleanup")
     ELSE /\ Goto("spawn") /\ UNCHANGED outcome
  /\ UNCHANGED <<childCancel, due, next, childResult, early, copy, ran, world, pipes, writes, faults>>

\* The descriptor is executed, whatever the name is by now.
Spawn ==
  /\ childPc = "spawn"
  /\ \/ /\ proc' = [proc EXCEPT !["leader"] = "runs"]
        /\ group' = {"leader"} /\ attached' = {"leader"}
        /\ ran' = copy.bytes
        /\ Goto("spawned") /\ UNCHANGED outcome
     \/ /\ Settle("spawn") /\ Goto("cleanup")
        /\ UNCHANGED <<proc, group, attached, ran>>
  /\ UNCHANGED <<childCancel, due, next, childResult, early, copy, deaf, pipes, writes, faults>>

Terminate(o, l) == Settle(o) /\ next' = l /\ Goto("term")

\* (mutant) the copy is not examined after the start.
TrustSpawned ==
  /\ childPc = "spawned"
  /\ reader' = [p \in Pipe |-> Reading]
  /\ due' = FALSE /\ Goto("turn")
  /\ UNCHANGED <<childCancel, outcome, next, childResult, early, copy, ran, world,
                 pipe, chan, stored, stop, writes, faults>>

\* The copy is examined again, and the readers are started; a reader that
\* cannot be started ends the run.
Attach ==
  /\ childPc = "spawned"
  /\ \/ /\ Bound
        /\ reader' = [p \in Pipe |-> Reading]
        /\ due' = FALSE /\ Goto("turn") /\ UNCHANGED <<outcome, next, stop>>
     \/ /\ ~ Bound
        /\ Terminate("snapshot", "cleanup") /\ UNCHANGED <<due, reader, stop>>
     \/ /\ Bound
        /\ \E s \in SUBSET {"stdout"} :
             reader' = [p \in Pipe |-> IF p \in s THEN Reading ELSE reader[p]]
        /\ stop' = TRUE
        /\ Terminate("pipe", "joinFailed") /\ UNCHANGED due
  /\ UNCHANGED <<childCancel, childResult, early, copy, ran, world, pipe, chan, stored, writes, faults>>

-----------------------------------------------------------------------------
\* One turn of the supervisor: the flag first,
Turn ==
  /\ childPc = "turn"
  /\ IF childCancel THEN Terminate("cancelled", "drain")
     ELSE Goto("receive") /\ UNCHANGED <<outcome, next>>
  /\ UNCHANGED <<childCancel, due, childResult, early, copy, ran, world, pipes, writes, faults>>

\* then what the readers sent; a failed one ends the group at once,
Receive ==
  /\ childPc = "receive"
  /\ IF chan = <<>> THEN Goto("again") /\ UNCHANGED <<chan, stored, next>>
     ELSE LET p == Head(chan) IN
          /\ chan' = Tail(chan)
          /\ stored' = stored \union {p}
          /\ IF reader[p].how \in {"failed", "exceeded"}
             THEN Goto("term") /\ next' = "again"
             ELSE Goto("receive") /\ UNCHANGED next
  /\ UNCHANGED <<childCancel, due, outcome, childResult, early, copy, ran, world, pipe, reader,
                 stop, writes, faults>>

PipeError == IF \E p \in Pipe : p \in stored /\ reader[p].how = "failed"
             THEN "pipe"
             ELSE IF Failed("stdout") THEN "stdout" ELSE "stderr"

\* the flag once more, and the failures of the pipes,
Again ==
  /\ childPc = "again"
  /\ IF childCancel THEN Terminate("cancelled", "drain")
     ELSE /\ UNCHANGED next
          /\ IF \E p \in Pipe : Failed(p)
             THEN Settle(PipeError) /\ Goto("drain")
             ELSE Goto("wait") /\ UNCHANGED outcome
  /\ UNCHANGED <<childCancel, due, childResult, early, copy, ran, world, pipes, writes, faults>>

\* then the verifier itself: try_wait reaps it.
Wait ==
  /\ childPc = "wait"
  /\ IF proc["leader"] = "zombie"
     THEN /\ proc' = [proc EXCEPT !["leader"] = "gone"]
          /\ Goto("exited") /\ UNCHANGED <<outcome, next>>
     ELSE /\ UNCHANGED proc
          /\ \/ Goto("late") /\ UNCHANGED <<outcome, next>>
             \/ Terminate("wait", "drain")
  /\ UNCHANGED <<childCancel, due, childResult, early, copy, ran, group, attached, deaf, pipes,
                 writes, faults>>

Exited ==
  /\ childPc = "exited"
  /\ Terminate(IF childCancel THEN "cancelled" ELSE "ok", "drain")
  /\ UNCHANGED <<childCancel, due, childResult, early, copy, ran, world, pipes, writes, faults>>

Late ==
  /\ childPc = "late"
  /\ IF due THEN Terminate(IF childCancel THEN "cancelled" ELSE "timeout", "drain")
     ELSE Goto("turn") /\ UNCHANGED <<outcome, next>>
  /\ UNCHANGED <<childCancel, due, childResult, early, copy, ran, world, pipes, writes, faults>>

-----------------------------------------------------------------------------
\* terminate_group_and_reap.  A signal ends every process of the group that
\* does not ignore it; the verifier stays as a zombie, a helper is reaped by init.
Killed(S) == [q \in Process |-> IF q \in S /\ proc[q] = "runs"
                                THEN IF q = "leader" THEN "zombie" ELSE "gone"
                                ELSE proc[q]]

SigTerm ==
  /\ childPc = "term"
  /\ proc' = Killed(group \ deaf)
  /\ due' = FALSE /\ Goto("grace")
  /\ UNCHANGED <<childCancel, outcome, next, childResult, early, copy, ran, group, attached, deaf,
                 pipes, writes, faults>>

\* (mutant) the wait for the group looks at its leader only.
GraceOfLeader ==
  /\ childPc = "grace"
  /\ ~ LeaderExists \/ due
  /\ proc' = IF LeaderExists THEN Killed(group) ELSE proc
  /\ Goto("reap")
  /\ UNCHANGED <<childCancel, due, outcome, next, childResult, early, copy, ran, group, attached, deaf,
                 pipes, writes, faults>>

Grace ==
  /\ childPc = "grace"
  /\ ~ GroupExists \/ due
  /\ proc' = Killed(group)
  /\ Goto("reap")
  /\ UNCHANGED <<childCancel, due, outcome, next, childResult, early, copy, ran, group, attached, deaf,
                 pipes, writes, faults>>

Reap ==
  /\ childPc = "reap"
  /\ proc["leader"] \in {"zombie", "gone"}
  /\ proc' = [proc EXCEPT !["leader"] = "gone"]
  /\ due' = FALSE /\ Goto(next)
  /\ UNCHANGED <<childCancel, outcome, next, childResult, early, copy, ran, group, attached, deaf,
                 pipes, writes, faults>>

-----------------------------------------------------------------------------
\* After the loop: the results that are still missing, until a grace is over;
DrainEvents ==
  /\ childPc = "drain"
  /\ IF stored = Pipe \/ due THEN Goto("stop") /\ UNCHANGED <<chan, stored>>
     ELSE /\ chan # <<>>
          /\ stored' = stored \union {Head(chan)} /\ chan' = Tail(chan)
          /\ UNCHANGED childPc
  /\ UNCHANGED <<childCancel, due, outcome, next, childResult, early, copy, ran, world, pipe, reader,
                 stop, writes, faults>>

\* (mutant) the readers are joined without being told to stop.
JoinOnly ==
  /\ childPc = "stop"
  /\ Goto("join")
  /\ UNCHANGED <<childCancel, due, outcome, next, childResult, early, copy, ran, world, pipes, writes,
                 faults>>

StopReaders ==
  /\ childPc = "stop"
  /\ stop' = TRUE /\ Goto("join")
  /\ UNCHANGED <<childCancel, due, outcome, next, childResult, early, copy, ran, world, pipe, reader,
                 chan, stored, writes, faults>>

Ended(p) == reader[p].how # "reads"

\* both threads are joined, and an accepted run is judged by their results.
Join ==
  /\ childPc = "join"
  /\ \A p \in Pipe : Ended(p)
  /\ stored' = Pipe /\ chan' = <<>>
  /\ Settle(IF outcome # "ok" THEN outcome
            ELSE IF \E p \in Pipe : reader[p].how = "failed" THEN "pipe"
            ELSE IF reader["stdout"].how = "exceeded" THEN "stdout"
            ELSE IF reader["stderr"].how = "exceeded" THEN "stderr" ELSE "ok")
  /\ Goto("cleanup")
  /\ UNCHANGED <<childCancel, due, next, childResult, early, copy, ran, world, pipe, reader, stop,
                 writes, faults>>

\* A reader could not be started: the other one, if any, is joined.
JoinFailed ==
  /\ childPc = "joinFailed"
  /\ \A p \in Pipe : Ended(p)
  /\ Goto("cleanup")
  /\ UNCHANGED <<childCancel, due, outcome, next, childResult, early, copy, ran, world, pipes, writes,
                 faults>>

\* cleanup_snapshot_root: the copy is removed when the names still are its own.
Unlink ==
  /\ childPc = "cleanup"
  /\ IF Named
     THEN copy' = [copy EXCEPT !.entry = "none"] /\ Goto("rmdir") /\ UNCHANGED childResult
     ELSE Return(IF outcome = "ok" THEN "cleanup" ELSE outcome) /\ UNCHANGED copy
  /\ UNCHANGED <<childCancel, due, outcome, next, early, ran, world, pipes, writes, faults>>

RemoveRoot ==
  /\ childPc = "rmdir"
  /\ IF copy.root = "own" /\ copy.entry = "none"
     THEN copy' = [copy EXCEPT !.root = "none"] /\ Return(outcome)
     ELSE Return(IF outcome = "ok" THEN "cleanup" ELSE outcome) /\ UNCHANGED copy
  /\ UNCHANGED <<childCancel, due, outcome, next, early, ran, world, pipes, writes, faults>>

Supervise ==
  \/ MakeRoot \/ Copy \/ Launch \/ Spawn \/ Attach
  \/ Turn \/ Receive \/ Again \/ Wait \/ Exited \/ Late
  \/ SigTerm \/ Grace \/ Reap
  \/ DrainEvents \/ StopReaders \/ Join \/ JoinFailed \/ Unlink \/ RemoveRoot

-----------------------------------------------------------------------------
\* drain_bounded, one pass: the stop flag first, then a read.
Read(p) ==
  /\ reader[p].how = "reads"
  /\ LET open == \E q \in attached : proc[q] = "runs"
         Ends(h) == /\ reader' = [reader EXCEPT ![p].how = h]
                    /\ chan' = Append(chan, p)
     IN \/ stop /\ Ends("stopped") /\ UNCHANGED pipe
        \/ /\ ~ stop /\ pipe[p] > 0
           /\ pipe' = [pipe EXCEPT ![p] = @ - 1]
           /\ IF reader[p].got = Limit THEN Ends("exceeded")
              ELSE reader' = [reader EXCEPT ![p].got = @ + 1] /\ UNCHANGED chan
        \/ ~ stop /\ pipe[p] = 0 /\ ~ open /\ Ends("eof") /\ UNCHANGED pipe
  /\ UNCHANGED <<supervisor, childCancel, early, copy, ran, world, stored, stop, writes, faults>>

\* The read itself fails.
ReadError(p) ==
  /\ reader[p].how = "reads" /\ ~ stop
  /\ faults < MaxFaults /\ faults' = faults + 1
  /\ reader' = [reader EXCEPT ![p].how = "failed"]
  /\ chan' = Append(chan, p)
  /\ UNCHANGED <<supervisor, childCancel, early, copy, ran, world, pipe, stored, stop, writes>>

Write(p) ==
  /\ \E q \in attached : proc[q] = "runs"
  /\ writes < MaxWrites /\ writes' = writes + 1
  /\ pipe' = [pipe EXCEPT ![p] = @ + 1]
  /\ UNCHANGED <<supervisor, childCancel, early, copy, ran, world, reader, chan, stored, stop, faults>>

Exit(q) ==
  /\ proc[q] = "runs"
  /\ proc' = Killed({q})
  /\ UNCHANGED <<supervisor, childCancel, early, copy, ran, group, attached, deaf, pipes, writes,
                 faults>>

Fork ==
  /\ proc["leader"] = "runs" /\ proc["helper"] = "none"
  /\ proc' = [proc EXCEPT !["helper"] = "runs"]
  /\ group' = group \union {"helper"}
  /\ attached' = attached \union {"helper"}
  /\ UNCHANGED <<supervisor, childCancel, early, copy, ran, deaf, pipes, writes, faults>>

\* The helper starts a session of its own, or closes the pipes.
Leave ==
  /\ proc["helper"] = "runs"
  /\ \/ group' = group \ {"helper"} /\ UNCHANGED attached
     \/ attached' = attached \ {"helper"} /\ UNCHANGED group
  /\ UNCHANGED <<supervisor, childCancel, early, copy, ran, proc, deaf, pipes, writes, faults>>

Cancel ==
  /\ ~ childCancel /\ childCancel' = TRUE
  /\ early' = (proc["leader"] \in {"none", "runs"} /\ childPc # "done")
  /\ UNCHANGED <<supervisor, copy, ran, world, pipes, writes, faults>>

Clock ==
  /\ ~ due /\ childPc \in {"turn", "receive", "again", "wait", "late", "grace", "drain"}
  /\ due' = TRUE
  /\ UNCHANGED <<childPc, outcome, next, childResult, childCancel, early, copy, ran, world, pipes, writes,
                 faults>>

\* Another program of the user rewrites the copy, or puts a file or a
\* directory of its own under a name.
Tamper ==
  /\ faults < MaxFaults /\ faults' = faults + 1
  /\ copy.root = "own"
  /\ \/ copy.entry = "own" /\ copy' = [copy EXCEPT !.bytes = "other"]
     \/ copy' = [copy EXCEPT !.entry = "foreign"]
     \/ copy' = [copy EXCEPT !.root = "foreign"]
  /\ UNCHANGED <<supervisor, childCancel, early, ran, world, pipes, writes>>

Environment == \/ \E p \in Pipe : ReadError(p)
               \/ \E p \in Pipe : Write(p)
               \/ \E q \in Process : Exit(q)
               \/ Fork \/ Leave \/ Cancel \/ Tamper

Next == Start \/ Supervise \/ (\E p \in Pipe : Read(p)) \/ Clock \/ Environment

Spec == Init /\ [][Next]_vars

\* The threads of the application keep running, and deadlines pass.
FairSpec == /\ Spec
            /\ WF_vars(Supervise) /\ WF_vars(Clock)
            /\ \A p \in Pipe : WF_vars(Read(p))

-----------------------------------------------------------------------------
\* "process-group descendant reaping": when a run has returned, no process of
\* the verifier's group is left, not even one that ignores SIGTERM, and both
\* reader threads have ended, even if a helper outside the group holds a pipe.
NothingLeftBehind ==
  childResult # "none" => /\ \A q \in group : proc[q] \in {"none", "gone"}
                          /\ \A p \in Pipe : Ended(p)

\* A verdict is accepted only from the bytes that were pinned, only after the
\* private copy has gone, and never when the run was cancelled while the
\* verifier still ran ("cancellation is the first terminal condition"),
\* whatever it had written, whenever it exits, and however the copy was changed.
VerdictSound ==
  childResult = "ok" => ran = "pinned" /\ copy.root = "none" /\ ~ early

\* A run that has started returns: a verifier that ignores SIGTERM, floods its
\* pipes or leaves a helper behind on them cannot hold the caller for ever.
Returns == childPc = "create" ~> childResult # "none"
=============================================================================
