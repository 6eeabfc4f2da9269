----------------------- MODULE GenerationChannelProofs -----------------------
(***************************************************************************)
(* Theorems about OwnedChild, for every bound of the pipes and every       *)
(* number of writes and faults, and about GenerationAcquisition, for all   *)
(* documents and signatures that a server may send.                        *)
(***************************************************************************)
EXTENDS GenerationChannel, FiniteSetTheorems, TLAPS

---------------------------------------------------------------------------
(* The verifier child.                                                     *)

Before  == {"idle", "create", "copy", "launch", "spawn"}
Loop    == {"turn", "receive", "again", "wait", "exited", "late"}
Leaving == {"term", "grace", "reap"}
After   == {"drain", "stop", "join", "joinFailed", "cleanup", "rmdir", "done"}

Hows    == {"none", "reads", "eof", "stopped", "failed", "exceeded"}

ChildTypeOK ==
    /\ childPc \in Before \cup {"spawned"} \cup Loop \cup Leaving \cup After
    /\ childCancel \in BOOLEAN /\ early \in BOOLEAN /\ stop \in BOOLEAN
    /\ next \in {"none", "drain", "again", "joinFailed", "cleanup"}
    /\ copy \in [root : {"none", "own", "foreign"}, entry : {"none", "own", "foreign"},
                 bytes : {"none", "pinned", "other"}]
    /\ proc \in [Process -> {"none", "runs", "zombie", "gone"}]
    /\ group \subseteq Process
    /\ reader \in [Pipe -> [got : Nat, how : Hows]]
    /\ chan \in Seq(Pipe) /\ stored \subseteq Pipe

\* A reader that has sent its result, or whose result is stored.
Sent(p) == p \in stored \cup Range(chan)
Quiet   == \A p \in Pipe : reader[p].how = "none"
\* No process of the group is left, and none that is left can fork one.
Stopped == \A q \in group : proc[q] \in {"none", "gone"}

\* The readers start once, and what was sent is final.
ReadersInv ==
    /\ childPc \in Before \cup {"spawned"} => Quiet /\ \A p \in Pipe : ~ Sent(p)
    /\ childPc \in Leaving /\ next = "cleanup" => Quiet
    /\ \A p \in Pipe : Sent(p) => Ended(p)
    /\ childPc \in {"cleanup", "rmdir", "done"} => \A p \in Pipe : Ended(p)

\* The group ends with the first termination, and no second one is begun.
GroupInv ==
    /\ proc["leader"] = "runs" => "leader" \in group
    /\ proc["helper"] # "zombie"
    /\ childPc \in Before => group = {}
    /\ childPc \in Leaving => next # "none"
    /\ childPc = "reap" => \A q \in group : \/ proc[q] \in {"none", "gone"}
                                            \/ q = "leader" /\ proc[q] = "zombie"
    /\ childPc \in After => Stopped
    /\ childPc \in Loop /\ (\E p \in Pipe : Failed(p)) => Stopped

\* What the accepted run rests on: the bytes that were executed, and the flag.
VerdictInv ==
    /\ childPc \in Before \cup {"spawned"} => outcome = "none"
    /\ childPc = "spawned" /\ copy.bytes = "pinned" => ran = "pinned"
    /\ childPc \in Loop => ran = "pinned"
    /\ childPc \in Leaving /\ next = "again" => ran = "pinned"
    /\ childPc = "exited" => proc["leader"] = "gone"
    /\ early => childCancel
    /\ outcome = "ok" => ran = "pinned" /\ ~ early /\ proc["leader"] = "gone"
    /\ childResult # "none" => childPc = "done"
    /\ childResult = "ok" => outcome = "ok" /\ copy.root = "none"

ChildIInv == ChildTypeOK /\ ReadersInv /\ GroupInv /\ VerdictInv

\* What the queue of the readers' results does to its contents.
LEMMA QueueHead ==
    ASSUME NEW s \in Seq(Pipe), s # <<>>
    PROVE  /\ Head(s) \in Pipe /\ Tail(s) \in Seq(Pipe)
           /\ Head(s) \in Range(s) /\ Range(Tail(s)) \subseteq Range(s)
<1>1. Len(s) \in Nat /\ 1 \in DOMAIN s /\ Head(s) = s[1]
  OBVIOUS
<1>2. \A i \in DOMAIN Tail(s) : i + 1 \in DOMAIN s /\ Tail(s)[i] = s[i + 1]
  OBVIOUS
<1> QED
  BY <1>1, <1>2 DEF Range

\* The reports of a pipe are those it had and the new one.
LEMMA QueueAppend ==
    ASSUME NEW s \in Seq(Pipe), NEW p \in Pipe
    PROVE  Append(s, p) \in Seq(Pipe) /\ Range(Append(s, p)) \subseteq Range(s) \cup {p}
<1>1. \A i \in DOMAIN Append(s, p) :
        (i \in DOMAIN s /\ Append(s, p)[i] = s[i]) \/ Append(s, p)[i] = p
  OBVIOUS
<1> QED
  BY <1>1 DEF Range

\* An empty queue reports nothing.
LEMMA QueueEmpty == Range(<<>>) = {}
BY DEF Range

\* A result moves from the queue into the store,
LEMMA ResultStored ==
    ASSUME ChildTypeOK, Receive \/ DrainEvents
    PROVE  /\ chan' \in Seq(Pipe) /\ stored' \subseteq Pipe
           /\ (stored \cup Range(chan))' \subseteq stored \cup Range(chan)
<1>1. chan \in Seq(Pipe) /\ stored \subseteq Pipe
  BY DEF ChildTypeOK
<1>2. \/ chan' = chan /\ stored' = stored
      \/ chan # <<>> /\ chan' = Tail(chan) /\ stored' = stored \cup {Head(chan)}
  BY DEF Receive, DrainEvents
<1>3. CASE chan' = chan /\ stored' = stored
  BY <1>1, <1>3
<1>4. CASE chan # <<>> /\ chan' = Tail(chan) /\ stored' = stored \cup {Head(chan)}
  BY <1>1, <1>4, QueueHead
<1> QED
  BY <1>2, <1>3, <1>4

\* and a reader that ends puts its own there.
LEMMA ResultSent ==
    ASSUME ChildTypeOK, NEW p \in Pipe, Read(p) \/ ReadError(p)
    PROVE  /\ chan' \in Seq(Pipe) /\ reader' \in [Pipe -> [got : Nat, how : Hows]]
           /\ UNCHANGED stored
           /\ \A x \in Pipe \ {p} : reader'[x] = reader[x]
           /\ reader[p].how = "reads" /\ reader'[p].how # "none"
           /\ \/ chan' = chan
              \/ Range(chan') \subseteq Range(chan) \cup {p} /\ reader'[p].how # "reads"
<1>1. chan \in Seq(Pipe) /\ reader \in [Pipe -> [got : Nat, how : Hows]]
  BY DEF ChildTypeOK
<1>2. /\ reader[p].how = "reads" /\ UNCHANGED stored
      /\ \/ chan' = chan /\ reader' = [reader EXCEPT ![p].got = @ + 1]
         \/ /\ chan' = Append(chan, p)
            /\ \E h \in {"eof", "stopped", "exceeded", "failed"} : reader' = [reader EXCEPT ![p].how = h]
  BY DEF Read, ReadError, pipes
<1>3. CASE chan' = chan /\ reader' = [reader EXCEPT ![p].got = @ + 1]
  BY <1>1, <1>2, <1>3 DEF Hows
<1>4. ASSUME NEW h \in {"eof", "stopped", "exceeded", "failed"},
             chan' = Append(chan, p), reader' = [reader EXCEPT ![p].how = h]
      PROVE  /\ reader' \in [Pipe -> [got : Nat, how : Hows]]
             /\ \A x \in Pipe \ {p} : reader'[x] = reader[x]
             /\ reader'[p].how = h /\ h # "none" /\ h # "reads"
  BY <1>1, <1>4 DEF Hows
<1>5. ASSUME NEW h \in {"eof", "stopped", "exceeded", "failed"},
             chan' = Append(chan, p), reader' = [reader EXCEPT ![p].how = h]
      PROVE  /\ chan' \in Seq(Pipe) /\ reader' \in [Pipe -> [got : Nat, how : Hows]]
             /\ \A x \in Pipe \ {p} : reader'[x] = reader[x]
             /\ Range(chan') \subseteq Range(chan) \cup {p}
             /\ reader'[p].how # "none" /\ reader'[p].how # "reads"
  BY <1>1, <1>4, <1>5, QueueAppend
<1> QED
  BY <1>1, <1>2, <1>3, <1>5

\* The invariant holds before the child is started; each part of it is kept
LEMMA ChildInit == Init => ChildIInv
<1> SUFFICES ASSUME Init PROVE ChildIInv
  OBVIOUS
<1> USE DEF Init, Reading, Hows, Before, Loop, Leaving, After, Pipe, Process
<1>1. ChildTypeOK
  <2>1. reader \in [Pipe -> [got : Nat, how : Hows]]
    OBVIOUS
  <2>2. chan \in Seq(Pipe)
    OBVIOUS
  <2>3. copy \in [root : {"none", "own", "foreign"}, entry : {"none", "own", "foreign"},
                  bytes : {"none", "pinned", "other"}]
    OBVIOUS
  <2>4. childCancel \in BOOLEAN /\ early \in BOOLEAN /\ stop \in BOOLEAN
    BY Zenon
  <2>5. proc \in [Process -> {"none", "runs", "zombie", "gone"}]
    OBVIOUS
  <2>6. /\ childPc = "idle" /\ next = "none" /\ group = {} /\ stored = {}
    OBVIOUS
  <2> HIDE DEF Init
  <2> QED
    BY <2>1, <2>2, <2>3, <2>4, <2>5, <2>6 DEF ChildTypeOK
<1>2. ReadersInv
  BY QueueEmpty DEF ReadersInv, Sent, Quiet, Ended
<1>3. GroupInv
  BY DEF GroupInv, Stopped, Failed
<1>4. VerdictInv
  BY DEF VerdictInv
<1> QED
  BY <1>1, <1>2, <1>3, <1>4 DEF ChildIInv

\* by every step: what the variables look like,
LEMMA ChildTypeStep == ChildIInv /\ [Next]_vars => ChildTypeOK'
<1> SUFFICES ASSUME ChildIInv, [Next]_vars PROVE ChildTypeOK'
  OBVIOUS
<1>0. ChildTypeOK
  BY DEF ChildIInv
<1> USE DEF ChildIInv, ChildTypeOK, GroupInv, Hows, Before, Loop, Leaving, After, Pipe, Process,
      world, pipes, supervisor
<1>1. CASE Start
  BY <1>1 DEF Start, Goto, Return
<1>2. CASE MakeRoot
  BY <1>2 DEF MakeRoot, Goto, Return
<1>3. CASE Copy
  BY <1>3 DEF Copy, Goto, Return
<1>4. CASE Launch
  BY <1>4 DEF Launch, Goto, Settle, Bound, Named
<1>5. CASE Spawn
  <2>1. /\ childPc' \in {"spawned", "cleanup"}
        /\ proc' \in [Process -> {"none", "runs", "zombie", "gone"}] /\ group' \subseteq Process
    BY <1>5 DEF Spawn, Goto, Settle
  <2>2. UNCHANGED <<childCancel, early, stop, next, copy, reader, chan, stored>>
    BY <1>5 DEF Spawn
  <2> QED
    BY <2>1, <2>2
<1>6. CASE Attach
  <2>1. /\ childPc' \in {"turn", "term"} /\ next' \in {next, "cleanup", "joinFailed"}
        /\ stop' \in {stop, TRUE}
    BY <1>6 DEF Attach, Goto, Settle, Terminate
  <2>2. reader' \in [Pipe -> [got : Nat, how : Hows]]
    <3>1. \/ reader' = reader
          \/ \E s \in SUBSET Pipe : reader' = [p \in Pipe |-> IF p \in s THEN Reading ELSE reader[p]]
      <4>1. reader' = [p \in Pipe |-> Reading] =>
              reader' = [p \in Pipe |-> IF p \in Pipe THEN Reading ELSE reader[p]]
        OBVIOUS
      <4> QED
        BY <1>6, <4>1 DEF Attach
    <3> QED
      BY <3>1 DEF Reading
  <2>3. UNCHANGED <<childCancel, early, copy, proc, group, chan, stored>>
    BY <1>6 DEF Attach
  <2>4. stop' \in BOOLEAN
    BY <2>1, Zenon
  <2> QED
    BY <2>1, <2>2, <2>3, <2>4
<1>7. CASE Turn
  BY <1>7 DEF Turn, Goto, Settle, Terminate
<1>8. CASE Receive
  <2>1. childPc' \in {"again", "term", "receive"} /\ next' \in {next, "again"}
    BY <1>8 DEF Receive, Goto
  <2>2. UNCHANGED <<childCancel, early, stop, copy, proc, group, reader>>
    BY <1>8 DEF Receive
  <2> QED
    BY <1>8, <2>1, <2>2, ResultStored
<1>9. CASE Again
  BY <1>9 DEF Again, Goto, Settle, Terminate, PipeError
<1>10. CASE Wait
  BY <1>10 DEF Wait, Goto, Settle, Terminate
<1>11. CASE Exited
  BY <1>11 DEF Exited, Settle, Goto, Terminate
<1>12. CASE Late
  BY <1>12 DEF Late, Settle, Goto, Terminate
<1>13. CASE SigTerm
  BY <1>13 DEF SigTerm, Goto, Killed
<1>14. CASE Grace
  BY <1>14 DEF Grace, Goto, Killed, GroupExists
<1>15. CASE Reap
  BY <1>15 DEF Reap, Goto
<1>16. CASE DrainEvents
  <2>1. childPc' \in {"stop", childPc}
    BY <1>16 DEF DrainEvents, Goto
  <2>2. UNCHANGED <<childCancel, early, stop, next, copy, proc, group, reader>>
    BY <1>16 DEF DrainEvents
  <2> QED
    BY <1>16, <2>1, <2>2, ResultStored
<1>17. CASE StopReaders
  BY <1>17 DEF StopReaders, Goto
<1>18. CASE Join
  BY <1>18 DEF Join, Goto, Settle, Ended
<1>19. CASE JoinFailed
  BY <1>19 DEF JoinFailed, Goto, Ended
<1>20. CASE Unlink
  BY <1>20 DEF Unlink, Goto, Return, Named
<1>21. CASE RemoveRoot
  BY <1>21 DEF RemoveRoot, Return, Goto
<1>22. ASSUME NEW p \in Pipe, Read(p) PROVE ChildTypeOK'
  <2>1. UNCHANGED <<childPc, childCancel, early, stop, next, copy, proc, group, stored>>
    BY <1>22 DEF Read
  <2> QED
    BY <1>22, <2>1, ResultSent
<1>23. ASSUME NEW p \in Pipe, ReadError(p) PROVE ChildTypeOK'
  <2>1. UNCHANGED <<childPc, childCancel, early, stop, next, copy, proc, group, stored>>
    BY <1>23 DEF ReadError
  <2> QED
    BY <1>23, <2>1, ResultSent
<1>24. ASSUME NEW p \in Pipe, Write(p) PROVE ChildTypeOK'
  BY <1>24 DEF Write
<1>25. ASSUME NEW q \in Process, Exit(q) PROVE ChildTypeOK'
  BY <1>25 DEF Exit, Killed
<1>26. CASE Fork
  <2>1. /\ proc' = [proc EXCEPT !["helper"] = "runs"] /\ group' = group \cup {"helper"}
        /\ UNCHANGED <<childPc, childCancel, early, stop, next, copy, reader, chan, stored>>
    BY <1>26 DEF Fork
  <2>2. proc' \in [Process -> {"none", "runs", "zombie", "gone"}]
    BY <2>1
  <2> QED
    BY <2>1, <2>2
<1>27. CASE Leave
  <2>1. /\ group' \subseteq group
        /\ UNCHANGED <<childPc, childCancel, early, stop, next, copy, proc, reader, chan, stored>>
    BY <1>27 DEF Leave
  <2> QED
    BY <2>1
<1>28. CASE Cancel
  <2>1. childCancel' \in BOOLEAN /\ early' \in BOOLEAN
    BY <1>28, Zenon DEF Cancel
  <2>2. UNCHANGED <<childPc, stop, next, copy, proc, group, reader, chan, stored>>
    BY <1>28 DEF Cancel
  <2> QED
    BY <2>1, <2>2
<1>29. CASE Clock
  BY <1>29 DEF Clock
<1>30. CASE Tamper
  BY <1>30 DEF Tamper
<1>31. CASE UNCHANGED vars
  BY <1>31 DEF vars
<1> QED
  BY <1>1, <1>2, <1>3, <1>4, <1>5, <1>6, <1>7, <1>8, <1>9, <1>10, <1>11, <1>12, <1>13, <1>14,
     <1>15, <1>16, <1>17, <1>18, <1>19, <1>20, <1>21, <1>22, <1>23, <1>24, <1>25, <1>26, <1>27,
     <1>28, <1>29, <1>30, <1>31 DEF Next, Supervise, Environment

\* how far the readers are, and what they have told,
LEMMA ReadersStep == ChildIInv /\ [Next]_vars => ReadersInv'
<1> SUFFICES ASSUME ChildIInv, [Next]_vars PROVE ReadersInv'
  OBVIOUS
<1> USE DEF ChildIInv, ChildTypeOK, ReadersInv, GroupInv, Sent, Quiet, Ended, Hows, Before, Loop,
      Leaving, After, Pipe, Process, world, pipes, supervisor
<1>1. CASE Start
  BY <1>1 DEF Start, Goto, Return
<1>2. CASE MakeRoot
  BY <1>2 DEF MakeRoot, Goto, Return
<1>3. CASE Copy
  BY <1>3 DEF Copy, Goto, Return
<1>4. CASE Launch
  BY <1>4 DEF Launch, Goto, Settle, Bound, Named
<1>5. CASE Spawn
  BY <1>5 DEF Spawn, Goto, Settle
<1>6. CASE Attach
  BY <1>6 DEF Attach, Goto, Settle, Terminate, Reading, Bound, Named
<1>7. CASE Turn
  BY <1>7 DEF Turn, Goto, Settle, Terminate
<1>8. CASE Receive
  <2>1. UNCHANGED reader
    BY <1>8 DEF Receive
  <2>2. /\ childPc' \in {"again", "term", "receive"}
        /\ childPc' = "term" => next' = "again"
    BY <1>8 DEF Receive, Goto
  <2> QED
    BY <1>8, <2>1, <2>2, ResultStored
<1>9. CASE Again
  BY <1>9 DEF Again, Goto, Settle, Terminate, PipeError
<1>10. CASE Wait
  BY <1>10 DEF Wait, Goto, Settle, Terminate
<1>11. CASE Exited
  BY <1>11 DEF Exited, Settle, Goto, Terminate
<1>12. CASE Late
  BY <1>12 DEF Late, Settle, Goto, Terminate
<1>13. CASE SigTerm
  BY <1>13 DEF SigTerm, Goto, Killed
<1>14. CASE Grace
  BY <1>14 DEF Grace, Goto, Killed, GroupExists
<1>15. CASE Reap
  BY <1>15 DEF Reap, Goto
<1>16. CASE DrainEvents
  <2>1. UNCHANGED reader
    BY <1>16 DEF DrainEvents
  <2>2. childPc' \in {"stop", "drain"} /\ next' = next
    BY <1>16 DEF DrainEvents, Goto
  <2> QED
    BY <1>16, <2>1, <2>2, ResultStored
<1>17. CASE StopReaders
  BY <1>17 DEF StopReaders, Goto
<1>18. CASE Join
  <2>1. /\ \A p \in Pipe : Ended(p)
        /\ childPc' = "cleanup" /\ UNCHANGED reader
    BY <1>18 DEF Join, Goto
  <2> QED
    BY <2>1
<1>19. CASE JoinFailed
  BY <1>19 DEF JoinFailed, Goto, Ended
<1>20. CASE Unlink
  BY <1>20 DEF Unlink, Goto, Return, Named
<1>21. CASE RemoveRoot
  BY <1>21 DEF RemoveRoot, Return, Goto
<1>22. ASSUME NEW p \in Pipe, Read(p) PROVE ReadersInv'
  <2>1. UNCHANGED <<childPc, next>>
    BY <1>22 DEF Read
  <2> QED
    BY <1>22, <2>1, ResultSent
<1>23. ASSUME NEW p \in Pipe, ReadError(p) PROVE ReadersInv'
  <2>1. UNCHANGED <<childPc, next>>
    BY <1>23 DEF ReadError
  <2> QED
    BY <1>23, <2>1, ResultSent
<1>24. ASSUME NEW p \in Pipe, Write(p) PROVE ReadersInv'
  BY <1>24 DEF Write
<1>25. ASSUME NEW q \in Process, Exit(q) PROVE ReadersInv'
  BY <1>25 DEF Exit, Killed
<1>26. CASE Fork
  BY <1>26 DEF Fork
<1>27. CASE Leave
  BY <1>27 DEF Leave
<1>28. CASE Cancel
  BY <1>28 DEF Cancel
<1>29. CASE Clock
  BY <1>29 DEF Clock
<1>30. CASE Tamper
  BY <1>30 DEF Tamper
<1>31. CASE UNCHANGED vars
  BY <1>31 DEF vars
<1> QED
  BY <1>1, <1>2, <1>3, <1>4, <1>5, <1>6, <1>7, <1>8, <1>9, <1>10, <1>11, <1>12, <1>13, <1>14,
     <1>15, <1>16, <1>17, <1>18, <1>19, <1>20, <1>21, <1>22, <1>23, <1>24, <1>25, <1>26, <1>27,
     <1>28, <1>29, <1>30, <1>31 DEF Next, Supervise, Environment

\* A step that leaves the group alone, and no reader fails whose result is stored.
LEMMA GroupFrame ==
    ASSUME ChildIInv, UNCHANGED <<childPc, next, proc, group>>,
           \A p \in Pipe : Failed(p)' => Failed(p)
    PROVE  GroupInv'
BY DEF ChildIInv, GroupInv, Stopped

\* who of the process group is alive at each step of the supervisor,
LEMMA GroupStep == ChildIInv /\ [Next]_vars => GroupInv'
<1> SUFFICES ASSUME ChildIInv, [Next]_vars PROVE GroupInv'
  OBVIOUS
<1> USE DEF ChildIInv, ChildTypeOK, ReadersInv, GroupInv, Stopped, Failed, Ended, Sent, Quiet,
      Hows, Before, Loop, Leaving, After, Pipe, Process, world, pipes, supervisor
<1>1. CASE Start
  BY <1>1 DEF Start, Goto, Return
<1>2. CASE MakeRoot
  BY <1>2 DEF MakeRoot, Goto, Return
<1>3. CASE Copy
  BY <1>3 DEF Copy, Goto, Return
<1>4. CASE Launch
  BY <1>4 DEF Launch, Goto, Settle, Bound, Named
<1>5. CASE Spawn
  BY <1>5 DEF Spawn, Goto, Settle
<1>6. CASE Attach
  BY <1>6 DEF Attach, Goto, Settle, Terminate, Reading, Bound, Named
<1>7. CASE Turn
  <2>1. /\ childPc = "turn" /\ childPc' \in {"term", "receive"}
        /\ childPc' = "term" => next' = "drain"
    BY <1>7 DEF Turn, Goto, Terminate
  <2>2. UNCHANGED <<group, reader, stored>>
    BY <1>7 DEF Turn
  <2>3. UNCHANGED proc
    BY <1>7 DEF Turn
  <2> QED
    BY <2>1, <2>2, <2>3
<1>8. CASE Receive
  <2>1. /\ childPc = "receive" /\ UNCHANGED <<proc, group>>
        /\ childPc' = "term" => next' = "again"
        /\ childPc' \in {"again", "receive", "term"}
    BY <1>8 DEF Receive, Goto
  <2>2. childPc' # "term" => \A p \in Pipe : Failed(p)' => Failed(p)
    BY <1>8 DEF Receive, Goto
  <2> QED
    BY <2>1, <2>2
<1>9. CASE Again
  <2>1. /\ childPc = "again" /\ childPc' \in {"term", "drain", "wait"}
        /\ childPc' = "term" => next' = "drain"
        /\ childPc' = "drain" => \E p \in Pipe : Failed(p)
    BY <1>9 DEF Again, Goto, Terminate
  <2>2. UNCHANGED <<group, reader, stored>>
    BY <1>9 DEF Again
  <2>3. UNCHANGED proc
    BY <1>9 DEF Again
  <2> QED
    BY <2>1, <2>2, <2>3
<1>10. CASE Wait
  <2>1. /\ childPc = "wait" /\ childPc' \in {"exited", "late", "term"}
        /\ childPc' = "term" => next' = "drain"
    BY <1>10 DEF Wait, Goto, Terminate
  <2>2. UNCHANGED <<group, reader, stored>>
    BY <1>10 DEF Wait
  <2>3. \/ UNCHANGED proc
        \/ proc["leader"] = "zombie" /\ proc' = [proc EXCEPT !["leader"] = "gone"]
    BY <1>10 DEF Wait
  <2> QED
    BY <2>1, <2>2, <2>3
<1>11. CASE Exited
  <2>1. /\ childPc = "exited" /\ childPc' \in {"term"}
        /\ childPc' = "term" => next' = "drain"
    BY <1>11 DEF Exited, Goto, Terminate
  <2>2. UNCHANGED <<group, reader, stored>>
    BY <1>11 DEF Exited
  <2>3. UNCHANGED proc
    BY <1>11 DEF Exited
  <2> QED
    BY <2>1, <2>2, <2>3
<1>12. CASE Late
  <2>1. /\ childPc = "late" /\ childPc' \in {"term", "turn"}
        /\ childPc' = "term" => next' = "drain"
    BY <1>12 DEF Late, Goto, Terminate
  <2>2. UNCHANGED <<group, reader, stored>>
    BY <1>12 DEF Late
  <2>3. UNCHANGED proc
    BY <1>12 DEF Late
  <2> QED
    BY <2>1, <2>2, <2>3
<1>13. CASE SigTerm
  <2>1. /\ childPc = "term" /\ childPc' = "grace" /\ UNCHANGED <<next, group>>
        /\ proc' = [q \in Process |-> IF q \in group \ deaf /\ proc[q] = "runs"
                                     THEN IF q = "leader" THEN "zombie" ELSE "gone" ELSE proc[q]]
    BY <1>13 DEF SigTerm, Goto, Killed
  <2> QED
    BY <2>1
<1>14. CASE Grace
  <2>1. /\ childPc' = "reap" /\ UNCHANGED group
        /\ proc' = [q \in Process |-> IF q \in group /\ proc[q] = "runs"
                                     THEN IF q = "leader" THEN "zombie" ELSE "gone" ELSE proc[q]]
    BY <1>14 DEF Grace, Goto, Killed
  <2>2. UNCHANGED next /\ childPc = "grace"
    BY <1>14 DEF Grace
  <2> QED
    BY <2>1, <2>2
<1>15. CASE Reap
  <2>1. /\ childPc = "reap" /\ childPc' = next /\ UNCHANGED group
        /\ proc' = [proc EXCEPT !["leader"] = "gone"]
    BY <1>15 DEF Reap, Goto
  <2>2. Stopped'
    BY <2>1
  <2> QED
    BY <2>1, <2>2
<1>16. CASE DrainEvents
  BY <1>16 DEF DrainEvents, Goto
<1>17. CASE StopReaders
  BY <1>17 DEF StopReaders, Goto
<1>18. CASE Join
  BY <1>18 DEF Join, Goto, Settle, Ended
<1>19. CASE JoinFailed
  BY <1>19 DEF JoinFailed, Goto, Ended
<1>20. CASE Unlink
  BY <1>20 DEF Unlink, Goto, Return, Named
<1>21. CASE RemoveRoot
  BY <1>21 DEF RemoveRoot, Return, Goto
<1>22. ASSUME NEW p \in Pipe, Read(p) PROVE GroupInv'
  <2>1. UNCHANGED <<childPc, next, proc, group>>
    BY <1>22 DEF Read
  <2>2. /\ UNCHANGED stored /\ reader[p].how = "reads"
        /\ \A x \in Pipe \ {p} : reader'[x] = reader[x]
    BY <1>22, ResultSent
  <2>3. p \notin stored
    BY <2>2
  <2>4. \A x \in Pipe : Failed(x)' => Failed(x)
    BY <2>2, <2>3
  <2> QED
    BY <2>1, <2>4, GroupFrame
<1>23. ASSUME NEW p \in Pipe, ReadError(p) PROVE GroupInv'
  <2>1. UNCHANGED <<childPc, next, proc, group>>
    BY <1>23 DEF ReadError
  <2>2. /\ UNCHANGED stored /\ reader[p].how = "reads"
        /\ \A x \in Pipe \ {p} : reader'[x] = reader[x]
    BY <1>23, ResultSent
  <2>3. p \notin stored
    BY <2>2
  <2>4. \A x \in Pipe : Failed(x)' => Failed(x)
    BY <2>2, <2>3
  <2> QED
    BY <2>1, <2>4, GroupFrame
<1>24. ASSUME NEW p \in Pipe, Write(p) PROVE GroupInv'
  BY <1>24, GroupFrame DEF Write
<1>25. ASSUME NEW q \in Process, Exit(q) PROVE GroupInv'
  <2>1. /\ UNCHANGED <<childPc, next, group, reader, stored>> /\ proc[q] = "runs"
        /\ proc' = [x \in Process |-> IF x = q THEN IF x = "leader" THEN "zombie" ELSE "gone" ELSE proc[x]]
    BY <1>25 DEF Exit, Killed
  <2> QED
    BY <2>1
<1>26. CASE Fork
  BY <1>26 DEF Fork
<1>27. CASE Leave
  BY <1>27 DEF Leave
<1>28. CASE Cancel
  BY <1>28, GroupFrame DEF Cancel
<1>29. CASE Clock
  BY <1>29, GroupFrame DEF Clock
<1>30. CASE Tamper
  BY <1>30, GroupFrame DEF Tamper
<1>31. CASE UNCHANGED vars
  BY <1>31 DEF vars
<1> QED
  BY <1>1, <1>2, <1>3, <1>4, <1>5, <1>6, <1>7, <1>8, <1>9, <1>10, <1>11, <1>12, <1>13, <1>14,
     <1>15, <1>16, <1>17, <1>18, <1>19, <1>20, <1>21, <1>22, <1>23, <1>24, <1>25, <1>26, <1>27,
     <1>28, <1>29, <1>30, <1>31 DEF Next, Supervise, Environment

\* and what an accepted verdict has observed.
LEMMA VerdictStep == ChildIInv /\ [Next]_vars => VerdictInv'
<1> SUFFICES ASSUME ChildIInv, [Next]_vars PROVE VerdictInv'
  OBVIOUS
<1> USE DEF ChildIInv, ChildTypeOK, GroupInv, VerdictInv, Hows, Before, Loop, Leaving, After,
      Pipe, Process, world, pipes, supervisor
<1>1. CASE Start
  BY <1>1 DEF Start, Goto, Return
<1>2. CASE MakeRoot
  BY <1>2 DEF MakeRoot, Goto, Return
<1>3. CASE Copy
  BY <1>3 DEF Copy, Goto, Return
<1>4. CASE Launch
  BY <1>4 DEF Launch, Goto, Settle, Bound, Named
<1>5. CASE Spawn
  BY <1>5 DEF Spawn, Goto, Settle
<1>6. CASE Attach
  BY <1>6 DEF Attach, Goto, Settle, Terminate, Reading, Bound, Named
<1>7. CASE Turn
  BY <1>7 DEF Turn, Goto, Settle, Terminate
<1>8. CASE Receive
  BY <1>8 DEF Receive, Goto
<1>9. CASE Again
  BY <1>9 DEF Again, Goto, Settle, Terminate, PipeError
<1>10. CASE Wait
  BY <1>10 DEF Wait, Goto, Settle, Terminate
<1>11. CASE Exited
  BY <1>11 DEF Exited, Settle, Goto, Terminate
<1>12. CASE Late
  BY <1>12 DEF Late, Settle, Goto, Terminate
<1>13. CASE SigTerm
  BY <1>13 DEF SigTerm, Goto, Killed
<1>14. CASE Grace
  BY <1>14 DEF Grace, Goto, Killed, GroupExists
<1>15. CASE Reap
  BY <1>15 DEF Reap, Goto
<1>16. CASE DrainEvents
  BY <1>16 DEF DrainEvents, Goto
<1>17. CASE StopReaders
  BY <1>17 DEF StopReaders, Goto
<1>18. CASE Join
  BY <1>18 DEF Join, Goto, Settle, Ended
<1>19. CASE JoinFailed
  BY <1>19 DEF JoinFailed, Goto, Ended
<1>20. CASE Unlink
  BY <1>20 DEF Unlink, Goto, Return, Named
<1>21. CASE RemoveRoot
  BY <1>21 DEF RemoveRoot, Return, Goto
<1>22. ASSUME NEW p \in Pipe, Read(p) PROVE VerdictInv'
  BY <1>22 DEF Read
<1>23. ASSUME NEW p \in Pipe, ReadError(p) PROVE VerdictInv'
  BY <1>23 DEF ReadError
<1>24. ASSUME NEW p \in Pipe, Write(p) PROVE VerdictInv'
  BY <1>24 DEF Write
<1>25. ASSUME NEW q \in Process, Exit(q) PROVE VerdictInv'
  BY <1>25 DEF Exit, Killed
<1>26. CASE Fork
  BY <1>26 DEF Fork
<1>27. CASE Leave
  BY <1>27 DEF Leave
<1>28. CASE Cancel
  BY <1>28 DEF Cancel
<1>29. CASE Clock
  BY <1>29 DEF Clock
<1>30. CASE Tamper
  BY <1>30 DEF Tamper
<1>31. CASE UNCHANGED vars
  BY <1>31 DEF vars
<1> QED
  BY <1>1, <1>2, <1>3, <1>4, <1>5, <1>6, <1>7, <1>8, <1>9, <1>10, <1>11, <1>12, <1>13, <1>14,
     <1>15, <1>16, <1>17, <1>18, <1>19, <1>20, <1>21, <1>22, <1>23, <1>24, <1>25, <1>26, <1>27,
     <1>28, <1>29, <1>30, <1>31 DEF Next, Supervise, Environment

\* The supervisor, its readers, its watcher and the child's group agree at every
\* step.
THEOREM ChildInvariant == Spec => []ChildIInv
<1>1. ChildIInv /\ [Next]_vars => ChildIInv'
  BY ChildTypeStep, ReadersStep, GroupStep, VerdictStep DEF ChildIInv
<1> QED
  BY ChildInit, <1>1, PTL DEF Spec

\* An accepted verdict comes from the pinned bytes, after the private copy has
\* gone, and not from a run that was cancelled while the verifier ran.
THEOREM AcceptedVerdictSound == Spec => []VerdictSound
<1>1. ChildIInv => VerdictSound
  BY DEF ChildIInv, VerdictInv, VerdictSound
<1> QED
  BY ChildInvariant, <1>1, PTL

\* A run that has returned leaves no process of the group and no reader.
THEOREM ChildLeavesNothing == Spec => []NothingLeftBehind
<1>1. ChildIInv => NothingLeftBehind
  BY DEF ChildIInv, ReadersInv, GroupInv, VerdictInv, Stopped, After, NothingLeftBehind
<1> QED
  BY ChildInvariant, <1>1, PTL


---------------------------------------------------------------------------
(* The acquisition.                                                        *)

AcquirePcs == {"discovery", "discovery.sig", "authenticate", "manifest", "manifest.sig",
               "authenticate.manifest", "plan", "admit", "stage", "stream", "commit", "done"}
FromManifest    == AcquirePcs \ {"discovery", "discovery.sig", "authenticate", "done"}
FromManifestSig == FromManifest \ {"manifest"}
FromPlan        == {"plan", "admit", "stage", "stream", "commit"}
FromAdmit       == FromPlan \ {"plan"}
WithCandidate   == FromAdmit \ {"admit"}

Fetched == [discovery : Discoveries \cup {Absent}, discoverySig : Signatures \cup {Absent},
            manifest : Manifests \cup {Absent}, manifestSig : Signatures \cup {Absent}]

AcquireTypeOK ==
    /\ pc \in AcquirePcs
    /\ got \in Fetched
    /\ cand \in {"none", "open", "aborted", "committed"}

\* What each stage has established about the documents g.
DiscoverySigned(g) ==
    /\ Verdict(g.discovery, g.discoverySig) = "accepted"
    /\ DiscoveryValid(g.discovery) /\ g.discovery.authority = Policy
PairSigned(g) ==
    Verdict(g.manifest, g.manifestSig) = "accepted" /\ PairValid(g.discovery, g.manifest)
Admissible(g) ==
    ExactTarget(g.discovery, g.manifest, Target) /\ ~ InventoryCollides(g.manifest)

AcquireIInv ==
    /\ AcquireTypeOK
    /\ pc \in FromManifest \/ cand = "committed" => DiscoverySigned(got)
    /\ pc \in FromManifestSig \/ cand = "committed" => got.manifest \in Manifests
    /\ pc \in FromPlan \/ cand = "committed" => PairSigned(got)
    /\ pc \in FromAdmit \/ cand = "committed" => Admissible(got)
    /\ cand # "none" => pc \in WithCandidate \cup {"done"}
    /\ cand = "committed" => pc = "done" /\ dir = Expected(got.manifest)
    /\ FailureLeavesNothing

\* A step that ends the call, without a commit.
LEMMA AcquireEnds ==
    ASSUME AcquireIInv, pc # "done", pc' = "done", UNCHANGED got,
           \/ cand' = "aborted"
           \/ UNCHANGED cand /\ (cand = "open" => result' \in {"cleanup", "cache", "nospace"})
    PROVE  AcquireIInv'
<1> USE DEF AcquireIInv, AcquireTypeOK, AcquirePcs
<1>1. cand' \in {"none", "open", "aborted"}
  OBVIOUS
<1> QED
  BY <1>1 DEF FromManifest, FromManifestSig, FromPlan, FromAdmit, WithCandidate,
     FailureLeavesNothing

\* A step that moves on with the same documents.
LEMMA AcquireMoves ==
    ASSUME AcquireIInv, pc # "done", UNCHANGED <<got, cand>>, pc' \in AcquirePcs \ {"done"},
           pc' \in FromManifest => DiscoverySigned(got),
           pc' \in FromManifestSig => got.manifest \in Manifests,
           pc' \in FromPlan => PairSigned(got),
           pc' \in FromAdmit => Admissible(got),
           cand # "none" => pc' \in WithCandidate
    PROVE  AcquireIInv'
BY DEF AcquireIInv, AcquireTypeOK, FailureLeavesNothing

\* A fetched document keeps what its request asked for,
LEMMA FetchStep ==
    ASSUME AcquireIInv,
           FetchDiscovery \/ FetchDiscoverySig \/ FetchManifest \/ FetchManifestSig
    PROVE  AcquireIInv'
<1>1. CASE \E r : Refuse(r)
  <2>1. pc \notin WithCandidate \cup {"done"}
    BY DEF FetchDiscovery, FetchDiscoverySig, FetchManifest, FetchManifestSig, Fetch,
           WithCandidate, FromAdmit, FromPlan
  <2> QED
    BY <1>1, <2>1, AcquireEnds DEF Refuse, Fail, AcquireIInv
<1>2. CASE ~ \E r : Refuse(r)
  <2> USE DEF Fetch
  <2>1. CASE FetchDiscovery
    <3>1. /\ pc = "discovery" /\ pc' = "discovery.sig" /\ UNCHANGED <<cand, dir, result>>
          /\ \E d \in Discoveries : got' = [got EXCEPT !.discovery = d]
      BY <1>2, <2>1 DEF FetchDiscovery
    <3> QED
      BY <3>1 DEF AcquireIInv, AcquireTypeOK, Fetched, AcquirePcs, FromManifest, FromManifestSig,
         FromPlan, FromAdmit, WithCandidate, FailureLeavesNothing
  <2>2. CASE FetchDiscoverySig
    <3>1. /\ pc = "discovery.sig" /\ pc' = "authenticate" /\ UNCHANGED <<cand, dir, result>>
          /\ \E d \in Signatures : got' = [got EXCEPT !.discoverySig = d]
      BY <1>2, <2>2 DEF FetchDiscoverySig
    <3> QED
      BY <3>1 DEF AcquireIInv, AcquireTypeOK, Fetched, AcquirePcs, FromManifest, FromManifestSig,
         FromPlan, FromAdmit, WithCandidate, FailureLeavesNothing
  <2>3. CASE FetchManifest
    <3>1. /\ pc = "manifest" /\ pc' = "manifest.sig" /\ UNCHANGED <<cand, dir, result>>
          /\ \E d \in Manifests : got' = [got EXCEPT !.manifest = d]
      BY <1>2, <2>3 DEF FetchManifest
    <3>2. /\ got' \in Fetched /\ got'.manifest \in Manifests
          /\ got'.discovery = got.discovery /\ got'.discoverySig = got.discoverySig
      BY <3>1 DEF AcquireIInv, AcquireTypeOK, Fetched
    <3>3. DiscoverySigned(got')
      BY <3>1, <3>2 DEF AcquireIInv, AcquirePcs, FromManifest, DiscoverySigned
    <3> QED
      BY <3>1, <3>2, <3>3 DEF AcquireIInv, AcquireTypeOK, AcquirePcs, FromManifest, FromManifestSig,
         FromPlan, FromAdmit, WithCandidate, FailureLeavesNothing
  <2>4. CASE FetchManifestSig
    <3>1. /\ pc = "manifest.sig" /\ pc' = "authenticate.manifest" /\ UNCHANGED <<cand, dir, result>>
          /\ \E d \in Signatures : got' = [got EXCEPT !.manifestSig = d]
      BY <1>2, <2>4 DEF FetchManifestSig
    <3>2. /\ got' \in Fetched /\ got'.manifest = got.manifest
          /\ got'.discovery = got.discovery /\ got'.discoverySig = got.discoverySig
      BY <3>1 DEF AcquireIInv, AcquireTypeOK, Fetched
    <3>3. DiscoverySigned(got') /\ got'.manifest \in Manifests
      BY <3>1, <3>2 DEF AcquireIInv, AcquirePcs, FromManifest, FromManifestSig, DiscoverySigned
    <3> QED
      BY <3>1, <3>2, <3>3 DEF AcquireIInv, AcquireTypeOK, AcquirePcs, FromManifest, FromManifestSig,
         FromPlan, FromAdmit, WithCandidate, FailureLeavesNothing
  <2> QED
    BY <2>1, <2>2, <2>3, <2>4
<1> QED
  BY <1>1, <1>2

\* authentication keeps the documents it verified,
LEMMA AuthenticateStep ==
    ASSUME AcquireIInv, AuthenticateDiscovery \/ AuthenticateManifest \/ Plan
    PROVE  AcquireIInv'
<1>1. CASE \E r : Refuse(r)
  <2>1. pc \notin WithCandidate \cup {"done"}
    BY DEF AuthenticateDiscovery, AuthenticateManifest, Authenticate, Plan,
           WithCandidate, FromAdmit, FromPlan
  <2> QED
    BY <1>1, <2>1, AcquireEnds DEF Refuse, Fail, AcquireIInv
<1>2. CASE ~ \E r : Refuse(r)
  <2>1. CASE AuthenticateDiscovery
    <3>1. /\ pc = "authenticate" /\ pc' = "manifest" /\ UNCHANGED <<got, cand>>
          /\ DiscoverySigned(got)
      BY <1>2, <2>1 DEF AuthenticateDiscovery, Authenticate, DiscoverySigned
    <3> QED
      BY <3>1, AcquireMoves DEF AcquireIInv, AcquirePcs, FromManifestSig, FromPlan, FromAdmit,
         WithCandidate
  <2>2. CASE AuthenticateManifest
    <3>1. /\ pc = "authenticate.manifest" /\ pc' = "plan" /\ UNCHANGED <<got, cand>>
          /\ PairSigned(got)
      BY <1>2, <2>2 DEF AuthenticateManifest, Authenticate, PairSigned
    <3> QED
      BY <3>1, AcquireMoves DEF AcquireIInv, AcquirePcs, FromManifest, FromManifestSig, FromPlan,
         FromAdmit, WithCandidate
  <2>3. CASE Plan
    <3>1. /\ pc = "plan" /\ pc' = "admit" /\ UNCHANGED <<got, cand>>
          /\ Admissible(got)
      BY <1>2, <2>3 DEF Plan, Admissible
    <3> QED
      BY <3>1, AcquireMoves DEF AcquireIInv, AcquirePcs, FromManifest, FromManifestSig, FromPlan,
         FromAdmit, WithCandidate
  <2> QED
    BY <2>1, <2>2, <2>3
<1> QED
  BY <1>1, <1>2

\* admission opens a candidate for documents that the target admits,
LEMMA AdmitStep ==
    ASSUME AcquireIInv, Admit
    PROVE  AcquireIInv'
<1>1. pc = "admit" /\ cand = "none" /\ UNCHANGED got
  BY DEF AcquireIInv, Admit, Refuse, WithCandidate, FromAdmit, FromPlan
<1>2. CASE pc' = "done" /\ UNCHANGED cand
  BY <1>1, <1>2, AcquireEnds
<1>3. CASE pc' = "stage" /\ cand' = "open"
  BY <1>1, <1>3 DEF AcquireIInv, AcquireTypeOK, AcquirePcs, FromManifest, FromManifestSig, FromPlan,
     FromAdmit, WithCandidate, FailureLeavesNothing
<1> QED
  BY <1>2, <1>3 DEF Admit, Refuse, Fail

\* staging changes the candidate only,
LEMMA StagingStep ==
    ASSUME AcquireIInv, StageControl \/ OpenPayload \/ Stream \/ LastPoll
    PROVE  AcquireIInv'
<1>1. pc \in {"stage", "stream"} /\ UNCHANGED got
  BY DEF StageControl, OpenPayload, Stream, LastPoll, Abort
<1>2. CASE \E r : Abort(r)
  BY <1>1, <1>2, AcquireEnds DEF Abort, Fail
<1>3. CASE ~ \E r : Abort(r)
  <2>1. pc' \in {"stage", "stream", "commit"} /\ UNCHANGED cand
    <3>1. CASE StageControl
      BY <1>1, <1>3, <3>1 DEF StageControl
    <3>2. CASE OpenPayload
      BY <1>3, <3>2 DEF OpenPayload
    <3>3. CASE Stream
      BY <1>1, <1>3, <3>3 DEF Stream
    <3>4. CASE LastPoll
      BY <1>3, <3>4 DEF LastPoll
    <3> QED
      BY <3>1, <3>2, <3>3, <3>4
  <2> QED
    BY <1>1, <2>1, AcquireMoves DEF AcquireIInv, AcquirePcs, FromManifest, FromManifestSig,
       FromPlan,
       FromAdmit, WithCandidate
<1> QED
  BY <1>2, <1>3

\* and a commit is of a directory with the inventory.
LEMMA CommitStep ==
    ASSUME AcquireIInv, Commit
    PROVE  AcquireIInv'
<1>1. pc = "commit" /\ pc' = "done" /\ UNCHANGED <<got, dir>>
  BY DEF Commit, Fail
<1>2. CASE UNCHANGED cand /\ result' \in {"cache", "nospace"}
  BY <1>1, <1>2, AcquireEnds
<1>3. CASE cand' = "committed" /\ dir = Expected(got.manifest)
  BY <1>1, <1>3 DEF AcquireIInv, AcquireTypeOK, AcquirePcs, FromManifest, FromManifestSig, FromPlan,
     FromAdmit, WithCandidate, FailureLeavesNothing
<1> QED
  BY <1>2, <1>3 DEF Commit, Fail, InventoryVerified

\* At every step of the call the documents are as authentic as the steps before it
\* have made them, and an open candidate has a step that commits or removes it.
THEOREM AcquireInvariant == AcquireSpec => []AcquireIInv
<1>1. AcquireInit => AcquireIInv
  BY DEF AcquireInit, AcquireIInv, AcquireTypeOK, Fetched, AcquirePcs, FromManifest,
     FromManifestSig,
     FromPlan, FromAdmit, WithCandidate, FailureLeavesNothing
<1>2. AcquireIInv /\ [AcquireNext]_acquireVars => AcquireIInv'
  <2> SUFFICES ASSUME AcquireIInv, [AcquireNext]_acquireVars PROVE AcquireIInv'
    OBVIOUS
  <2>1. CASE UNCHANGED <<pc, got, cand, dir, result>>
    BY <2>1 DEF AcquireIInv, AcquireTypeOK, FailureLeavesNothing
  <2>2. CASE CancelAcquisition
    BY <2>1, <2>2 DEF CancelAcquisition
  <2>3. CASE Intrude
    <3>1. pc # "done" /\ cand = "open" /\ UNCHANGED <<pc, got, cand, result>>
      BY <2>3 DEF Intrude
    <3> QED
      BY <3>1, AcquireMoves DEF AcquireIInv, AcquireTypeOK
  <2> QED
    BY <2>1, <2>2, <2>3, FetchStep, AuthenticateStep, AdmitStep, StagingStep, CommitStep
    DEF AcquireNext, acquireVars
<1> QED
  BY <1>1, <1>2, PTL DEF AcquireSpec

\* An acquisition that fails or is cancelled leaves no open candidate, unless
\* it says that the removal, or the commit, failed.
THEOREM AcquisitionLeavesNothing == AcquireSpec => []FailureLeavesNothing
<1>1. AcquireIInv => FailureLeavesNothing
  BY DEF AcquireIInv
<1> QED
  BY AcquireInvariant, <1>1, PTL

---------------------------------------------------------------------------
(* What the checks of the documents give.                                  *)

\* An accepted verdict: one signature, of the primary key, over the document.
LEMMA VerdictAccepted ==
    ASSUME NEW doc, NEW sig, Verdict(doc, sig) = "accepted"
    PROVE  /\ sig.over = doc /\ Cardinality(ValidSigs(sig.lines)) = 1
           /\ \E l \in Range(sig.lines) : l.primary = Primary
<1>1. sig.over = doc /\ StatusAccepted(sig.lines, Primary)
  BY DEF Verdict
<1>2. ValidSigs(sig.lines) # {}
  BY <1>1, FS_EmptySet DEF StatusAccepted
<1>3. PICK i \in ValidSigs(sig.lines) : TRUE
  BY <1>2
<1>4. i \in DOMAIN sig.lines /\ sig.lines[i].primary = Primary
  BY <1>1, <1>3 DEF StatusAccepted, ValidSigs
<1>5. sig.lines[i] \in Range(sig.lines)
  BY <1>4 DEF Range
<1> QED
  BY <1>1, <1>4, <1>5 DEF StatusAccepted

\* Exactly one lock of the target is one at least.
LEMMA TargetNamed ==
    ASSUME NEW d, NEW m, ExactTarget(d, m, Target)
    PROVE  \E l \in Range(m.targets) : l.target = Target
<1> DEFINE I == {i \in DOMAIN m.targets : m.targets[i].target = Target}
<1>1. Cardinality(I) = 1
  BY DEF ExactTarget
<1>2. PICK i \in I : TRUE
  BY <1>1, FS_EmptySet
<1> QED
  BY <1>2 DEF Range

\* The names of the files of a valid manifest differ,
LEMMA NamesDiffer ==
    ASSUME NEW m \in Manifests, FilesValid(m.files),
           NEW i \in DOMAIN m.files, NEW j \in DOMAIN m.files,
           m.files[i].name = m.files[j].name
    PROVE  i = j
<1>1. DOMAIN m.files = 1..Len(m.files) /\ Len(m.files) \in Nat
  BY ManifestAssumption
<1>2. i < j \/ j < i \/ i = j
  BY <1>1
<1> QED
  BY <1>2 DEF FilesValid

\* so the inventory has one entry for each of them, besides the five documents.
LEMMA InventorySize ==
    ASSUME NEW m \in Manifests, FilesValid(m.files), ~ InventoryCollides(m)
    PROVE  Cardinality(InventoryNames(m)) = Len(m.files) + 5
<1> DEFINE n == Len(m.files)
           names == {f.name : f \in Range(m.files)}
           controls == Range(Controls(m.seq))
<1>1. DOMAIN m.files = 1..n /\ n \in Nat
  BY ManifestAssumption
<1>2. names = {m.files[i].name : i \in 1..n}
  BY <1>1 DEF Range
<1>3. IsFiniteSet(1..n) /\ Cardinality(1..n) = n
  BY <1>1, FS_Interval
<1>4. IsFiniteSet(names) /\ Cardinality(names) = n
  <2> DEFINE g == [i \in 1..n |-> m.files[i].name]
  <2>1. g \in Bijection(1..n, names)
    <3>1. g \in [1..n -> names] /\ \A x \in names : \E i \in 1..n : g[i] = x
      BY <1>2
    <3>2. \A i, j \in 1..n : g[i] = g[j] => i = j
      BY <1>1, NamesDiffer
    <3> HIDE DEF g
    <3> QED
      BY <3>1, <3>2 DEF Bijection, Injection, IsInjective, Surjection
  <2> HIDE DEF g
  <2>2. ExistsBijection(1..n, names)
    BY <2>1 DEF ExistsBijection
  <2> HIDE DEF names, n
  <2> QED
    BY <1>3, <2>2, FS_Bijection
<1>5. controls = {DiscoveryFile, DiscoverySig, ManifestFile(m.seq), ManifestSig(m.seq), EvidenceFile}
  <2>1. DOMAIN Controls(m.seq) = 1..5
    BY DEF Controls
  <2>2. controls = {Controls(m.seq)[1], Controls(m.seq)[2], Controls(m.seq)[3], Controls(m.seq)[4],
                    Controls(m.seq)[5]}
    BY <2>1 DEF Range
  <2> QED
    BY <2>2 DEF Controls
<1>6. IsFiniteSet(controls) /\ Cardinality(controls) = 5
  <2> DEFINE A == {} \cup {DiscoveryFile}
             B == A \cup {DiscoverySig}
             C == B \cup {ManifestFile(m.seq)}
             D == C \cup {ManifestSig(m.seq)}
             E == D \cup {EvidenceFile}
  <2>1. /\ DiscoverySig \notin A /\ ManifestFile(m.seq) \notin B
        /\ ManifestSig(m.seq) \notin C /\ EvidenceFile \notin D
    <3>1. /\ DiscoveryFile[1] = "discovery" /\ DiscoverySig[1] = "discovery.sig"
          /\ ManifestFile(m.seq)[1] = "manifest" /\ ManifestSig(m.seq)[1] = "manifest.sig"
          /\ EvidenceFile[1] = "evidence"
      BY DEF DiscoveryFile, DiscoverySig, ManifestFile, ManifestSig, EvidenceFile
    <3> QED
      BY <3>1
  <2>2. IsFiniteSet(A) /\ Cardinality(A) = 1
    BY FS_EmptySet, FS_AddElement
  <2> HIDE DEF A
  <2>3. IsFiniteSet(B) /\ Cardinality(B) = 2
    BY <2>1, <2>2, FS_AddElement
  <2> HIDE DEF B
  <2>4. IsFiniteSet(C) /\ Cardinality(C) = 3
    BY <2>1, <2>3, FS_AddElement
  <2> HIDE DEF C
  <2>5. IsFiniteSet(D) /\ Cardinality(D) = 4
    BY <2>1, <2>4, FS_AddElement
  <2> HIDE DEF D
  <2>6. IsFiniteSet(E) /\ Cardinality(E) = 5
    BY <2>1, <2>5, FS_AddElement
  <2>7. controls = E
    BY <1>5 DEF A, B, C, D
  <2> QED
    BY <2>6, <2>7
<1>7. controls \cap names = {}
  BY DEF InventoryCollides
<1>8. InventoryNames(m) = controls \cup names
  BY DEF InventoryNames
<1> HIDE DEF controls, names
<1>9. Cardinality(controls \cup names) = 5 + n - Cardinality({})
  BY <1>4, <1>6, <1>7, FS_Union
<1> QED
  BY <1>1, <1>8, <1>9, FS_EmptySet


\* The expected directory gives every file of the manifest its size.
LEMMA ExpectedFile ==
    ASSUME NEW m \in Manifests, FilesValid(m.files), ~ InventoryCollides(m),
           NEW f \in Range(m.files)
    PROVE  /\ f.name \in DOMAIN Expected(m)
           /\ Expected(m)[f.name] = [size |-> f.size, good |-> TRUE]
<1>1. PICK i \in DOMAIN m.files : m.files[i] = f
  BY DEF Range
<1>2. f.name \in InventoryNames(m) /\ f.name \notin Range(Controls(m.seq))
  BY DEF InventoryNames, InventoryCollides
<1>3. \A g \in Range(m.files) : g.name = f.name => g = f
  <2> SUFFICES ASSUME NEW j \in DOMAIN m.files, m.files[j].name = f.name PROVE m.files[j] = f
    BY DEF Range
  <2> QED
    BY <1>1, NamesDiffer
<1>4. (CHOOSE g \in Range(m.files) : g.name = f.name) = f
  BY <1>3
<1> QED
  BY <1>2, <1>4 DEF Expected

\* Whatever the server, the verifier or another program does, a committed
\* candidate holds the signed manifest's files, exactly.
THEOREM CommittedGenerationAuthentic == AcquireSpec => []CommittedIsAuthentic
<1>1. AcquireIInv => CommittedIsAuthentic
  <2> SUFFICES ASSUME AcquireIInv, cand = "committed" PROVE CommittedIsAuthentic
    BY DEF CommittedIsAuthentic
  <2> DEFINE d == got.discovery
             m == got.manifest
  <2>1. /\ DiscoverySigned(got) /\ PairSigned(got) /\ Admissible(got)
        /\ m \in Manifests /\ dir = Expected(m)
    BY DEF AcquireIInv
  <2>2. /\ Verdict(d, got.discoverySig) = "accepted" /\ Verdict(m, got.manifestSig) = "accepted"
        /\ d.authority = Policy /\ d.manifest = m /\ FilesValid(m.files)
        /\ ExactTarget(d, m, Target) /\ ~ InventoryCollides(m)
    BY <2>1 DEF DiscoverySigned, PairSigned, Admissible, PairValid, ManifestValid
  <2>3. DOMAIN dir = InventoryNames(m)
    BY <2>1 DEF Expected
  <2>4. Cardinality(DOMAIN dir) = Len(m.files) + 5
    BY <2>1, <2>2, <2>3, InventorySize
  <2>5. \A f \in Range(m.files) : f.name \in DOMAIN dir /\ dir[f.name] = [size |-> f.size, good |-> TRUE]
    BY <2>1, <2>2, ExpectedFile
  <2>6. \E l \in Range(m.targets) : l.target = Target
    BY <2>2, TargetNamed
  <2>7. /\ got.discoverySig.over = d /\ Cardinality(ValidSigs(got.discoverySig.lines)) = 1
        /\ \E l \in Range(got.discoverySig.lines) : l.primary = Primary
    BY <2>2, VerdictAccepted
  <2>8. /\ got.manifestSig.over = m /\ Cardinality(ValidSigs(got.manifestSig.lines)) = 1
        /\ \E l \in Range(got.manifestSig.lines) : l.primary = Primary
    BY <2>2, VerdictAccepted
  <2> QED
    BY <2>2, <2>4, <2>5, <2>6, <2>7, <2>8 DEF CommittedIsAuthentic
<1> QED
  BY AcquireInvariant, <1>1, PTL

\* Whatever way the two end, and in whatever order their steps are taken, nothing
\* is left of them: no open candidate that was not reported, no process and no
\* reader.
THEOREM EndedCallsLeaveNothing == ChannelSpec => []NoResidue
<1>1. ChannelInit => AcquireInit /\ Init
  BY DEF ChannelInit
<1>2. [ChannelNext]_channelVars => [AcquireNext]_acquireVars /\ [Next]_vars
  BY DEF ChannelNext, Acquires, Verifies, channelVars
<1>3. ChannelSpec => AcquireSpec /\ Spec
  BY <1>1, <1>2, PTL DEF ChannelSpec, AcquireSpec, Spec
<1>4. FailureLeavesNothing /\ NothingLeftBehind => NoResidue
  BY DEF NoResidue
<1> QED
  BY <1>3, <1>4, AcquisitionLeavesNothing, ChildLeavesNothing, PTL

=============================================================================
