------------------------ MODULE UsbPreparationProofs ------------------------
(***************************************************************************)
(* Theorems about UsbPreparation, for every set of disks, any number of    *)
(* threads and blocks, and every bound on time, intents and replugs.       *)
(***************************************************************************)
EXTENDS UsbPreparation, FiniteSetTheorems, TLAPS

Places == Disks \cup {None}

Pcs == {"idle", "done", "kept", "removed"} \cup WritePcs \cup RemovalPcs

Ops == [pc : Pcs, kind : {"none", "write", "retry"}, token : Nat, generation : Nat,
        disk : Places, expires : Nat, cancelled : BOOLEAN, plug : Nat, drive : Places,
        next : Nat, late : Nat]

Intents == [token : Nat, expires : Nat, disk : Disks]
Rights  == [token : Nat, disk : Places, expires : Nat, generation : Nat]

\* What the variables the argument rests on look like.
Shapes ==
    /\ now \in Nat /\ issued \in Nat /\ generation \in Nat /\ plug \in Nat
    /\ disk \in Places
    /\ op \in [Workers -> Ops]
    /\ armed = None \/ armed \in Intents
    /\ pending = None \/ pending \in Rights

\* A worker that is busy holds the token and is the one the manager knows.
Holds(w) ==
    /\ activeToken = op[w].token /\ op[w].token # 0
    /\ \/ op[w].kind = "write" /\ activeWrite = w /\ activeRemoval = None
       \/ op[w].kind = "retry" /\ activeRemoval = w /\ activeWrite = None

Owned ==
    /\ \A w \in Workers : Busy(w) => Holds(w)
    /\ activeToken = 0 => activeWrite = None /\ activeRemoval = None

\* What was revoked is neither offered nor pursued without its flag.
Unrevoked ==
    /\ armed # None => armed.token \notin revoked
    /\ pending # None => pending.token \notin revoked
    /\ \A w \in Workers : Busy(w) /\ ~op[w].cancelled => op[w].token \notin revoked

IInv == Shapes /\ Owned /\ Unrevoked

\* Record r is what worker w may become inside its operation.
Onward(w, r) ==
    /\ r \in Ops
    /\ r.pc # "idle"
    /\ r.token = op[w].token /\ r.kind = op[w].kind /\ r.cancelled = op[w].cancelled

\* A step of worker w inside its operation: it stays busy with the same one.
Continues(w) ==
    /\ Busy(w)
    /\ \E r : Onward(w, r) /\ op' = [op EXCEPT ![w] = r]
    /\ UNCHANGED Kept
    /\ plug' \in Nat /\ disk' \in Places

---------------------------------------------------------------------------
(* The steps of a worker.                                                  *)

(* The positions of a worker.                                              *)
LEMMA Positions ==
    /\ {"idle", "done", "kept", "removed", "validate", "open", "opening", "opened", "copy",
        "put", "verify", "recheck", "locate", "drive", "inspect", "unmount", "unmounting",
        "unmounted", "power", "powering"} \subseteq Pcs
    /\ "idle" \notin WritePcs \cup RemovalPcs
BY DEF Pcs, WritePcs, RemovalPcs

(* A position, the opened device, the drive and the counters of a worker   *)
(* may change without its ceasing to be the same operation.                *)
LEMMA FieldsOnward ==
    ASSUME NEW w, op[w] \in Ops, NEW pc \in Pcs, pc # "idle",
           NEW n \in Nat, NEW l \in Nat, NEW d \in Places
    PROVE  /\ Onward(w, [op[w] EXCEPT !.pc = pc])
           /\ Onward(w, [op[w] EXCEPT !.pc = pc, !.plug = n])
           /\ Onward(w, [op[w] EXCEPT !.pc = pc, !.drive = d])
           /\ Onward(w, [op[w] EXCEPT !.pc = pc, !.next = n])
           /\ Onward(w, [op[w] EXCEPT !.pc = pc, !.late = l])
           /\ Onward(w, [op[w] EXCEPT !.pc = pc, !.next = n, !.late = l])
<1>1. Onward(w, [op[w] EXCEPT !.pc = pc])
  BY DEF Onward, Ops
<1>2. Onward(w, [op[w] EXCEPT !.pc = pc, !.plug = n])
  BY DEF Onward, Ops
<1>3. Onward(w, [op[w] EXCEPT !.pc = pc, !.drive = d])
  BY DEF Onward, Ops
<1>4. Onward(w, [op[w] EXCEPT !.pc = pc, !.next = n])
  BY DEF Onward, Ops
<1>5. Onward(w, [op[w] EXCEPT !.pc = pc, !.late = l])
  BY DEF Onward, Ops
<1>6. Onward(w, [op[w] EXCEPT !.pc = pc, !.next = n, !.late = l])
  BY DEF Onward, Ops
<1> QED BY <1>1, <1>2, <1>3, <1>4, <1>5, <1>6

(* A step that gives worker w an onward record continues its operation.    *)
LEMMA OnwardContinues ==
    ASSUME NEW w, Shapes, NEW r, Onward(w, r), Busy(w), op' = [op EXCEPT ![w] = r],
           UNCHANGED Kept, plug' \in Nat, disk' \in Places
    PROVE  Continues(w)
BY DEF Continues

(* Every step of a write, and of a removal, continues its operation.       *)
LEMMA StepContinues ==
    ASSUME Shapes, NEW w \in Workers, WriteStep(w) \/ RemovalStep(w)
    PROVE  Continues(w)
<1>1. op[w] \in Ops /\ plug \in Nat /\ disk \in Places
  BY DEF Shapes
<1>2. Late(w) \in Nat /\ op[w].next + 1 \in Nat
  BY <1>1 DEF Late, Ops
<1>3. ASSUME NEW pc \in Pcs, pc # "idle", Busy(w), Goto(w, pc), UNCHANGED <<Kept, device>>
      PROVE  Continues(w)
  <2>1. Onward(w, [op[w] EXCEPT !.pc = pc])
    BY <1>1, <1>3, Positions, FieldsOnward
  <2>2. op' = [op EXCEPT ![w] = [op[w] EXCEPT !.pc = pc]]
    BY <1>3 DEF Goto
  <2> QED BY <1>1, <1>3, <2>1, <2>2, OnwardContinues DEF device
<1>4. ASSUME NEW pc \in Pcs, pc # "idle", Busy(w), Did(w, pc), UNCHANGED <<Kept, plug>>,
             disk' \in Places
      PROVE  Continues(w)
  <2>1. Onward(w, [op[w] EXCEPT !.pc = pc, !.late = Late(w)])
    BY <1>1, <1>2, <1>4, Positions, FieldsOnward
  <2>2. op' = [op EXCEPT ![w] = [op[w] EXCEPT !.pc = pc, !.late = Late(w)]]
    BY <1>4 DEF Did
  <2> QED BY <1>1, <1>4, <2>1, <2>2, OnwardContinues
<1>5. CASE Validate(w)
  BY <1>3, Positions, <1>5 DEF Validate, Busy
<1>6. CASE Open(w)
  BY <1>3, Positions, <1>6 DEF Open, Busy
<1>7. CASE OpenDevice(w)
  <2>1. Onward(w, [op[w] EXCEPT !.pc = "opened", !.plug = plug])
    BY <1>1, <1>2, <1>7, Positions, FieldsOnward DEF OpenDevice
  <2>2. op' = [op EXCEPT ![w] = [op[w] EXCEPT !.pc = "opened", !.plug = plug]] /\ Busy(w)
    BY <1>7 DEF OpenDevice, Busy
  <2> QED BY <1>1, <1>7, <2>1, <2>2, OnwardContinues DEF OpenDevice, device
<1>8. CASE Opened(w)
  <2>1. Onward(w, [op[w] EXCEPT !.pc = "copy", !.next = 1])
    BY <1>1, <1>2, <1>8, Positions, FieldsOnward DEF Opened
  <2>2. op' = [op EXCEPT ![w] = [op[w] EXCEPT !.pc = "copy", !.next = 1]] /\ Busy(w)
    BY <1>8 DEF Opened, Busy
  <2> QED BY <1>1, <1>8, <2>1, <2>2, OnwardContinues DEF Opened, device
<1>9. CASE Copy(w)
  <2>1. ASSUME op[w].next > Blocks PROVE Continues(w)
    <3>1. Onward(w, [op[w] EXCEPT !.pc = "verify", !.next = 1])
      BY <1>1, Positions, FieldsOnward
    <3>2. op' = [op EXCEPT ![w] = [op[w] EXCEPT !.pc = "verify", !.next = 1]] /\ Busy(w)
      BY <1>9, <2>1 DEF Copy, Busy
    <3> QED BY <1>1, <1>9, <3>1, <3>2, OnwardContinues DEF Copy, device
  <2>2. ASSUME ~(op[w].next > Blocks) PROVE Continues(w)
    BY <1>3, Positions, <1>9, <2>2 DEF Copy, Busy
  <2> QED BY <2>1, <2>2
<1>10. CASE Put(w)
  <2> DEFINE r == [op[w] EXCEPT !.pc = "copy", !.next = op[w].next + 1, !.late = Late(w)]
  <2>1. Onward(w, r)
    BY <1>1, <1>2, <1>10, Positions, FieldsOnward DEF Put
  <2>2. op' = [op EXCEPT ![w] = r]
    BY <1>10 DEF Put
  <2>3. Busy(w)
    BY <1>10 DEF Put, Busy
  <2> QED BY <1>1, <1>10, <2>1, <2>2, <2>3, OnwardContinues DEF Put
<1>11. CASE Verify(w)
  <2>1. ASSUME op[w].next > Blocks PROVE Continues(w)
    BY <1>3, Positions, <1>11, <2>1 DEF Verify, Busy
  <2>2. ASSUME ~(op[w].next > Blocks) PROVE Continues(w)
    <3>1. op[w].pc # "idle"
      BY <1>11 DEF Verify
    <3>2. Onward(w, [op[w] EXCEPT !.next = op[w].next + 1])
      BY <1>1, <1>2, <3>1 DEF Onward, Ops
    <3>3. op' = [op EXCEPT ![w] = [op[w] EXCEPT !.next = op[w].next + 1]] /\ Busy(w)
      BY <1>11, <2>2 DEF Verify, Busy
    <3> QED BY <1>1, <1>11, <3>2, <3>3, OnwardContinues DEF Verify, device
  <2> QED BY <2>1, <2>2
<1>12. CASE Recheck(w)
  BY <1>3, Positions, <1>12 DEF Recheck, Busy
<1>13. CASE WriteFails(w)
  BY <1>3, Positions, <1>13 DEF WriteFails, Busy
<1>14. CASE Locate(w)
  BY <1>3, Positions, <1>14 DEF Locate, Busy
<1>15. CASE ReadDrive(w)
  <2>1. Onward(w, [op[w] EXCEPT !.pc = "inspect", !.drive = disk])
    BY <1>1, <1>2, <1>15, Positions, FieldsOnward DEF ReadDrive
  <2>2. op' = [op EXCEPT ![w] = [op[w] EXCEPT !.pc = "inspect", !.drive = disk]] /\ Busy(w)
    BY <1>15 DEF ReadDrive, Busy
  <2> QED BY <1>1, <1>15, <2>1, <2>2, OnwardContinues DEF ReadDrive, device
<1>16. CASE Inspect(w)
  <2>1. ASSUME mounted PROVE Continues(w)
    BY <1>3, Positions, <1>16, <2>1 DEF Inspect, Busy
  <2>2. ASSUME ~mounted PROVE Continues(w)
    BY <1>3, Positions, <1>16, <2>2 DEF Inspect, Busy
  <2> QED BY <2>1, <2>2
<1>17. CASE GateUnmount(w)
  BY <1>3, Positions, <1>17 DEF GateUnmount, Busy
<1>18. CASE Unmount(w)
  BY <1>1, <1>4, Positions, <1>18 DEF Unmount, Busy
<1>19. CASE Unmounted(w)
  BY <1>3, Positions, <1>19 DEF Unmounted, Busy
<1>20. CASE GatePower(w)
  BY <1>3, Positions, <1>20 DEF GatePower, Busy
<1>21. CASE PowerOff(w)
  BY <1>4, Positions, <1>21 DEF PowerOff, Busy, Places
<1>22. CASE RemovalFails(w)
  BY <1>3, Positions, <1>22 DEF RemovalFails, Busy
<1> QED
  BY <1>5, <1>6, <1>7, <1>8, <1>9, <1>10, <1>11, <1>12, <1>13, <1>14, <1>15, <1>16,
     <1>17, <1>18, <1>19, <1>20, <1>21, <1>22 DEF WriteStep, RemovalStep

---------------------------------------------------------------------------
(* The invariant.                                                          *)

(* Two busy workers are the same one, and none is busy without a token.    *)
LEMMA Alone ==
    ASSUME IInv
    PROVE  /\ \A v, w \in Workers : Busy(v) /\ Busy(w) => v = w
           /\ activeToken = 0 => \A w \in Workers : ~Busy(w)
BY UsbAssumption DEF IInv, Owned, Holds

(* A step that only forgets what was offered, or moves the clock or the    *)
(* disk, keeps the invariant.                                              *)
LEMMA QuietStep ==
    ASSUME IInv, UNCHANGED <<op, activeToken, activeWrite, activeRemoval, revoked>>,
           armed' \in {armed, None}, pending' \in {pending, None},
           now' \in Nat, issued' \in Nat, generation' \in Nat, plug' \in Nat, disk' \in Places
    PROVE  IInv'
<1>1. Shapes'
  BY DEF IInv, Shapes
<1>2. Owned'
  BY DEF IInv, Owned, Holds, Busy
<1>3. Unrevoked'
  BY DEF IInv, Unrevoked, Busy
<1> QED BY <1>1, <1>2, <1>3 DEF IInv

(* A worker that goes on within its operation keeps the invariant.         *)
LEMMA ContinuesStep ==
    ASSUME IInv, NEW w \in Workers, Continues(w)
    PROVE  IInv'
<1>1. PICK r : Onward(w, r) /\ op' = [op EXCEPT ![w] = r]
  BY DEF Continues
<1>2. UNCHANGED <<now, issued, generation, armed, activeToken, activeWrite, activeRemoval,
                  pending, revoked>>
  BY DEF Continues, Kept, manager, history
<1>3. op \in [Workers -> Ops] /\ op' \in [Workers -> Ops]
  BY <1>1 DEF IInv, Shapes, Onward
<1>4. /\ Busy(w)
      /\ op'[w].token = op[w].token /\ op'[w].kind = op[w].kind
      /\ op'[w].cancelled = op[w].cancelled
      /\ \A v \in Workers : v # w => op'[v] = op[v]
  BY <1>1, <1>3 DEF Continues, Onward
<1>5. Shapes'
  BY <1>2, <1>3 DEF IInv, Shapes, Continues
<1>6. Owned'
  BY <1>2, <1>4 DEF IInv, Owned, Holds, Busy
<1>7. Unrevoked'
  BY <1>2, <1>4 DEF IInv, Unrevoked, Busy
<1> QED BY <1>5, <1>6, <1>7 DEF IInv

(* Setting the flags leaves every operation what it is; the busy worker    *)
(* has its flag set.                                                       *)
LEMMA RevokeFlags ==
    ASSUME IInv
    PROVE  /\ Revoke \in [Workers -> Ops]
           /\ \A w \in Workers :
                /\ Revoke[w].pc = op[w].pc /\ Revoke[w].kind = op[w].kind
                /\ Revoke[w].token = op[w].token
                /\ Busy(w) => Revoke[w].cancelled
<1>1. ASSUME NEW w \in Workers
      PROVE  /\ [op[w] EXCEPT !.cancelled = TRUE] \in Ops
             /\ [op[w] EXCEPT !.cancelled = TRUE].pc = op[w].pc
             /\ [op[w] EXCEPT !.cancelled = TRUE].kind = op[w].kind
             /\ [op[w] EXCEPT !.cancelled = TRUE].token = op[w].token
             /\ [op[w] EXCEPT !.cancelled = TRUE].cancelled
  <2>1. op[w] \in Ops
    BY DEF IInv, Shapes
  <2> QED BY <2>1 DEF Ops
<1>2. \A w \in Workers : op[w] \in Ops
  BY DEF IInv, Shapes
<1>3. \A w \in Workers : Busy(w) => w \in {activeWrite, activeRemoval}
  BY DEF IInv, Owned, Holds
<1> QED BY <1>1, <1>2, <1>3 DEF Revoke

(* Every initial state satisfies it.                                       *)
LEMMA InitIInv == Init => IInv
<1> SUFFICES ASSUME Init PROVE IInv
  OBVIOUS
<1>1. Idle \in Ops
  BY DEF Idle, Ops, Places, Pcs
<1>2. Shapes
  BY <1>1 DEF Init, Shapes, Places
<1>3. \A w \in Workers : ~Busy(w)
  BY DEF Init, Idle, Busy
<1>4. Owned /\ Unrevoked
  BY <1>3 DEF Init, Owned, Unrevoked
<1> QED BY <1>2, <1>4 DEF IInv

---------------------------------------------------------------------------
(* The manager's actions.                                                  *)

(* Confirming a disk revokes everything that was issued.                   *)
LEMMA ArmStep == ASSUME IInv, NEW d \in Disks, Arm(d) PROVE IInv'
<1>1. op' = Revoke /\ UNCHANGED <<now, activeToken, activeWrite, activeRemoval, disk, plug>>
  BY DEF Arm, device
<1>2. /\ armed' \in Intents /\ armed'.token = issued + 1 /\ armed'.token \notin revoked'
      /\ pending' = None
      /\ issued' \in Nat /\ generation' \in Nat
  BY UsbAssumption DEF Arm, IInv, Shapes, Intents, Tokens
<1>3. Shapes'
  BY <1>1, <1>2, RevokeFlags DEF IInv, Shapes
<1>4. Owned'
  BY <1>1, RevokeFlags DEF IInv, Owned, Holds, Busy
<1>5. Unrevoked'
  BY <1>1, <1>2, RevokeFlags DEF Unrevoked, Busy
<1> QED BY <1>3, <1>4, <1>5 DEF IInv

(* Cancelling a token forgets what is offered for it and sets the flag of  *)
(* the operation that holds it.                                            *)
LEMMA CancelStep == ASSUME IInv, NEW t \in Tokens, Cancel(t) PROVE IInv'
<1>1. /\ op' = IF activeToken = t THEN Revoke ELSE op
      /\ revoked' = revoked \cup {t}
      /\ UNCHANGED <<now, issued, generation, activeToken, activeWrite, activeRemoval, disk, plug>>
  BY DEF Cancel, device
<1>2. /\ armed' \in {armed, None} /\ (armed' # None => armed'.token # t)
      /\ pending' \in {pending, None} /\ (pending' # None => pending'.token # t)
  BY DEF Cancel
<1>3. Shapes'
  BY <1>1, <1>2, RevokeFlags DEF IInv, Shapes
<1>4. Owned'
  <2>1. CASE activeToken = t
    BY <1>1, <2>1, RevokeFlags DEF IInv, Owned, Holds, Busy
  <2>2. CASE activeToken # t
    BY <1>1, <2>2 DEF IInv, Owned, Holds, Busy
  <2> QED BY <2>1, <2>2
<1>5. Unrevoked'
  <2>1. CASE activeToken = t
    BY <1>1, <1>2, <2>1, RevokeFlags DEF IInv, Unrevoked, Busy
  <2>2. CASE activeToken # t
    BY <1>1, <1>2, <2>2 DEF IInv, Unrevoked, Owned, Holds, Busy
  <2> QED BY <2>1, <2>2
<1> QED BY <1>3, <1>4, <1>5 DEF IInv

(* Closing the application revokes everything and gives the token back     *)
(* only if no worker holds it.                                             *)
LEMMA CleanUpStep == ASSUME IInv, CleanUp PROVE IInv'
<1>1. /\ op' = Revoke /\ armed' = None /\ pending' = None
      /\ activeToken' = IF activeWrite = None /\ activeRemoval = None THEN 0 ELSE activeToken
      /\ UNCHANGED <<now, issued, generation, activeWrite, activeRemoval, disk, plug>>
  BY DEF CleanUp, CancelAll, device
<1>2. Shapes'
  BY <1>1, RevokeFlags DEF IInv, Shapes
<1>3. Owned'
  BY <1>1, RevokeFlags, UsbAssumption DEF IInv, Owned, Holds, Busy
<1>4. Unrevoked'
  BY <1>1, RevokeFlags DEF Unrevoked, Busy
<1> QED BY <1>2, <1>3, <1>4 DEF IInv

(* After the process has ended nothing is offered and no worker is busy.   *)
LEMMA ExitStep == ASSUME IInv, Exit PROVE IInv'
<1>1. Idle \in Ops
  BY DEF Idle, Ops, Places, Pcs
<1>2. Shapes'
  BY <1>1 DEF Exit, device, IInv, Shapes
<1>3. \A w \in Workers : ~Busy(w)'
  BY DEF Exit, Idle, Busy
<1>4. Owned' /\ Unrevoked'
  BY <1>3 DEF Exit, Owned, Unrevoked
<1> QED BY <1>2, <1>4 DEF IInv

(* A worker that becomes idle, while the manager forgets the token it      *)
(* held, keeps the invariant.                                              *)
LEMMA IdleStep ==
    ASSUME IInv, NEW w \in Workers, Busy(w), op' = [op EXCEPT ![w] = Idle],
           activeToken' = 0, activeWrite' = None, activeRemoval' = None,
           pending' = None \/ pending' \in Rights, pending' # None => pending'.token \notin revoked,
           UNCHANGED <<now, issued, generation, armed, disk, plug, revoked>>
    PROVE  IInv'
<1>1. Idle \in Ops
  BY DEF Idle, Ops, Places, Pcs
<1>2. op' \in [Workers -> Ops]
  BY <1>1 DEF IInv, Shapes
<1>3. Shapes'
  BY <1>2 DEF IInv, Shapes
<1>4. \A v \in Workers : ~Busy(v)'
  BY Alone DEF IInv, Shapes, Busy, Idle
<1>5. Owned' /\ Unrevoked'
  BY <1>4 DEF IInv, Owned, Unrevoked
<1> QED BY <1>3, <1>5 DEF IInv

(* A write that closes gives back the token it holds.                      *)
LEMMA FinishWriteStep == ASSUME IInv, NEW w \in Workers, FinishWrite(w) PROVE IInv'
<1>1. Busy(w)
  BY DEF FinishWrite, Busy
<1>2. activeToken = op[w].token /\ activeRemoval = None
  BY <1>1 DEF FinishWrite, IInv, Owned, Holds
<1>3. pending = None \/ pending \in Rights
  BY DEF IInv, Shapes
<1>4. pending # None => pending.token \notin revoked
  BY DEF IInv, Unrevoked
<1> QED BY <1>1, <1>2, <1>3, <1>4, IdleStep DEF FinishWrite, device, history

(* The right a worker leaves behind carries the token of its operation.    *)
LEMMA RetryShape ==
    ASSUME IInv, NEW w \in Workers, NEW e \in Nat
    PROVE  RetryOf(w, e) \in Rights /\ RetryOf(w, e).token = op[w].token
<1>1. op[w] \in Ops
  BY DEF IInv, Shapes
<1> QED BY <1>1 DEF RetryOf, Rights, Ops

(* A retry that closes hands its right back only if nobody set its flag.   *)
LEMMA FinishRetryStep == ASSUME IInv, NEW w \in Workers, FinishRetry(w) PROVE IInv'
<1>1. Busy(w)
  BY DEF FinishRetry, Busy
<1>2. activeRemoval = w /\ activeWrite = None
  BY <1>1 DEF FinishRetry, IInv, Owned, Holds
<1>3. op[w].expires \in Nat
  BY DEF IInv, Shapes, Ops
<1>4. pending' \in {pending, RetryOf(w, op[w].expires)}
  BY DEF FinishRetry
<1>5. pending' = None \/ pending' \in Rights
  BY <1>3, <1>4, RetryShape DEF IInv, Shapes
<1>6. pending' # None => pending'.token \notin revoked
  <2>1. CASE Restorable(w)
    BY <1>1, <1>3, <2>1, RetryShape DEF FinishRetry, Restorable, IInv, Unrevoked
  <2>2. CASE ~Restorable(w)
    BY <2>2 DEF FinishRetry, IInv, Unrevoked
  <2> QED BY <2>1, <2>2
<1>7. activeToken' = 0 /\ activeRemoval' = None /\ activeWrite' = None
  BY <1>2 DEF FinishRetry
<1> QED BY <1>1, <1>5, <1>6, <1>7, IdleStep DEF FinishRetry, device, history

(* The step that makes an idle worker busy, with record r, on a token that *)
(* was not revoked, while the manager holds none.                          *)
LEMMA BeginStep ==
    ASSUME IInv, NEW w \in Workers, NEW r \in Ops, activeToken = 0,
           r.token # 0, r.token \notin revoked, op' = [op EXCEPT ![w] = r],
           activeToken' = r.token,
           \/ r.kind = "write" /\ activeWrite' = w /\ activeRemoval' = activeRemoval
           \/ r.kind = "retry" /\ activeRemoval' = w /\ activeWrite' = activeWrite,
           armed' \in {armed, None}, pending' \in {pending, None},
           UNCHANGED <<now, issued, generation, disk, plug, revoked>>
    PROVE  IInv'
<1>1. /\ \A v \in Workers : ~Busy(v)
      /\ activeWrite = None /\ activeRemoval = None
  BY Alone DEF IInv, Owned
<1>2. op \in [Workers -> Ops] /\ op' \in [Workers -> Ops]
  BY DEF IInv, Shapes
<1>3. op'[w] = r /\ \A v \in Workers : v # w => ~Busy(v)'
  BY <1>1, <1>2 DEF Busy
<1>4. Shapes'
  BY <1>2 DEF IInv, Shapes
<1>5. Owned'
  BY <1>1, <1>3 DEF Owned, Holds
<1>6. Unrevoked'
  BY <1>3 DEF IInv, Unrevoked
<1> QED BY <1>4, <1>5, <1>6 DEF IInv

(* A write begins with the intent that is armed.                           *)
LEMMA BeginWriteStep ==
    ASSUME IInv, NEW w \in Workers, NEW t \in Tokens, BeginWrite(w, t) PROVE IInv'
<1> DEFINE r == [Idle EXCEPT !.pc = "validate", !.kind = "write", !.token = t,
                             !.generation = generation, !.disk = armed.disk]
<1>1. t \in Nat /\ t # 0 /\ t \notin revoked /\ generation \in Nat /\ armed.disk \in Places
  BY DEF BeginWrite, Tokens, IInv, Shapes, Unrevoked, Intents, Places
<1>2. r \in Ops
  <2>1. Idle \in Ops
    BY DEF Idle, Ops, Places, Pcs
  <2> QED BY <1>1, <2>1, Positions DEF Ops
<1>3. r.token = t /\ r.kind = "write"
  BY DEF Idle
<1>4. op' = [op EXCEPT ![w] = r]
  BY DEF BeginWrite
<1>5. /\ activeToken = 0 /\ activeToken' = t /\ activeWrite' = w /\ activeRemoval' = activeRemoval
      /\ armed' \in {armed, None} /\ pending' \in {pending, None}
      /\ UNCHANGED <<now, issued, generation, disk, plug, revoked>>
  BY DEF BeginWrite, device, history
<1> HIDE DEF r
<1> QED BY <1>1, <1>2, <1>3, <1>4, <1>5, BeginStep

(* A retry begins with the right that is pending.                          *)
LEMMA BeginRetryStep ==
    ASSUME IInv, NEW w \in Workers, NEW t \in Tokens, BeginRetry(w, t) PROVE IInv'
<1> DEFINE r == [Idle EXCEPT !.pc = "locate", !.kind = "retry", !.token = t,
                             !.generation = pending.generation, !.disk = pending.disk,
                             !.expires = pending.expires]
<1>1. /\ t \in Nat /\ t # 0 /\ t \notin revoked
      /\ pending.generation \in Nat /\ pending.disk \in Places /\ pending.expires \in Nat
  BY DEF BeginRetry, Tokens, IInv, Shapes, Unrevoked, Rights
<1>2. r \in Ops
  <2>1. Idle \in Ops
    BY DEF Idle, Ops, Places, Pcs
  <2> QED BY <1>1, <2>1, Positions DEF Ops
<1>3. r.token = t /\ r.kind = "retry"
  BY DEF Idle
<1>4. op' = [op EXCEPT ![w] = r]
  BY DEF BeginRetry
<1>5. /\ activeToken = 0 /\ activeToken' = t /\ activeRemoval' = w /\ activeWrite' = activeWrite
      /\ armed' \in {armed, None} /\ pending' \in {pending, None}
      /\ UNCHANGED <<now, issued, generation, disk, plug, revoked>>
  BY DEF BeginRetry, device, history
<1> HIDE DEF r
<1> QED BY <1>1, <1>2, <1>3, <1>4, <1>5, BeginStep

(* A write that could not remove its disk leaves a right to retry only if  *)
(* nobody set its flag.                                                    *)
LEMMA RetainRetryStep == ASSUME IInv, NEW w \in Workers, RetainRetry(w) PROVE IInv'
<1>1. /\ op[w] \in Ops /\ op \in [Workers -> Ops] /\ now + TTL \in Nat
      /\ plug \in Nat /\ disk \in Places
  BY UsbAssumption DEF IInv, Shapes
<1>2. Busy(w)
  BY DEF RetainRetry, Busy
<1>3. Onward(w, [op[w] EXCEPT !.pc = "done"])
  BY <1>1, Positions, FieldsOnward
<1>4. op' = [op EXCEPT ![w] = [op[w] EXCEPT !.pc = "done"]]
  BY DEF RetainRetry
<1>5. /\ op' \in [Workers -> Ops]
      /\ op'[w].token = op[w].token /\ op'[w].kind = op[w].kind
      /\ op'[w].cancelled = op[w].cancelled
      /\ \A v \in Workers : v # w => op'[v] = op[v]
  BY <1>1, <1>3, <1>4 DEF Onward
<1>6. UNCHANGED <<now, issued, generation, armed, activeToken, activeWrite, activeRemoval,
                  disk, plug, revoked>>
  BY DEF RetainRetry, device
<1>7. /\ pending' = None \/ pending' \in Rights
      /\ pending' # None => pending'.token \notin revoked
  <2>1. CASE Retainable(w)
    BY <1>1, <1>2, <2>1, RetryShape DEF RetainRetry, Retainable, IInv, Unrevoked
  <2>2. CASE ~Retainable(w)
    BY <2>2 DEF RetainRetry, IInv, Shapes, Unrevoked
  <2> QED BY <2>1, <2>2
<1>8. Shapes'
  BY <1>5, <1>6, <1>7 DEF IInv, Shapes
<1>9. Owned'
  BY <1>2, <1>5, <1>6 DEF IInv, Owned, Holds, Busy
<1>10. Unrevoked'
  BY <1>2, <1>5, <1>6, <1>7 DEF IInv, Unrevoked, Busy
<1> QED BY <1>8, <1>9, <1>10 DEF IInv

---------------------------------------------------------------------------
(* The theorems.                                                           *)

(* Every step keeps the invariant.                                         *)
LEMMA NextIInv == IInv /\ [Next]_vars => IInv'
<1> SUFFICES ASSUME IInv, [Next]_vars PROVE IInv'
  OBVIOUS
<1>1. now \in Nat /\ issued \in Nat /\ generation \in Nat /\ plug \in Nat /\ disk \in Places
  BY DEF IInv, Shapes
<1>2. CASE UNCHANGED vars
  BY <1>1, <1>2, QuietStep DEF vars, manager, device, history
<1>3. CASE Command
  <2>1. CASE \E d \in Disks : Arm(d)
    BY <2>1, ArmStep
  <2>2. CASE \E t \in Tokens : Cancel(t)
    BY <2>2, CancelStep
  <2>3. CASE \E t \in Tokens : RefuseWrite(t)
    BY <1>1, <2>3, QuietStep DEF RefuseWrite, device, history
  <2>4. CASE \E t \in Tokens : RefuseRetry(t)
    BY <1>1, <2>4, QuietStep DEF RefuseRetry, device, history
  <2>5. CASE \E t \in Tokens, w \in Workers : BeginWrite(w, t)
    BY <2>5, BeginWriteStep
  <2>6. CASE \E t \in Tokens, w \in Workers : BeginRetry(w, t)
    BY <2>6, BeginRetryStep
  <2>7. CASE Status
    BY <1>1, <2>7, QuietStep DEF Status, device, history
  <2> QED BY <1>3, <2>1, <2>2, <2>3, <2>4, <2>5, <2>6, <2>7 DEF Command
<1>4. CASE Environment
  <2>1. CASE Tick
    BY <1>1, <2>1, QuietStep DEF Tick, manager, device, history
  <2>2. CASE Automount
    BY <1>1, <2>2, QuietStep DEF Automount, manager, history
  <2>3. CASE RequestClose
    BY <1>1, <2>3, QuietStep DEF RequestClose, manager, device, history
  <2>4. CASE CleanUp
    BY <2>4, CleanUpStep
  <2>5. CASE Exit
    BY <2>5, ExitStep
  <2>6. CASE \E d \in Disks \cup {None} : Replug(d)
    BY <1>1, <2>6, QuietStep DEF Replug, manager, history, Places
  <2> QED BY <1>4, <2>1, <2>2, <2>3, <2>4, <2>5, <2>6 DEF Environment
<1>5. ASSUME NEW w \in Workers, WorkerStep(w) PROVE IInv'
  <2>1. CASE WriteStep(w) \/ RemovalStep(w)
    BY <2>1, StepContinues, ContinuesStep DEF IInv
  <2>2. CASE RetainRetry(w)
    BY <2>2, RetainRetryStep
  <2>3. CASE FinishWrite(w)
    BY <2>3, FinishWriteStep
  <2>4. CASE FinishRetry(w)
    BY <2>4, FinishRetryStep
  <2> QED BY <1>5, <2>1, <2>2, <2>3, <2>4 DEF WorkerStep
<1> QED BY <1>2, <1>3, <1>4, <1>5 DEF Next

(* The inductive invariant of the manager and its workers.                 *)
THEOREM UsbInvariant == Spec => []IInv
BY InitIInv, NextIInv, PTL DEF Spec

(* At most one worker is ever inside an operation, however many threads,   *)
(* intents, cancellations and restarts there are (image.rs:2733, 2741).    *)
THEOREM Serialized == Spec => []OneOperation
<1>1. ASSUME IInv PROVE OneOperation
  <2> DEFINE B == {w \in Workers : Busy(w)}
  <2>1. CASE B = {}
    BY <2>1, FS_EmptySet DEF OneOperation
  <2>2. CASE B # {}
    <3>1. PICK w \in B : TRUE
      BY <2>2
    <3>2. B = {w}
      BY <1>1, <3>1, Alone
    <3> QED BY <3>2, FS_Singleton DEF OneOperation
  <2> QED BY <2>1, <2>2
<1> QED BY <1>1, UsbInvariant, PTL

(* A token that the user cancelled or replaced is never offered again, for *)
(* a write or for a retry (image.rs:2860, 2938).                           *)
THEOREM RevokedStaysRevoked == Spec => []NoResurrection
<1>1. IInv => NoResurrection
  BY DEF IInv, Unrevoked, NoResurrection
<1> QED BY <1>1, UsbInvariant, PTL

---------------------------------------------------------------------------
(* The disk: what is written, read back, removed and offered for removal.  *)

\* What is offered: an intent, or the right to retry the removal of a disk
\* that holds the whole image.
Offered ==
    /\ armed # None => pending = None
    /\ pending # None => /\ pending.disk \in Disks /\ Whole(pending.disk)
                         /\ pending.expires <= retained + TTL
                         /\ pending.generation <= generation

\* Operation r was told to stop.
Ended(r) == r.cancelled \/ (r.kind = "retry" /\ now >= r.expires)

\* Nothing is offered beside operation r, unless it is closing or was replaced.
Current(r) ==
    /\ r.disk \in Disks
    /\ r.generation <= generation
    /\ r.generation = generation => armed = None
    /\ r.pc # "done" => pending = None
    /\ r.kind = "retry" => r.expires <= retained + TTL

\* The device r holds open, if it is still plugged in, and the drive r removes
\* are the disk that was confirmed.
OnItsDisk(r) ==
    /\ r.plug <= plug
    /\ r.pc \in {"copy", "put", "verify", "recheck"} /\ r.plug = plug /\ disk # None
         => disk = r.disk
    /\ r.pc \in {"unmount", "unmounting", "unmounted", "power", "powering"}
         => r.drive = r.disk

\* Only a write writes and reads; what it has read back is the image, and only
\* a whole image is removed.
ReadBack(r) ==
    /\ r.pc \in WritePcs => r.kind = "write"
    /\ r.pc = "verify" => \A b \in 1 .. Blocks : b < r.next => media[r.disk][b] = "image"
    /\ r.pc \in {"recheck", "kept"} \cup RemovalPcs => Whole(r.disk)

\* r did at most one thing after it was told to stop, and can do no other.
StopsSoon(r) ==
    /\ r.late <= 1
    /\ r.late = 1 => /\ Ended(r)
                     /\ \/ r.pc \in {"copy", "unmounted", "removed", "kept", "done"}
                        \/ r.pc = "verify" /\ r.next = 1

Sound(r) == Current(r) /\ OnItsDisk(r) /\ ReadBack(r) /\ StopsSoon(r)

DiskInv ==
    /\ retained \in Nat
    /\ media \in [Disks -> [1 .. Blocks -> {"old", "image", "other"}]]
    /\ Offered
    /\ \A w \in Workers : IF Busy(w) THEN Sound(op[w]) ELSE op[w].late = 0

\* Records r and s are of the same operation.
Same(r, s) ==
    /\ s.kind = r.kind /\ s.generation = r.generation /\ s.disk = r.disk
    /\ s.expires = r.expires /\ s.cancelled = r.cancelled

\* Worker w goes on from its record to one with these values.
Moves(w, pc, pl, dr, nx, lt) ==
    /\ Same(op[w], op'[w])
    /\ op'[w].pc = pc /\ op'[w].plug = pl /\ op'[w].drive = dr
    /\ op'[w].next = nx /\ op'[w].late = lt
    /\ \A v \in Workers : v # w => op'[v] = op[v]

(* What the ways in which a worker's record is updated leave in it.        *)
LEMMA UpdatesMove ==
    ASSUME Shapes, NEW w \in Workers, NEW pc, NEW pl, NEW dr, NEW nx, NEW lt
    PROVE  /\ op' = [op EXCEPT ![w] = [op[w] EXCEPT !.pc = pc]]
                => Moves(w, pc, op[w].plug, op[w].drive, op[w].next, op[w].late)
           /\ op' = [op EXCEPT ![w] = [op[w] EXCEPT !.pc = pc, !.plug = pl]]
                => Moves(w, pc, pl, op[w].drive, op[w].next, op[w].late)
           /\ op' = [op EXCEPT ![w] = [op[w] EXCEPT !.pc = pc, !.drive = dr]]
                => Moves(w, pc, op[w].plug, dr, op[w].next, op[w].late)
           /\ op' = [op EXCEPT ![w] = [op[w] EXCEPT !.pc = pc, !.next = nx]]
                => Moves(w, pc, op[w].plug, op[w].drive, nx, op[w].late)
           /\ op' = [op EXCEPT ![w] = [op[w] EXCEPT !.next = nx]]
                => Moves(w, op[w].pc, op[w].plug, op[w].drive, nx, op[w].late)
           /\ op' = [op EXCEPT ![w] = [op[w] EXCEPT !.pc = pc, !.late = lt]]
                => Moves(w, pc, op[w].plug, op[w].drive, op[w].next, lt)
           /\ op' = [op EXCEPT ![w] = [op[w] EXCEPT !.pc = pc, !.next = nx, !.late = lt]]
                => Moves(w, pc, op[w].plug, op[w].drive, nx, lt)
<1>1. op \in [Workers -> Ops] /\ op[w] \in Ops
  BY DEF Shapes
<1>2. ASSUME op' = [op EXCEPT ![w] = [op[w] EXCEPT !.pc = pc]]
      PROVE  Moves(w, pc, op[w].plug, op[w].drive, op[w].next, op[w].late)
  BY <1>1, <1>2 DEF Moves, Same, Ops
<1>3. ASSUME op' = [op EXCEPT ![w] = [op[w] EXCEPT !.pc = pc, !.plug = pl]]
      PROVE  Moves(w, pc, pl, op[w].drive, op[w].next, op[w].late)
  BY <1>1, <1>3 DEF Moves, Same, Ops
<1>4. ASSUME op' = [op EXCEPT ![w] = [op[w] EXCEPT !.pc = pc, !.drive = dr]]
      PROVE  Moves(w, pc, op[w].plug, dr, op[w].next, op[w].late)
  BY <1>1, <1>4 DEF Moves, Same, Ops
<1>5. ASSUME op' = [op EXCEPT ![w] = [op[w] EXCEPT !.pc = pc, !.next = nx]]
      PROVE  Moves(w, pc, op[w].plug, op[w].drive, nx, op[w].late)
  BY <1>1, <1>5 DEF Moves, Same, Ops
<1>6. ASSUME op' = [op EXCEPT ![w] = [op[w] EXCEPT !.next = nx]]
      PROVE  Moves(w, op[w].pc, op[w].plug, op[w].drive, nx, op[w].late)
  BY <1>1, <1>6 DEF Moves, Same, Ops
<1>7. ASSUME op' = [op EXCEPT ![w] = [op[w] EXCEPT !.pc = pc, !.late = lt]]
      PROVE  Moves(w, pc, op[w].plug, op[w].drive, op[w].next, lt)
  BY <1>1, <1>7 DEF Moves, Same, Ops
<1>8. ASSUME op' = [op EXCEPT ![w] = [op[w] EXCEPT !.pc = pc, !.next = nx, !.late = lt]]
      PROVE  Moves(w, pc, op[w].plug, op[w].drive, nx, lt)
  BY <1>1, <1>8 DEF Moves, Same, Ops
<1> QED BY <1>2, <1>3, <1>4, <1>5, <1>6, <1>7, <1>8

(* A step inside the operation of worker w: only its record matters, and a  *)
(* block may be written only while nothing is offered.                      *)
LEMMA WithinStep ==
    ASSUME IInv, DiskInv, NEW w \in Workers, Busy(w), UNCHANGED Kept,
           \A v \in Workers : v # w => op'[v] = op[v],
           op'[w].pc # "idle", Sound(op[w])',
           \/ media' = media
           \/ /\ media' \in [Disks -> [1 .. Blocks -> {"old", "image", "other"}]]
              /\ pending = None
    PROVE  DiskInv'
<1>1. UNCHANGED <<armed, pending, generation, retained>>
  BY DEF Kept, manager, history
<1>2. Offered'
  BY <1>1 DEF DiskInv, Offered, Whole
<1>3. \A v \in Workers : v # w => ~Busy(v)
  BY Alone
<1>4. \A v \in Workers : IF Busy(v)' THEN Sound(op[v])' ELSE op'[v].late = 0
  BY <1>3 DEF Busy, DiskInv
<1> QED BY <1>1, <1>2, <1>4 DEF DiskInv, Busy

(* The same for a step that leaves the disk alone and removes nothing.     *)
LEMMA InnerStep ==
    ASSUME IInv, DiskInv, NEW w \in Workers, Busy(w), UNCHANGED <<Kept, device>>,
           NEW pc, NEW pl, NEW dr, NEW nx, NEW lt, Moves(w, pc, pl, dr, nx, lt),
           pc \notin {"idle", "removed"}, Sound(op[w])'
    PROVE  DiskInv' /\ ConfirmedDisk
<1>1. media' = media
  BY DEF device
<1>2. DiskInv'
  BY <1>1, WithinStep DEF Moves
<1>3. ConfirmedDisk
  BY <1>1 DEF ConfirmedDisk, Moves
<1> QED BY <1>2, <1>3

(* An operation that goes on stays what it is to the manager.              *)
LEMMA StaysCurrent ==
    ASSUME NEW w \in Workers, Current(op[w]), Same(op[w], op'[w]), UNCHANGED Kept,
           op[w].pc # "done"
    PROVE  Current(op[w])'
BY DEF Current, Same, Kept, manager, history

(* One that was not told to stop too late may go anywhere.                 *)
LEMMA StopsInTime ==
    ASSUME NEW w \in Workers, op'[w].late = 0
    PROVE  StopsSoon(op[w])'
BY DEF StopsSoon

(* Where nothing was done after the word to stop.                          *)
LEMMA NotLate ==
    ASSUME IInv, NEW w \in Workers, Sound(op[w]),
           \/ op[w].pc \in (WritePcs \cup RemovalPcs) \ {"copy", "verify", "unmounted"}
           \/ op[w].pc \in {"copy", "unmounted"} /\ ~Ended(op[w])
           \/ op[w].pc = "verify" /\ (~Ended(op[w]) \/ op[w].next # 1)
    PROVE  op[w].late = 0
<1>1. op[w] \in Ops
  BY DEF IInv, Shapes
<1>2. op[w].late \in Nat
  BY <1>1 DEF Ops
<1> QED BY <1>2 DEF Sound, StopsSoon, WritePcs, RemovalPcs

(* A write is not stopped by the clock.                                    *)
LEMMA WriteEnds ==
    ASSUME NEW w \in Workers, Sound(op[w]), op[w].pc \in WritePcs, ~op[w].cancelled
    PROVE  ~Ended(op[w])
BY DEF Sound, ReadBack, Ended

(* The steps of a write keep it sound.                                     *)
LEMMA WriteStepDisk ==
    ASSUME IInv, DiskInv, NEW w \in Workers, WriteStep(w)
    PROVE  DiskInv' /\ ConfirmedDisk
<1>1. Busy(w) /\ Sound(op[w]) /\ Current(op[w])
  BY DEF WriteStep, Validate, Open, OpenDevice, Opened, Copy, Put, Verify, Recheck, WriteFails,
     WritePcs, Busy, DiskInv, Sound
<1>2. /\ Shapes /\ plug \in Nat /\ op[w].next \in Nat
      /\ media \in [Disks -> [1 .. Blocks -> {"old", "image", "other"}]]
  BY DEF IInv, Shapes, Ops, DiskInv
<1>3. CASE Validate(w)
  <2>1. Moves(w, "open", op[w].plug, op[w].drive, op[w].next, op[w].late)
    BY <1>3, <1>2, UpdatesMove DEF Validate, Goto
  <2>2. UNCHANGED <<Kept, device>>
    BY <1>3 DEF Validate
  <2>3. Current(op[w])'
    BY <1>3, <1>1, <2>1, <2>2, StaysCurrent DEF Moves, Validate
  <2>4. OnItsDisk(op[w])'
    BY <1>3, <1>1, <1>2, <2>1, <2>2 DEF Moves, Same, Sound, OnItsDisk, device, Validate
  <2>5. ReadBack(op[w])'
    BY <1>3, <1>1, <1>2, <2>1, <2>2
       DEF Moves, Same, Sound, ReadBack, Whole, WritePcs, RemovalPcs, device, Validate
  <2>6. StopsSoon(op[w])'
    BY <1>3, <1>1, <2>1, NotLate, StopsInTime DEF Moves, Validate, WritePcs, RemovalPcs
  <2> QED BY <1>1, <2>1, <2>2, <2>3, <2>4, <2>5, <2>6, InnerStep DEF Sound
<1>4. CASE Open(w)
  <2>1. Moves(w, "opening", op[w].plug, op[w].drive, op[w].next, op[w].late)
    BY <1>4, <1>2, UpdatesMove DEF Open, Goto
  <2>2. UNCHANGED <<Kept, device>>
    BY <1>4 DEF Open
  <2>3. Current(op[w])'
    BY <1>4, <1>1, <2>1, <2>2, StaysCurrent DEF Moves, Open
  <2>4. OnItsDisk(op[w])'
    BY <1>4, <1>1, <1>2, <2>1, <2>2 DEF Moves, Same, Sound, OnItsDisk, device, Open
  <2>5. ReadBack(op[w])'
    BY <1>4, <1>1, <1>2, <2>1, <2>2
       DEF Moves, Same, Sound, ReadBack, Whole, WritePcs, RemovalPcs, device, Open
  <2>6. StopsSoon(op[w])'
    BY <1>4, <1>1, <2>1, NotLate, StopsInTime DEF Moves, Open, WritePcs, RemovalPcs
  <2> QED BY <1>1, <2>1, <2>2, <2>3, <2>4, <2>5, <2>6, InnerStep DEF Sound
<1>5. CASE OpenDevice(w)
  <2>1. Moves(w, "opened", plug, op[w].drive, op[w].next, op[w].late)
    BY <1>5, <1>2, UpdatesMove DEF OpenDevice
  <2>2. UNCHANGED <<Kept, device>>
    BY <1>5 DEF OpenDevice
  <2>3. Current(op[w])'
    BY <1>5, <1>1, <2>1, <2>2, StaysCurrent DEF Moves, OpenDevice
  <2>4. OnItsDisk(op[w])'
    BY <1>5, <1>1, <1>2, <2>1, <2>2 DEF Moves, Same, Sound, OnItsDisk, device, OpenDevice
  <2>5. ReadBack(op[w])'
    BY <1>5, <1>1, <1>2, <2>1, <2>2
       DEF Moves, Same, Sound, ReadBack, Whole, WritePcs, RemovalPcs, device, OpenDevice
  <2>6. StopsSoon(op[w])'
    BY <1>5, <1>1, <2>1, NotLate, StopsInTime DEF Moves, OpenDevice, WritePcs, RemovalPcs
  <2> QED BY <1>1, <2>1, <2>2, <2>3, <2>4, <2>5, <2>6, InnerStep DEF Sound
<1>6. CASE Opened(w)
  <2>1. Moves(w, "copy", op[w].plug, op[w].drive, 1, op[w].late)
    BY <1>6, <1>2, UpdatesMove DEF Opened
  <2>2. UNCHANGED <<Kept, device>>
    BY <1>6 DEF Opened
  <2>3. Current(op[w])'
    BY <1>6, <1>1, <2>1, <2>2, StaysCurrent DEF Moves, Opened
  <2>4. OnItsDisk(op[w])'
    BY <1>6, <1>1, <1>2, <2>1, <2>2
       DEF Moves, Same, Sound, OnItsDisk, device, Opened, Revalidated, Identified
  <2>5. ReadBack(op[w])'
    BY <1>6, <1>1, <1>2, <2>1, <2>2
       DEF Moves, Same, Sound, ReadBack, Whole, WritePcs, RemovalPcs, device, Opened
  <2>6. StopsSoon(op[w])'
    BY <1>6, <1>1, <2>1, NotLate, StopsInTime DEF Moves, Opened, WritePcs, RemovalPcs
  <2> QED BY <1>1, <2>1, <2>2, <2>3, <2>4, <2>5, <2>6, InnerStep DEF Sound
<1>7. CASE Copy(w)
  <2>1. CASE op[w].next > Blocks
    <3>1. Moves(w, "verify", op[w].plug, op[w].drive, 1, op[w].late)
      BY <1>7, <2>1, <1>2, UpdatesMove DEF Copy, Goto
    <3>2. UNCHANGED <<Kept, device>>
      BY <1>7, <2>1 DEF Copy
    <3>3. Current(op[w])'
      BY <1>7, <2>1, <1>1, <3>1, <3>2, StaysCurrent DEF Moves, Copy
    <3>4. OnItsDisk(op[w])'
      BY <1>7, <2>1, <1>1, <1>2, <3>1, <3>2 DEF Moves, Same, Sound, OnItsDisk, device, Copy
    <3>5. ReadBack(op[w])'
      BY <1>7, <2>1, <1>1, <1>2, <3>1, <3>2
         DEF Moves, Same, Sound, ReadBack, Whole, WritePcs, RemovalPcs, device, Copy
    <3>6. StopsSoon(op[w])'
      BY <1>7, <2>1, <1>1, <1>2, <3>1, <3>2
         DEF Moves, Same, Sound, StopsSoon, Ended, Kept, WritePcs, RemovalPcs, Copy
    <3> QED BY <1>1, <3>1, <3>2, <3>3, <3>4, <3>5, <3>6, InnerStep DEF Sound
  <2>2. CASE ~(op[w].next > Blocks)
    <3>1. Moves(w, "put", op[w].plug, op[w].drive, op[w].next, op[w].late)
      BY <1>7, <2>2, <1>2, UpdatesMove DEF Copy, Goto
    <3>2. UNCHANGED <<Kept, device>>
      BY <1>7, <2>2 DEF Copy
    <3>3. Current(op[w])'
      BY <1>7, <2>2, <1>1, <3>1, <3>2, StaysCurrent DEF Moves, Copy
    <3>4. OnItsDisk(op[w])'
      BY <1>7, <2>2, <1>1, <1>2, <3>1, <3>2 DEF Moves, Same, Sound, OnItsDisk, device, Copy
    <3>5. ReadBack(op[w])'
      BY <1>7, <2>2, <1>1, <1>2, <3>1, <3>2
         DEF Moves, Same, Sound, ReadBack, Whole, WritePcs, RemovalPcs, device, Copy
    <3>6. StopsSoon(op[w])'
      BY <1>7, <2>2, <1>1, <3>1, NotLate, StopsInTime, WriteEnds, UsbAssumption
         DEF Moves, Copy, WritePcs, RemovalPcs
    <3> QED BY <1>1, <3>1, <3>2, <3>3, <3>4, <3>5, <3>6, InnerStep DEF Sound
  <2> QED BY <2>1, <2>2
<1>8. CASE Put(w)
  <2>1. op[w].late = 0
    BY <1>1, <1>8, NotLate DEF Put, WritePcs
  <2>2. Moves(w, "copy", op[w].plug, op[w].drive, op[w].next + 1, Late(w))
    BY <1>2, <1>8, UpdatesMove DEF Put
  <2>3. UNCHANGED <<Kept, disk, plug>>
    BY <1>8 DEF Put
  <2>4. disk = op[w].disk /\ disk \in Disks /\ pending = None
    BY <1>1, <1>8 DEF Put, Connected, Sound, OnItsDisk, Current
  <2>5. PICK block \in {"image", "other"} :
          media' = [media EXCEPT ![disk] = [media[disk] EXCEPT ![op[w].next] = block]]
    BY <1>8 DEF Put
  <2>6. media' \in [Disks -> [1 .. Blocks -> {"old", "image", "other"}]]
    BY <1>2, <2>4, <2>5
  <2>7. Current(op[w])' /\ OnItsDisk(op[w])' /\ ReadBack(op[w])'
    <3>1. Current(op[w])'
      BY <1>1, <1>8, <2>2, <2>3, StaysCurrent DEF Moves, Put
    <3>2. OnItsDisk(op[w])'
      BY <1>1, <1>8, <2>2, <2>3 DEF Moves, Same, Put, Sound, OnItsDisk
    <3>3. ReadBack(op[w])'
      BY <1>1, <1>8, <2>2 DEF Moves, Same, Put, Sound, ReadBack, WritePcs, RemovalPcs
    <3> QED BY <3>1, <3>2, <3>3
  <2>8. StopsSoon(op[w])'
    BY <2>1, <2>2, <2>3 DEF Moves, Same, StopsSoon, Late, Expired, Ended, Kept
  <2>9. DiskInv'
    BY <1>1, <2>2, <2>3, <2>4, <2>6, <2>7, <2>8, WithinStep DEF Moves, Sound
  <2>10. ConfirmedDisk
    BY <1>2, <1>8, <2>2, <2>4, <2>5 DEF ConfirmedDisk, Moves, Put
  <2> QED BY <2>9, <2>10
<1>9. CASE Verify(w)
  <2>1. CASE op[w].next > Blocks
    <3>1. Moves(w, "recheck", op[w].plug, op[w].drive, op[w].next, op[w].late)
      BY <1>9, <2>1, <1>2, UpdatesMove DEF Verify, Goto
    <3>2. UNCHANGED <<Kept, device>>
      BY <1>9, <2>1 DEF Verify
    <3>3. Current(op[w])'
      BY <1>9, <2>1, <1>1, <3>1, <3>2, StaysCurrent DEF Moves, Verify
    <3>4. OnItsDisk(op[w])'
      BY <1>9, <2>1, <1>1, <1>2, <3>1, <3>2 DEF Moves, Same, Sound, OnItsDisk, device, Verify
    <3>5. ReadBack(op[w])'
      <4>1. \A b \in 1 .. Blocks : media[op[w].disk][b] = "image"
        BY <1>9, <2>1, <1>1, <1>2, UsbAssumption DEF Verify, Sound, ReadBack
      <4>2. Whole(op[w].disk)
        BY <4>1, <1>1, <1>2 DEF Whole, Current
      <4> QED BY <4>2, <1>9, <1>1, <3>1, <3>2
              DEF Moves, Same, Sound, ReadBack, Whole, WritePcs, RemovalPcs, device, Verify
    <3>6. StopsSoon(op[w])'
      BY <1>9, <2>1, <1>1, <3>1, NotLate, StopsInTime, WriteEnds, UsbAssumption
         DEF Moves, Verify, WritePcs, RemovalPcs
    <3> QED BY <1>1, <3>1, <3>2, <3>3, <3>4, <3>5, <3>6, InnerStep DEF Sound
  <2>2. CASE ~(op[w].next > Blocks)
    <3>1. Moves(w, "verify", op[w].plug, op[w].drive, op[w].next + 1, op[w].late)
      BY <1>9, <2>2, <1>2, UpdatesMove DEF Verify
    <3>2. UNCHANGED <<Kept, device>>
      BY <1>9, <2>2 DEF Verify
    <3>3. Current(op[w])'
      BY <1>9, <2>2, <1>1, <3>1, <3>2, StaysCurrent DEF Moves, Verify
    <3>4. OnItsDisk(op[w])'
      BY <1>9, <2>2, <1>1, <1>2, <3>1, <3>2 DEF Moves, Same, Sound, OnItsDisk, device, Verify
    <3>5. ReadBack(op[w])'
      BY <1>9, <2>2, <1>1, <1>2, <3>1, <3>2
         DEF Moves, Same, Sound, ReadBack, Whole, WritePcs, RemovalPcs, device, Verify,
           Connected, OnItsDisk
    <3>6. StopsSoon(op[w])'
      BY <1>9, <2>2, <1>1, <3>1, NotLate, StopsInTime, WriteEnds, UsbAssumption
         DEF Moves, Verify, WritePcs, RemovalPcs
    <3> QED BY <1>1, <3>1, <3>2, <3>3, <3>4, <3>5, <3>6, InnerStep DEF Sound
  <2> QED BY <2>1, <2>2
<1>10. CASE Recheck(w)
  <2>1. Moves(w, "locate", op[w].plug, op[w].drive, op[w].next, op[w].late)
    BY <1>10, <1>2, UpdatesMove DEF Recheck, Goto
  <2>2. UNCHANGED <<Kept, device>>
    BY <1>10 DEF Recheck
  <2>3. Current(op[w])'
    BY <1>10, <1>1, <2>1, <2>2, StaysCurrent DEF Moves, Recheck
  <2>4. OnItsDisk(op[w])'
    BY <1>10, <1>1, <1>2, <2>1, <2>2 DEF Moves, Same, Sound, OnItsDisk, device, Recheck
  <2>5. ReadBack(op[w])'
    BY <1>10, <1>1, <1>2, <2>1, <2>2
       DEF Moves, Same, Sound, ReadBack, Whole, WritePcs, RemovalPcs, device, Recheck
  <2>6. StopsSoon(op[w])'
    BY <1>10, <1>1, <2>1, NotLate, StopsInTime DEF Moves, Recheck, WritePcs, RemovalPcs
  <2> QED BY <1>1, <2>1, <2>2, <2>3, <2>4, <2>5, <2>6, InnerStep DEF Sound
<1>11. CASE WriteFails(w)
  <2>1. Moves(w, "done", op[w].plug, op[w].drive, op[w].next, op[w].late)
    BY <1>11, <1>2, UpdatesMove DEF WriteFails, Goto
  <2>2. UNCHANGED <<Kept, device>>
    BY <1>11 DEF WriteFails
  <2>3. Current(op[w])'
    BY <1>11, <1>1, <2>1, <2>2, StaysCurrent DEF Moves, WriteFails, WritePcs
  <2>4. OnItsDisk(op[w])'
    BY <1>11, <1>1, <1>2, <2>1, <2>2 DEF Moves, Same, Sound, OnItsDisk, device, WriteFails
  <2>5. ReadBack(op[w])'
    BY <1>11, <1>1, <1>2, <2>1, <2>2
       DEF Moves, Same, Sound, ReadBack, Whole, WritePcs, RemovalPcs, device, WriteFails,
         WritePcs
  <2>6. StopsSoon(op[w])'
    BY <1>11, <1>1, <1>2, <2>1, <2>2
       DEF Moves, Same, Sound, StopsSoon, Ended, Kept, WritePcs, RemovalPcs, WriteFails,
         WritePcs
  <2> QED BY <1>1, <2>1, <2>2, <2>3, <2>4, <2>5, <2>6, InnerStep DEF Sound
<1> QED
  BY <1>3, <1>4, <1>5, <1>6, <1>7, <1>8, <1>9, <1>10, <1>11 DEF WriteStep

(* The steps of a removal keep it sound.                                   *)
LEMMA RemovalStepDisk ==
    ASSUME IInv, DiskInv, NEW w \in Workers, RemovalStep(w)
    PROVE  DiskInv' /\ ConfirmedDisk
<1>1. Busy(w) /\ Sound(op[w]) /\ Current(op[w])
  BY DEF RemovalStep, Locate, ReadDrive, Inspect, GateUnmount, Unmount, Unmounted, GatePower,
     PowerOff, RemovalFails, RemovalPcs, Busy, DiskInv, Sound
<1>2. Shapes /\ plug \in Nat /\ op[w].next \in Nat
  BY DEF IInv, Shapes, Ops
<1>3. CASE Locate(w)
  <2>1. Moves(w, "drive", op[w].plug, op[w].drive, op[w].next, op[w].late)
    BY <1>3, <1>2, UpdatesMove DEF Locate, Goto
  <2>2. UNCHANGED <<Kept, device>>
    BY <1>3 DEF Locate
  <2>3. Current(op[w])'
    BY <1>3, <1>1, <2>1, <2>2, StaysCurrent DEF Moves, Locate
  <2>4. OnItsDisk(op[w])'
    BY <1>3, <1>1, <1>2, <2>1, <2>2 DEF Moves, Same, Sound, OnItsDisk, device, Locate
  <2>5. ReadBack(op[w])'
    BY <1>3, <1>1, <1>2, <2>1, <2>2
       DEF Moves, Same, Sound, ReadBack, Whole, WritePcs, RemovalPcs, device, Locate
  <2>6. StopsSoon(op[w])'
    BY <1>3, <1>1, <2>1, NotLate, StopsInTime DEF Moves, Locate, WritePcs, RemovalPcs
  <2> QED BY <1>1, <2>1, <2>2, <2>3, <2>4, <2>5, <2>6, InnerStep DEF Sound
<1>4. CASE ReadDrive(w)
  <2>1. Moves(w, "inspect", op[w].plug, disk, op[w].next, op[w].late)
    BY <1>4, <1>2, UpdatesMove DEF ReadDrive
  <2>2. UNCHANGED <<Kept, device>>
    BY <1>4 DEF ReadDrive
  <2>3. Current(op[w])'
    BY <1>4, <1>1, <2>1, <2>2, StaysCurrent DEF Moves, ReadDrive
  <2>4. OnItsDisk(op[w])'
    BY <1>4, <1>1, <1>2, <2>1, <2>2 DEF Moves, Same, Sound, OnItsDisk, device, ReadDrive
  <2>5. ReadBack(op[w])'
    BY <1>4, <1>1, <1>2, <2>1, <2>2
       DEF Moves, Same, Sound, ReadBack, Whole, WritePcs, RemovalPcs, device, ReadDrive
  <2>6. StopsSoon(op[w])'
    BY <1>4, <1>1, <2>1, NotLate, StopsInTime DEF Moves, ReadDrive, WritePcs, RemovalPcs
  <2> QED BY <1>1, <2>1, <2>2, <2>3, <2>4, <2>5, <2>6, InnerStep DEF Sound
<1>5. CASE Inspect(w)
  <2>1. CASE mounted
    <3>1. Moves(w, "unmount", op[w].plug, op[w].drive, op[w].next, op[w].late)
      BY <1>5, <2>1, <1>2, UpdatesMove DEF Inspect, Goto
    <3>2. UNCHANGED <<Kept, device>>
      BY <1>5, <2>1 DEF Inspect
    <3>3. Current(op[w])'
      BY <1>5, <2>1, <1>1, <3>1, <3>2, StaysCurrent DEF Moves, Inspect
    <3>4. OnItsDisk(op[w])'
      BY <1>5, <2>1, <1>1, <1>2, <3>1, <3>2
         DEF Moves, Same, Sound, OnItsDisk, device, Inspect, Inspected, Identified
    <3>5. ReadBack(op[w])'
      BY <1>5, <2>1, <1>1, <1>2, <3>1, <3>2
         DEF Moves, Same, Sound, ReadBack, Whole, WritePcs, RemovalPcs, device, Inspect
    <3>6. StopsSoon(op[w])'
      BY <1>5, <2>1, <1>1, <3>1, NotLate, StopsInTime
         DEF Moves, Inspect, Inspected, Active, Expired, Ended, WritePcs, RemovalPcs
    <3> QED BY <1>1, <3>1, <3>2, <3>3, <3>4, <3>5, <3>6, InnerStep DEF Sound
  <2>2. CASE ~(mounted)
    <3>1. Moves(w, "unmounted", op[w].plug, op[w].drive, op[w].next, op[w].late)
      BY <1>5, <2>2, <1>2, UpdatesMove DEF Inspect, Goto
    <3>2. UNCHANGED <<Kept, device>>
      BY <1>5, <2>2 DEF Inspect
    <3>3. Current(op[w])'
      BY <1>5, <2>2, <1>1, <3>1, <3>2, StaysCurrent DEF Moves, Inspect
    <3>4. OnItsDisk(op[w])'
      BY <1>5, <2>2, <1>1, <1>2, <3>1, <3>2
         DEF Moves, Same, Sound, OnItsDisk, device, Inspect, Inspected, Identified
    <3>5. ReadBack(op[w])'
      BY <1>5, <2>2, <1>1, <1>2, <3>1, <3>2
         DEF Moves, Same, Sound, ReadBack, Whole, WritePcs, RemovalPcs, device, Inspect
    <3>6. StopsSoon(op[w])'
      BY <1>5, <2>2, <1>1, <3>1, NotLate, StopsInTime
         DEF Moves, Inspect, Inspected, Active, Expired, Ended, WritePcs, RemovalPcs
    <3> QED BY <1>1, <3>1, <3>2, <3>3, <3>4, <3>5, <3>6, InnerStep DEF Sound
  <2> QED BY <2>1, <2>2
<1>6. CASE GateUnmount(w)
  <2>1. Moves(w, "unmounting", op[w].plug, op[w].drive, op[w].next, op[w].late)
    BY <1>6, <1>2, UpdatesMove DEF GateUnmount, Goto
  <2>2. UNCHANGED <<Kept, device>>
    BY <1>6 DEF GateUnmount
  <2>3. Current(op[w])'
    BY <1>6, <1>1, <2>1, <2>2, StaysCurrent DEF Moves, GateUnmount
  <2>4. OnItsDisk(op[w])'
    BY <1>6, <1>1, <1>2, <2>1, <2>2 DEF Moves, Same, Sound, OnItsDisk, device, GateUnmount
  <2>5. ReadBack(op[w])'
    BY <1>6, <1>1, <1>2, <2>1, <2>2
       DEF Moves, Same, Sound, ReadBack, Whole, WritePcs, RemovalPcs, device, GateUnmount
  <2>6. StopsSoon(op[w])'
    BY <1>6, <1>1, <2>1, NotLate, StopsInTime
       DEF Moves, GateUnmount, Inspected, Active, Expired, Ended, WritePcs, RemovalPcs
  <2> QED BY <1>1, <2>1, <2>2, <2>3, <2>4, <2>5, <2>6, InnerStep DEF Sound
<1>7. CASE Unmount(w)
  <2>1. op[w].late = 0
    BY <1>1, <1>7, NotLate DEF Unmount, RemovalPcs
  <2>2. Moves(w, "unmounted", op[w].plug, op[w].drive, op[w].next, Late(w))
    BY <1>2, <1>7, UpdatesMove DEF Unmount, Did
  <2>3. UNCHANGED <<Kept, plug, media>> /\ disk' \in {disk, None}
    BY <1>7 DEF Unmount
  <2>4. Current(op[w])'
    BY <1>1, <1>7, <2>2, <2>3, StaysCurrent DEF Moves, Unmount
  <2>5. OnItsDisk(op[w])'
    BY <1>1, <1>7, <2>2, <2>3 DEF Moves, Same, Unmount, Sound, OnItsDisk
  <2>6. ReadBack(op[w])'
    BY <1>1, <1>7, <2>2, <2>3 DEF Moves, Same, Unmount, Sound, ReadBack, WritePcs, RemovalPcs, Whole
  <2>7. StopsSoon(op[w])'
    BY <2>1, <2>2, <2>3 DEF Moves, Same, StopsSoon, Late, Expired, Ended, Kept
  <2>8. DiskInv'
    BY <1>1, <2>2, <2>3, <2>4, <2>5, <2>6, <2>7, WithinStep DEF Moves, Sound
  <2>9. ConfirmedDisk
    BY <1>1, <1>7, <2>2, <2>3 DEF ConfirmedDisk, Moves, Unmount, Sound, OnItsDisk
  <2> QED BY <2>8, <2>9
<1>8. CASE Unmounted(w)
  <2>1. Moves(w, "power", op[w].plug, op[w].drive, op[w].next, op[w].late)
    BY <1>8, <1>2, UpdatesMove DEF Unmounted, Goto
  <2>2. UNCHANGED <<Kept, device>>
    BY <1>8 DEF Unmounted
  <2>3. Current(op[w])'
    BY <1>8, <1>1, <2>1, <2>2, StaysCurrent DEF Moves, Unmounted
  <2>4. OnItsDisk(op[w])'
    BY <1>8, <1>1, <1>2, <2>1, <2>2 DEF Moves, Same, Sound, OnItsDisk, device, Unmounted
  <2>5. ReadBack(op[w])'
    BY <1>8, <1>1, <1>2, <2>1, <2>2
       DEF Moves, Same, Sound, ReadBack, Whole, WritePcs, RemovalPcs, device, Unmounted
  <2>6. StopsSoon(op[w])'
    BY <1>8, <1>1, <2>1, NotLate, StopsInTime
       DEF Moves, Unmounted, Inspected, Active, Expired, Ended, WritePcs, RemovalPcs
  <2> QED BY <1>1, <2>1, <2>2, <2>3, <2>4, <2>5, <2>6, InnerStep DEF Sound
<1>9. CASE GatePower(w)
  <2>1. Moves(w, "powering", op[w].plug, op[w].drive, op[w].next, op[w].late)
    BY <1>9, <1>2, UpdatesMove DEF GatePower, Goto
  <2>2. UNCHANGED <<Kept, device>>
    BY <1>9 DEF GatePower
  <2>3. Current(op[w])'
    BY <1>9, <1>1, <2>1, <2>2, StaysCurrent DEF Moves, GatePower
  <2>4. OnItsDisk(op[w])'
    BY <1>9, <1>1, <1>2, <2>1, <2>2 DEF Moves, Same, Sound, OnItsDisk, device, GatePower
  <2>5. ReadBack(op[w])'
    BY <1>9, <1>1, <1>2, <2>1, <2>2
       DEF Moves, Same, Sound, ReadBack, Whole, WritePcs, RemovalPcs, device, GatePower
  <2>6. StopsSoon(op[w])'
    BY <1>9, <1>1, <2>1, NotLate, StopsInTime
       DEF Moves, GatePower, Inspected, Active, Expired, Ended, WritePcs, RemovalPcs
  <2> QED BY <1>1, <2>1, <2>2, <2>3, <2>4, <2>5, <2>6, InnerStep DEF Sound
<1>10. CASE PowerOff(w)
  <2>1. op[w].late = 0
    BY <1>1, <1>10, NotLate DEF PowerOff, RemovalPcs
  <2>2. Moves(w, "removed", op[w].plug, op[w].drive, op[w].next, Late(w))
    BY <1>2, <1>10, UpdatesMove DEF PowerOff, Did
  <2>3. UNCHANGED <<Kept, plug, media>> /\ disk' \in {disk, None}
    BY <1>10 DEF PowerOff
  <2>4. Current(op[w])'
    BY <1>1, <1>10, <2>2, <2>3, StaysCurrent DEF Moves, PowerOff
  <2>5. OnItsDisk(op[w])'
    BY <1>1, <1>10, <2>2, <2>3 DEF Moves, Same, PowerOff, Sound, OnItsDisk
  <2>6. ReadBack(op[w])'
    BY <1>1, <1>10, <2>2, <2>3
       DEF Moves, Same, PowerOff, Sound, ReadBack, WritePcs, RemovalPcs, Whole
  <2>7. StopsSoon(op[w])'
    BY <2>1, <2>2, <2>3 DEF Moves, Same, StopsSoon, Late, Expired, Ended, Kept
  <2>8. DiskInv'
    BY <1>1, <2>2, <2>3, <2>4, <2>5, <2>6, <2>7, WithinStep DEF Moves, Sound
  <2>9. ConfirmedDisk
    BY <1>1, <1>10, <2>2, <2>3 DEF ConfirmedDisk, Moves, PowerOff, Sound, OnItsDisk
  <2> QED BY <2>8, <2>9
<1>11. CASE RemovalFails(w)
  <2>1. Moves(w, "kept", op[w].plug, op[w].drive, op[w].next, op[w].late)
    BY <1>11, <1>2, UpdatesMove DEF RemovalFails, Goto
  <2>2. UNCHANGED <<Kept, device>>
    BY <1>11 DEF RemovalFails
  <2>3. Current(op[w])'
    BY <1>11, <1>1, <2>1, <2>2, StaysCurrent DEF Moves, RemovalFails, RemovalPcs
  <2>4. OnItsDisk(op[w])'
    BY <1>11, <1>1, <1>2, <2>1, <2>2 DEF Moves, Same, Sound, OnItsDisk, device, RemovalFails
  <2>5. ReadBack(op[w])'
    BY <1>11, <1>1, <1>2, <2>1, <2>2
       DEF Moves, Same, Sound, ReadBack, Whole, WritePcs, RemovalPcs, device, RemovalFails
  <2>6. StopsSoon(op[w])'
    BY <1>11, <1>1, <1>2, <2>1, <2>2
       DEF Moves, Same, Sound, StopsSoon, Ended, Kept, WritePcs, RemovalPcs, RemovalFails,
         RemovalPcs
  <2> QED BY <1>1, <2>1, <2>2, <2>3, <2>4, <2>5, <2>6, InnerStep DEF Sound
<1> QED
  BY <1>3, <1>4, <1>5, <1>6, <1>7, <1>8, <1>9, <1>10, <1>11 DEF RemovalStep

---------------------------------------------------------------------------
(* The manager's actions and the disk.                                     *)

\* Every worker's operation is the same as before, but for its flag.
OnlyFlags ==
    \A w \in Workers :
       /\ op'[w].pc = op[w].pc /\ op'[w].kind = op[w].kind
       /\ op'[w].generation = op[w].generation /\ op'[w].disk = op[w].disk
       /\ op'[w].expires = op[w].expires /\ op'[w].plug = op[w].plug
       /\ op'[w].drive = op[w].drive /\ op'[w].next = op[w].next
       /\ op'[w].late = op[w].late
       /\ op[w].cancelled => op'[w].cancelled

(* Setting the flags changes nothing else.                                 *)
LEMMA RevokeOnlyFlags == ASSUME IInv, op' = Revoke PROVE OnlyFlags
<1>1. ASSUME NEW w \in Workers
      PROVE  LET r == [op[w] EXCEPT !.cancelled = TRUE]
             IN /\ r.pc = op[w].pc /\ r.kind = op[w].kind
                /\ r.generation = op[w].generation /\ r.disk = op[w].disk
                /\ r.expires = op[w].expires /\ r.plug = op[w].plug
                /\ r.drive = op[w].drive /\ r.next = op[w].next /\ r.late = op[w].late
                /\ r.cancelled
  <2>1. op[w] \in Ops
    BY DEF IInv, Shapes
  <2> QED BY <2>1 DEF Ops
<1> QED BY <1>1 DEF OnlyFlags, Revoke

(* A step that at most sets flags, forgets what was offered, lets time pass *)
(* or replugs the disk.                                                    *)
LEMMA OutsideStep ==
    ASSUME IInv, DiskInv, OnlyFlags, UNCHANGED <<generation, retained, media>>,
           armed' \in {armed, None}, pending' \in {pending, None},
           now' \in Nat, now' >= now,
           \/ UNCHANGED <<disk, plug>>
           \/ plug' = plug + 1
    PROVE  DiskInv' /\ ConfirmedDisk
<1>1. now \in Nat /\ plug \in Nat /\ \A w \in Workers : op[w] \in Ops
  BY DEF IInv, Shapes
<1>2. Offered'
  BY DEF DiskInv, Offered, Whole
<1>3. ASSUME NEW w \in Workers, Busy(w)
      PROVE  Sound(op[w])'
  <2>1. Sound(op[w]) /\ op[w] \in Ops /\ op[w].plug \in Nat /\ op[w].expires \in Nat
    BY <1>1, <1>3 DEF DiskInv, Ops
  <2>2. Current(op[w])'
    BY <2>1 DEF OnlyFlags, Sound, Current
  <2>3. OnItsDisk(op[w])'
    BY <1>1, <2>1 DEF OnlyFlags, Sound, OnItsDisk
  <2>4. ReadBack(op[w])'
    BY <2>1 DEF OnlyFlags, Sound, ReadBack, Whole
  <2>5. StopsSoon(op[w])'
    BY <1>1, <2>1 DEF OnlyFlags, Sound, StopsSoon, Ended
  <2> QED BY <2>2, <2>3, <2>4, <2>5 DEF Sound
<1>4. \A w \in Workers : IF Busy(w)' THEN Sound(op[w])' ELSE op'[w].late = 0
  BY <1>3 DEF OnlyFlags, Busy, DiskInv
<1>5. DiskInv'
  BY <1>2, <1>4 DEF DiskInv, Busy
<1>6. ConfirmedDisk
  BY DEF OnlyFlags, ConfirmedDisk
<1> QED BY <1>5, <1>6

(* Confirming a disk leaves an operation under way the last of its kind.   *)
LEMMA ArmDisk == ASSUME IInv, DiskInv, NEW d \in Disks, Arm(d) PROVE DiskInv' /\ ConfirmedDisk
<1>1. /\ OnlyFlags /\ pending' = None
      /\ generation' = generation + 1
      /\ UNCHANGED <<now, retained, media, disk, plug>>
  BY RevokeOnlyFlags, UsbAssumption DEF Arm, device
<1>2. generation \in Nat /\ \A w \in Workers : op[w] \in Ops
  BY DEF IInv, Shapes
<1>3. Offered'
  BY <1>1 DEF Offered
<1>4. ASSUME NEW w \in Workers, Busy(w)
      PROVE  Sound(op[w])'
  <2>1. Sound(op[w]) /\ op[w].generation \in Nat
    BY <1>2, <1>4 DEF DiskInv, Ops
  <2>2. Current(op[w])'
    BY <1>1, <1>2, <2>1 DEF OnlyFlags, Sound, Current
  <2>3. OnItsDisk(op[w])'
    BY <1>1, <2>1 DEF OnlyFlags, Sound, OnItsDisk
  <2>4. ReadBack(op[w])'
    BY <1>1, <2>1 DEF OnlyFlags, Sound, ReadBack, Whole
  <2>5. StopsSoon(op[w])'
    BY <1>1, <2>1 DEF OnlyFlags, Sound, StopsSoon, Ended
  <2> QED BY <2>2, <2>3, <2>4, <2>5 DEF Sound
<1>5. \A w \in Workers : IF Busy(w)' THEN Sound(op[w])' ELSE op'[w].late = 0
  BY <1>1, <1>4 DEF OnlyFlags, Busy, DiskInv
<1>6. DiskInv'
  BY <1>1, <1>3, <1>5 DEF DiskInv, Busy
<1>7. ConfirmedDisk
  BY <1>1 DEF OnlyFlags, ConfirmedDisk
<1> QED BY <1>6, <1>7

(* Once no worker is busy, only what is offered matters.                   *)
LEMMA AllIdle ==
    ASSUME DiskInv, \A w \in Workers : ~Busy(w)' /\ op'[w].late = 0,
           Offered', retained' \in Nat, UNCHANGED media
    PROVE  DiskInv' /\ ConfirmedDisk
<1>1. DiskInv'
  BY DEF DiskInv
<1>2. ConfirmedDisk
  BY DEF ConfirmedDisk, Busy
<1> QED BY <1>1, <1>2

(* When the process has ended nothing is offered.                          *)
LEMMA ExitDisk == ASSUME IInv, DiskInv, Exit PROVE DiskInv' /\ ConfirmedDisk
<1>1. \A w \in Workers : ~Busy(w)' /\ op'[w].late = 0
  BY DEF Exit, Idle, Busy
<1>2. Offered' /\ retained' \in Nat /\ UNCHANGED media
  BY DEF Exit, Offered, device, DiskInv
<1> QED BY <1>1, <1>2, AllIdle

(* A worker that has closed was the only one.                              *)
LEMMA NobodyLeft ==
    ASSUME IInv, DiskInv, NEW w \in Workers, Busy(w), op' = [op EXCEPT ![w] = Idle]
    PROVE  \A v \in Workers : ~Busy(v)' /\ op'[v].late = 0
<1>1. op \in [Workers -> Ops]
  BY DEF IInv, Shapes
<1>2. op'[w] = Idle /\ \A v \in Workers : v # w => op'[v] = op[v] /\ ~Busy(v)
  BY <1>1, Alone
<1> QED BY <1>2 DEF Busy, Idle, DiskInv

(* A write that closes.                                                    *)
LEMMA FinishWriteDisk ==
    ASSUME IInv, DiskInv, NEW w \in Workers, FinishWrite(w) PROVE DiskInv' /\ ConfirmedDisk
<1>1. Busy(w) /\ op' = [op EXCEPT ![w] = Idle]
      /\ UNCHANGED <<armed, pending, generation, retained, media>>
  BY DEF FinishWrite, Busy, device, history
<1>2. Offered'
  BY <1>1 DEF DiskInv, Offered, Whole
<1> QED BY <1>1, <1>2, NobodyLeft, AllIdle DEF DiskInv

(* The right a failed removal leaves is to a disk that was verified.       *)
LEMMA RightIsSound ==
    ASSUME IInv, DiskInv, NEW w \in Workers, op[w].pc = "kept", NEW e \in Nat
    PROVE  /\ RetryOf(w, e).disk \in Disks /\ Whole(RetryOf(w, e).disk)
           /\ RetryOf(w, e).expires = e
           /\ RetryOf(w, e).generation = op[w].generation
           /\ RetryOf(w, e).generation <= generation
<1>1. Sound(op[w])
  BY DEF DiskInv, Busy
<1> QED BY <1>1 DEF Sound, Current, ReadBack, RetryOf

(* A retry that closes hands its right back with the time it had left.     *)
LEMMA FinishRetryDisk ==
    ASSUME IInv, DiskInv, NEW w \in Workers, FinishRetry(w) PROVE DiskInv' /\ ConfirmedDisk
<1>1. Busy(w) /\ op' = [op EXCEPT ![w] = Idle] /\ op[w].kind = "retry"
      /\ UNCHANGED <<armed, generation, retained, media>>
  BY DEF FinishRetry, Busy, device, history
<1>2. Current(op[w]) /\ op[w].expires \in Nat
  BY <1>1 DEF DiskInv, Sound, IInv, Shapes, Ops
<1>3. Offered'
  <2>1. CASE Restorable(w)
    <3>1. pending' = RetryOf(w, op[w].expires) /\ op[w].pc = "kept"
      BY <2>1 DEF FinishRetry, Restorable
    <3>2. armed = None
      BY <1>2, <2>1 DEF Restorable, Current
    <3>3. op[w].expires <= retained + TTL
      BY <1>1, <1>2 DEF Current
    <3> QED BY <1>1, <1>2, <3>1, <3>2, <3>3, RightIsSound DEF Offered, Whole
  <2>2. CASE ~Restorable(w)
    <3>1. pending' = pending
      BY <2>2 DEF FinishRetry
    <3> QED BY <1>1, <3>1 DEF DiskInv, Offered, Whole
  <2> QED BY <2>1, <2>2
<1> QED BY <1>1, <1>3, NobodyLeft, AllIdle DEF DiskInv

(* A write that could not remove its disk leaves a right for TTL ticks.    *)
LEMMA RetainRetryDisk ==
    ASSUME IInv, DiskInv, NEW w \in Workers, RetainRetry(w) PROVE DiskInv' /\ ConfirmedDisk
<1>1. /\ Busy(w) /\ op[w].pc = "kept" /\ op[w].kind = "write"
      /\ UNCHANGED <<armed, generation, media, disk, plug, now>>
  BY DEF RetainRetry, Busy, device
<1>2. Sound(op[w]) /\ now \in Nat /\ TTL \in Nat /\ Shapes
  BY <1>1, UsbAssumption DEF DiskInv, IInv, Shapes
<1>3. Moves(w, "done", op[w].plug, op[w].drive, op[w].next, op[w].late)
  BY <1>2, UpdatesMove DEF RetainRetry
<1>4. Sound(op[w])'
  <2>1. Current(op[w])'
    BY <1>1, <1>2, <1>3 DEF Moves, Same, Sound, Current
  <2>2. OnItsDisk(op[w])'
    BY <1>1, <1>2, <1>3 DEF Moves, Same, Sound, OnItsDisk
  <2>3. ReadBack(op[w])'
    BY <1>3 DEF Moves, ReadBack, WritePcs, RemovalPcs
  <2>4. StopsSoon(op[w])'
    BY <1>1, <1>2, <1>3 DEF Moves, Same, Sound, StopsSoon, Ended
  <2> QED BY <2>1, <2>2, <2>3, <2>4 DEF Sound
<1>5. Offered' /\ retained' \in Nat
  <2>1. CASE Retainable(w)
    <3>1. pending' = RetryOf(w, now + TTL) /\ retained' = now
      BY <2>1 DEF RetainRetry
    <3>2. armed = None
      BY <1>2, <2>1 DEF Retainable, Sound, Current
    <3>3. now + TTL \in Nat
      BY <1>2
    <3>4. /\ pending'.disk \in Disks /\ Whole(pending'.disk)
          /\ pending'.expires = now + TTL /\ pending'.generation <= generation
      BY <1>1, <3>1, <3>3, RightIsSound
    <3>5. Whole(pending.disk)'
      BY <1>1, <3>4 DEF Whole
    <3> QED BY <1>1, <1>2, <3>1, <3>2, <3>3, <3>4, <3>5 DEF Offered
  <2>2. CASE ~Retainable(w)
    <3>1. pending' = pending /\ retained' = retained
      BY <2>2 DEF RetainRetry
    <3> QED BY <1>1, <3>1 DEF DiskInv, Offered, Whole
  <2> QED BY <2>1, <2>2
<1>6. \A v \in Workers : v # w => ~Busy(v) /\ op'[v] = op[v]
  BY <1>1, <1>3, Alone DEF Moves
<1>7. \A v \in Workers : IF Busy(v)' THEN Sound(op[v])' ELSE op'[v].late = 0
  BY <1>3, <1>4, <1>6 DEF Busy, DiskInv, Moves
<1>8. DiskInv'
  BY <1>1, <1>5, <1>7 DEF DiskInv, Busy
<1>9. ConfirmedDisk
  BY <1>1, <1>3 DEF ConfirmedDisk, Moves
<1> QED BY <1>8, <1>9

(* A worker begins an operation that is sound from the start.              *)
LEMMA BeginDisk ==
    ASSUME IInv, DiskInv, NEW w \in Workers, activeToken = 0,
           \A v \in Workers : v # w => op'[v] = op[v],
           op'[w].pc \in {"validate", "locate"}, Sound(op[w])', Offered',
           UNCHANGED <<retained, media>>
    PROVE  DiskInv' /\ ConfirmedDisk
<1>1. \A v \in Workers : ~Busy(v)
  BY Alone
<1>2. \A v \in Workers : IF Busy(v)' THEN Sound(op[v])' ELSE op'[v].late = 0
  BY <1>1 DEF Busy, DiskInv
<1>3. DiskInv'
  BY <1>2 DEF DiskInv, Busy
<1>4. ConfirmedDisk
  BY <1>1 DEF ConfirmedDisk, Busy
<1> QED BY <1>3, <1>4

(* A write begins on the disk that was confirmed.                          *)
LEMMA BeginWriteDisk ==
    ASSUME IInv, DiskInv, NEW w \in Workers, NEW t \in Tokens, BeginWrite(w, t)
    PROVE  DiskInv' /\ ConfirmedDisk
<1>1. /\ activeToken = 0 /\ armed # None /\ armed' = None
      /\ UNCHANGED <<pending, generation, retained, media, plug>>
  BY DEF BeginWrite, device, history
<1>2. op \in [Workers -> Ops] /\ generation \in Nat /\ plug \in Nat /\ armed.disk \in Disks
  BY <1>1 DEF IInv, Shapes, Intents
<1>3. op' = [op EXCEPT ![w] = [Idle EXCEPT !.pc = "validate", !.kind = "write", !.token = t,
                                           !.generation = generation, !.disk = armed.disk]]
  BY DEF BeginWrite
<1>4. /\ \A v \in Workers : v # w => op'[v] = op[v]
      /\ op'[w].pc = "validate" /\ op'[w].kind = "write" /\ op'[w].generation = generation
      /\ op'[w].disk = armed.disk /\ op'[w].plug = 0 /\ op'[w].late = 0
  BY <1>2, <1>3 DEF Idle
<1>5. pending = None
  BY <1>1 DEF DiskInv, Offered
<1>6. Sound(op[w])'
  BY <1>1, <1>2, <1>4, <1>5 DEF Sound, Current, OnItsDisk, ReadBack, StopsSoon, WritePcs, RemovalPcs
<1>7. Offered'
  BY <1>1, <1>5 DEF Offered
<1> QED BY <1>1, <1>4, <1>6, <1>7, BeginDisk

(* A retry begins on the disk whose removal failed.                        *)
LEMMA BeginRetryDisk ==
    ASSUME IInv, DiskInv, NEW w \in Workers, NEW t \in Tokens, BeginRetry(w, t)
    PROVE  DiskInv' /\ ConfirmedDisk
<1>1. /\ activeToken = 0 /\ pending # None /\ pending' = None
      /\ UNCHANGED <<armed, generation, retained, media, plug>>
  BY DEF BeginRetry, device, history
<1>2. op \in [Workers -> Ops] /\ plug \in Nat
  BY DEF IInv, Shapes
<1>3. op' = [op EXCEPT ![w] = [Idle EXCEPT !.pc = "locate", !.kind = "retry", !.token = t,
                                           !.generation = pending.generation,
                                           !.disk = pending.disk,
                                           !.expires = pending.expires]]
  BY DEF BeginRetry
<1>4. /\ \A v \in Workers : v # w => op'[v] = op[v]
      /\ op'[w].pc = "locate" /\ op'[w].generation = pending.generation
      /\ op'[w].disk = pending.disk /\ op'[w].expires = pending.expires
      /\ op'[w].plug = 0 /\ op'[w].late = 0
  BY <1>2, <1>3 DEF Idle
<1>5. /\ armed = None /\ pending.disk \in Disks /\ Whole(pending.disk)
      /\ pending.expires <= retained + TTL /\ pending.generation <= generation
  BY <1>1 DEF DiskInv, Offered
<1>6. Sound(op[w])'
  BY <1>1, <1>2, <1>4, <1>5 DEF Sound, Current, OnItsDisk, ReadBack, StopsSoon, WritePcs, Whole
<1>7. Offered'
  BY <1>1, <1>5 DEF Offered
<1> QED BY <1>1, <1>4, <1>6, <1>7, BeginDisk

---------------------------------------------------------------------------
(* Every initial state satisfies the invariant of the disk.                *)
LEMMA InitDiskInv == Init => DiskInv
<1> SUFFICES ASSUME Init PROVE DiskInv
  OBVIOUS
<1>1. \A w \in Workers : ~Busy(w) /\ op[w].late = 0
  BY DEF Init, Idle, Busy
<1> QED BY <1>1 DEF Init, DiskInv, Offered

(* Every step keeps it, and touches only the disk that was confirmed.      *)
LEMMA NextDiskInv == IInv /\ DiskInv /\ [Next]_vars => DiskInv' /\ ConfirmedDisk
<1> SUFFICES ASSUME IInv, DiskInv, [Next]_vars PROVE DiskInv' /\ ConfirmedDisk
  OBVIOUS
<1>1. now \in Nat /\ now + 1 \in Nat /\ now >= now /\ now + 1 >= now
  BY DEF IInv, Shapes
<1>2. ASSUME UNCHANGED op PROVE OnlyFlags
  BY <1>2 DEF OnlyFlags
<1>3. CASE UNCHANGED vars
  BY <1>1, <1>2, <1>3, OutsideStep DEF vars, manager, device, history
<1>4. CASE Command
  <2>1. CASE \E d \in Disks : Arm(d)
    BY <2>1, ArmDisk
  <2>2. CASE \E t \in Tokens : Cancel(t)
    <3>1. PICK t \in Tokens : Cancel(t)
      BY <2>2
    <3>2. OnlyFlags
      BY <1>2, <3>1, RevokeOnlyFlags DEF Cancel
    <3> QED BY <1>1, <3>1, <3>2, OutsideStep DEF Cancel, device
  <2>3. CASE \E t \in Tokens : RefuseWrite(t)
    BY <1>1, <1>2, <2>3, OutsideStep DEF RefuseWrite, device, history
  <2>4. CASE \E t \in Tokens : RefuseRetry(t)
    BY <1>1, <1>2, <2>4, OutsideStep DEF RefuseRetry, device, history
  <2>5. CASE \E t \in Tokens, w \in Workers : BeginWrite(w, t)
    BY <2>5, BeginWriteDisk
  <2>6. CASE \E t \in Tokens, w \in Workers : BeginRetry(w, t)
    BY <2>6, BeginRetryDisk
  <2>7. CASE Status
    BY <1>1, <1>2, <2>7, OutsideStep DEF Status, device, history
  <2> QED BY <1>4, <2>1, <2>2, <2>3, <2>4, <2>5, <2>6, <2>7 DEF Command
<1>5. CASE Environment
  <2>1. CASE Tick
    BY <1>1, <1>2, <2>1, OutsideStep DEF Tick, manager, device, history
  <2>2. CASE Automount
    BY <1>1, <1>2, <2>2, OutsideStep DEF Automount, manager, history
  <2>3. CASE RequestClose
    BY <1>1, <1>2, <2>3, OutsideStep DEF RequestClose, manager, device, history
  <2>4. CASE CleanUp
    BY <1>1, <2>4, RevokeOnlyFlags, OutsideStep DEF CleanUp, CancelAll, device
  <2>5. CASE Exit
    BY <2>5, ExitDisk
  <2>6. CASE \E d \in Disks \cup {None} : Replug(d)
    BY <1>1, <1>2, <2>6, OutsideStep DEF Replug, manager, history
  <2> QED BY <1>5, <2>1, <2>2, <2>3, <2>4, <2>5, <2>6 DEF Environment
<1>6. ASSUME NEW w \in Workers, WorkerStep(w) PROVE DiskInv' /\ ConfirmedDisk
  <2>1. CASE WriteStep(w)
    BY <2>1, WriteStepDisk
  <2>2. CASE RemovalStep(w)
    BY <2>2, RemovalStepDisk
  <2>3. CASE RetainRetry(w)
    BY <2>3, RetainRetryDisk
  <2>4. CASE FinishWrite(w)
    BY <2>4, FinishWriteDisk
  <2>5. CASE FinishRetry(w)
    BY <2>5, FinishRetryDisk
  <2> QED BY <1>6, <2>1, <2>2, <2>3, <2>4, <2>5 DEF WorkerStep
<1> QED BY <1>3, <1>4, <1>5, <1>6 DEF Next

(* The inductive invariant of the disks and of what is done to them.       *)
THEOREM DiskInvariant == Spec => [](IInv /\ DiskInv)
BY InitIInv, NextIInv, InitDiskInv, NextDiskInv, PTL DEF Spec

(* An operation whose flag was set, or whose time was up, does at most the *)
(* one thing it was about to do (copy_and_verify_usb_image, the polls of   *)
(* safely_remove_linux_usb).                                               *)
THEOREM RevokedOperationsStop == Spec => []RevokedStops
<1>1. DiskInv => RevokedStops
  BY DEF DiskInv, Sound, StopsSoon, RevokedStops
<1> QED BY <1>1, DiskInvariant, PTL

(* Only the disk the user confirmed is ever written or powered off, it is  *)
(* removed only as it was verified, and the right to retry a removal ends  *)
(* in time, whatever is replugged, cancelled or confirmed between any two  *)
(* checks (image.rs:2905).                                                 *)
THEOREM OnlyConfirmedDisk == Spec => DiskSafe
<1>1. IInv /\ DiskInv => VerifiedRemoval
  <2> SUFFICES ASSUME IInv, DiskInv PROVE VerifiedRemoval
    OBVIOUS
  <2>1. pending # None => Whole(pending.disk) /\ pending.expires <= retained + TTL
    BY DEF DiskInv, Offered
  <2>2. ASSUME NEW w \in Workers, op[w].pc \in RemovalPcs PROVE Whole(op[w].disk)
    BY <2>2 DEF DiskInv, Busy, Sound, ReadBack, RemovalPcs
  <2> QED BY <2>1, <2>2 DEF VerifiedRemoval
<1>2. IInv /\ DiskInv /\ [Next]_vars => ConfirmedDisk
  BY NextDiskInv
<1> QED BY <1>1, <1>2, DiskInvariant, PTL DEF Spec, DiskSafe
=============================================================================
