-------------------------- MODULE UsbPreparation --------------------------
(***************************************************************************)
(* The USB writer of src-tauri/src/image.rs in its Linux build: the mutex  *)
(* guarded UsbPreparationManager, the worker threads that write a disk,    *)
(* read it back and remove it safely, the retry of a removal that failed,  *)
(* and the closing of the application.                                     *)
(*                                                                         *)
(* Each action is one critical section of the manager's mutex, or one      *)
(* stretch of a worker between two points at which the flag it shares with *)
(* the manager, the disk or the clock may change.  The device is one node  *)
(* (sdb): which disk is behind it changes when the user replugs.           *)
(***************************************************************************)
EXTENDS Naturals, FiniteSets

CONSTANTS
    Disks,       \* identity tokens of the disks a user may plug in
    Workers,     \* threads; 1..n, so that an idle one is picked in order
    Blocks,      \* 4 MiB buffers an image is copied in
    TTL,         \* USB_PREFLIGHT_TTL in ticks of the clock
    MaxTime,     \* bound: ticks of the clock
    MaxArms,     \* bound: intents ever confirmed
    MaxPlugs,    \* bound: times the disk is replugged
    None

ASSUME UsbAssumption ==
    /\ Workers \subseteq Nat
    /\ {Blocks, TTL, MaxTime, MaxArms, MaxPlugs} \subseteq Nat
    /\ Blocks > 0
    /\ None \notin Disks \cup Workers
    /\ None \notin Nat

VARIABLES
    now,            \* the monotonic clock
    issued,         \* session tokens ever issued: 1..issued
    generation,     \* UsbPreparationManager.generation
    armed,          \* .armed
    activeToken,    \* .active_token, 0 for None
    activeWrite,    \* .active_write, by the worker that shares its flag
    activeRemoval,  \* .active_removal, likewise
    pending,        \* .pending_removal
    op,             \* what each worker does
    disk,           \* the disk behind the node, or None
    plug,           \* how often a disk was replugged: names the kernel's device
    mounted,        \* whether the desktop has a file system of it mounted
    media,          \* what each block of each disk holds
    closing,        \* how far the application's closing has come
    revoked,        \* history: tokens cancelled or replaced by the user
    retained        \* history: when a removal was last retained for a retry

manager == <<generation, armed, activeToken, activeWrite, activeRemoval, pending>>
device  == <<disk, plug, mounted, media>>
history == <<revoked, retained>>
vars    == <<now, issued, manager, op, device, closing, history>>

Tokens == 1 .. issued

WritePcs   == {"validate", "open", "opening", "opened", "copy", "put", "verify", "recheck"}
RemovalPcs == {"locate", "drive", "inspect", "unmount", "unmounting", "unmounted",
               "power", "powering"}

Idle == [pc |-> "idle", kind |-> "none", token |-> 0, generation |-> 0, disk |-> None,
         expires |-> 0, cancelled |-> FALSE, plug |-> 0, drive |-> None, next |-> 0,
         late |-> 0]

Busy(w) == op[w].pc # "idle"

Whole(d) == media[d] = [b \in 1 .. Blocks |-> "image"]

Init ==
    /\ now = 0 /\ issued = 0 /\ generation = 0
    /\ armed = None /\ activeToken = 0 /\ activeWrite = None
    /\ activeRemoval = None /\ pending = None
    /\ op = [w \in Workers |-> Idle]
    /\ disk \in Disks /\ plug = 0 /\ mounted = FALSE
    /\ media = [d \in Disks |-> [b \in 1 .. Blocks |-> "old"]]
    /\ closing = "open"
    /\ revoked = {} /\ retained = 0

---------------------------------------------------------------------------
(* The manager.                                                            *)

\* The flag a worker polls is set: write.cancelled and removal.context.cancelled.
Revoke == [w \in Workers |-> IF w \in {activeWrite, activeRemoval}
                             THEN [op[w] EXCEPT !.cancelled = TRUE]
                             ELSE op[w]]

\* The user confirms disk d.  Its identity was read before the mutex was
\* taken, so d need not be the disk that is plugged in now.
Arm(d) ==
    /\ issued < MaxArms
    /\ issued' = issued + 1
    /\ generation' = generation + 1
    /\ armed' = [token |-> issued + 1, expires |-> now + TTL, disk |-> d]
    /\ pending' = None
    /\ op' = Revoke
    /\ revoked' = Tokens
    /\ UNCHANGED <<now, activeToken, activeWrite, activeRemoval, device, closing, retained>>

Cancel(t) ==
    /\ pending' = IF pending # None /\ (pending.token = t \/ now >= pending.expires)
                  THEN None ELSE pending
    /\ armed' = IF armed # None /\ (armed.token = t \/ now >= armed.expires)
                THEN None ELSE armed
    /\ op' = IF activeToken = t THEN Revoke ELSE op
    /\ revoked' = revoked \cup {t}
    /\ UNCHANGED <<now, issued, generation, activeToken, activeWrite, activeRemoval,
                   device, closing, retained>>

\* (mutant) the token is given back at once.
CancelAllFrees ==
    /\ pending' = None
    /\ armed' = None
    /\ op' = Revoke
    /\ activeToken' = 0 /\ activeWrite' = None /\ activeRemoval' = None
    /\ revoked' = Tokens
    /\ UNCHANGED <<generation, retained>>

\* The token stays taken until the worker that holds it has closed.
CancelAll ==
    /\ pending' = None
    /\ armed' = None
    /\ op' = Revoke
    /\ activeToken' = IF activeWrite = None /\ activeRemoval = None THEN 0 ELSE activeToken
    /\ revoked' = Tokens
    /\ UNCHANGED <<generation, activeWrite, activeRemoval, retained>>

\* A status query forgets an intent that has expired.
Status ==
    /\ activeToken = 0 /\ armed # None /\ now >= armed.expires
    /\ armed' = None
    /\ UNCHANGED <<now, issued, generation, activeToken, activeWrite, activeRemoval, pending,
                   op, device, closing, history>>

\* begin_write refuses an expired intent, and one confirmed while another
\* operation is still closing; either way the intent is gone.
RefuseWrite(t) ==
    /\ armed # None
    /\ now >= armed.expires \/ (armed.token = t /\ activeToken # 0)
    /\ armed' = None
    /\ UNCHANGED <<now, issued, generation, activeToken, activeWrite, activeRemoval, pending,
                   op, device, closing, history>>

\* Threads are alike: the first idle one takes the next operation.
Takes(w) == ~Busy(w) /\ \A v \in Workers : v < w => Busy(v)

BeginWrite(w, t) ==
    /\ Takes(w)
    /\ armed # None /\ now < armed.expires /\ armed.token = t
    /\ activeToken = 0
    /\ armed' = None
    /\ activeToken' = t
    /\ activeWrite' = w
    /\ op' = [op EXCEPT ![w] = [Idle EXCEPT !.pc = "validate", !.kind = "write", !.token = t,
                                            !.generation = generation, !.disk = armed.disk]]
    /\ UNCHANGED <<now, issued, generation, activeRemoval, pending, device, closing, history>>

FinishWrite(w) ==
    /\ op[w].kind = "write" /\ op[w].pc \in {"done", "removed"}
    /\ op' = [op EXCEPT ![w] = Idle]
    /\ IF activeToken = op[w].token
       THEN activeToken' = 0 /\ activeWrite' = None
       ELSE UNCHANGED <<activeToken, activeWrite>>
    /\ UNCHANGED <<now, issued, generation, armed, activeRemoval, pending, device, closing,
                   history>>

\* The right to retry the removal by which worker w failed.
RetryOf(w, expires) ==
    [token |-> op[w].token, disk |-> op[w].disk, expires |-> expires,
     generation |-> op[w].generation]

\* The write verified the disk but could not remove it: it keeps the right to
\* try again unless the intent was cancelled or replaced meanwhile.
Retainable(w) ==
    /\ activeWrite = w /\ ~op[w].cancelled
    /\ generation = op[w].generation
    /\ activeToken = op[w].token

RetainRetry(w) ==
    /\ op[w].kind = "write" /\ op[w].pc = "kept"
    /\ op' = [op EXCEPT ![w].pc = "done"]
    /\ IF Retainable(w)
       THEN /\ pending' = RetryOf(w, now + TTL)
            /\ retained' = now
       ELSE UNCHANGED <<pending, retained>>
    /\ UNCHANGED <<now, issued, generation, armed, activeToken, activeWrite, activeRemoval,
                   device, closing, revoked>>

\* A retry that has expired, or one asked for by another token, is gone.
RefuseRetry(t) ==
    /\ activeToken = 0 /\ pending # None
    /\ pending.token # t \/ now >= pending.expires
    /\ pending' = None
    /\ UNCHANGED <<now, issued, generation, armed, activeToken, activeWrite, activeRemoval,
                   op, device, closing, history>>

BeginRetry(w, t) ==
    /\ Takes(w)
    /\ activeToken = 0
    /\ pending # None /\ pending.token = t /\ now < pending.expires
    /\ pending' = None
    /\ activeToken' = t
    /\ activeRemoval' = w
    /\ op' = [op EXCEPT ![w] = [Idle EXCEPT !.pc = "locate", !.kind = "retry", !.token = t,
                                            !.generation = pending.generation,
                                            !.disk = pending.disk,
                                            !.expires = pending.expires]]
    /\ UNCHANGED <<now, issued, generation, armed, activeWrite, device, closing, history>>

\* (mutant) the flag is not looked at again.
RestorableCancelled(w) ==
    /\ op[w].pc = "kept" /\ activeRemoval = w
    /\ now < op[w].expires
    /\ generation = op[w].generation
    /\ pending = None

\* A retry that failed hands its right back if it is still the current one.
Restorable(w) ==
    /\ op[w].pc = "kept" /\ activeRemoval = w /\ ~op[w].cancelled
    /\ now < op[w].expires
    /\ generation = op[w].generation
    /\ pending = None

\* (mutant) a retry that was cancelled does not give the device back.
FinishRetryLive(w) ==
    /\ op[w].kind = "retry" /\ op[w].pc \in {"kept", "removed"}
    /\ op' = [op EXCEPT ![w] = Idle]
    /\ IF activeRemoval = w /\ ~op[w].cancelled
       THEN activeToken' = 0 /\ activeRemoval' = None
       ELSE UNCHANGED <<activeToken, activeRemoval>>
    /\ pending' = IF Restorable(w) THEN RetryOf(w, op[w].expires) ELSE pending
    /\ UNCHANGED <<now, issued, generation, armed, activeWrite, device, closing, history>>

FinishRetry(w) ==
    /\ op[w].kind = "retry" /\ op[w].pc \in {"kept", "removed"}
    /\ op' = [op EXCEPT ![w] = Idle]
    /\ IF activeRemoval = w
       THEN activeToken' = 0 /\ activeRemoval' = None
       ELSE UNCHANGED <<activeToken, activeRemoval>>
    /\ pending' = IF Restorable(w) THEN RetryOf(w, op[w].expires) ELSE pending
    /\ UNCHANGED <<now, issued, generation, armed, activeWrite, device, closing, history>>

---------------------------------------------------------------------------
(* A worker that writes: write_image_to_usb and copy_and_verify_usb_image. *)

\* The identity token of the disk behind the node is the one confirmed.
Identified(w) == disk = op[w].disk

\* revalidate_usb_target, which refuses a disk that is mounted, and the
\* comparison of the token.
Revalidated(w) == Identified(w) /\ ~mounted

Expired(w) == op[w].kind = "retry" /\ now >= op[w].expires

\* (mutant) a removal runs until it expires.
ActiveUntilExpiry(w) == ~Expired(w)

\* A removal stops once its flag is set; a retry also at its expiry.
Active(w) == ~op[w].cancelled /\ ~Expired(w)

\* Worker w goes on at pc.
Goto(w, pc) == op' = [op EXCEPT ![w].pc = pc]

\* What it did to the disk is counted if it had been told to stop before.
Late(w) == op[w].late + (IF op[w].cancelled \/ Expired(w) THEN 1 ELSE 0)

Did(w, pc) == op' = [op EXCEPT ![w] = [@ EXCEPT !.pc = pc, !.late = Late(w)]]

Kept == <<now, issued, manager, closing, history>>

Validate(w) ==
    /\ op[w].pc = "validate" /\ Revalidated(w)
    /\ Goto(w, "open")
    /\ UNCHANGED <<Kept, device>>

Open(w) ==
    /\ op[w].pc = "open" /\ ~op[w].cancelled /\ Revalidated(w)
    /\ Goto(w, "opening")
    /\ UNCHANGED <<Kept, device>>

\* UDisks opens what is behind the node by now, exclusively.
OpenDevice(w) ==
    /\ op[w].pc = "opening" /\ disk # None /\ ~mounted
    /\ op' = [op EXCEPT ![w] = [@ EXCEPT !.pc = "opened", !.plug = plug]]
    /\ UNCHANGED <<Kept, device>>

\* (mutant) what was opened is not compared with what was confirmed.
OpenedUnchecked(w) ==
    /\ op[w].pc = "opened" /\ ~op[w].cancelled
    /\ op' = [op EXCEPT ![w] = [@ EXCEPT !.pc = "copy", !.next = 1]]
    /\ UNCHANGED <<Kept, device>>

Opened(w) ==
    /\ op[w].pc = "opened" /\ ~op[w].cancelled /\ Revalidated(w)
    /\ op' = [op EXCEPT ![w] = [@ EXCEPT !.pc = "copy", !.next = 1]]
    /\ UNCHANGED <<Kept, device>>

\* Before each buffer the flag is polled; after the last one the disk is
\* flushed and the readback starts.
Copy(w) ==
    /\ op[w].pc = "copy"
    /\ IF op[w].next > Blocks
       THEN op' = [op EXCEPT ![w] = [@ EXCEPT !.pc = "verify", !.next = 1]]
       ELSE ~op[w].cancelled /\ Goto(w, "put")
    /\ UNCHANGED <<Kept, device>>

\* The descriptor reaches the kernel's device it was opened on or nothing.
Connected(w) == disk # None /\ op[w].plug = plug

\* The file may have changed under its name, or the disk store something else.
Put(w) ==
    /\ op[w].pc = "put" /\ Connected(w)
    /\ \E block \in {"image", "other"} : media' = [media EXCEPT ![disk][op[w].next] = block]
    /\ op' = [op EXCEPT ![w] = [@ EXCEPT !.pc = "copy", !.next = op[w].next + 1,
                                         !.late = Late(w)]]
    /\ UNCHANGED <<Kept, disk, plug, mounted>>

\* The digest of all that is read back is compared when the last block is in.
Verify(w) ==
    /\ op[w].pc = "verify"
    /\ IF op[w].next > Blocks
       THEN Goto(w, "recheck")
       ELSE /\ ~op[w].cancelled /\ Connected(w)
            /\ media[disk][op[w].next] = "image"
            /\ op' = [op EXCEPT ![w].next = @ + 1]
    /\ UNCHANGED <<Kept, device>>

\* The disk is identified once more before its descriptor is closed.
Recheck(w) ==
    /\ op[w].pc = "recheck" /\ Revalidated(w)
    /\ Goto(w, "locate")
    /\ UNCHANGED <<Kept, device>>

\* A check refuses, the flag is set, or a system call fails: nothing is
\* removed, and nothing retained.
WriteFails(w) ==
    /\ op[w].pc \in WritePcs
    /\ Goto(w, "done")
    /\ UNCHANGED <<Kept, device>>

---------------------------------------------------------------------------
(* A worker that removes: safely_remove_linux_usb.                         *)

Locate(w) ==
    /\ op[w].pc = "locate" /\ Identified(w)
    /\ Goto(w, "drive")
    /\ UNCHANGED <<Kept, device>>

\* The UDisks object of the drive is bound to what is behind the node by now.
ReadDrive(w) ==
    /\ op[w].pc = "drive" /\ disk # None
    /\ op' = [op EXCEPT ![w] = [@ EXCEPT !.pc = "inspect", !.drive = disk]]
    /\ UNCHANGED <<Kept, device>>

\* inspect(): live, the disk identified, every block object on its drive.
Inspected(w) == Active(w) /\ Identified(w) /\ op[w].drive = disk

Inspect(w) ==
    /\ op[w].pc = "inspect" /\ Inspected(w)
    /\ Goto(w, IF mounted THEN "unmount" ELSE "unmounted")
    /\ UNCHANGED <<Kept, device>>

\* The last look at the flag and the clock before UDisks is called.
GateUnmount(w) ==
    /\ op[w].pc = "unmount" /\ Active(w)
    /\ Goto(w, "unmounting")
    /\ UNCHANGED <<Kept, device>>

\* UDisks unmounts by the name of the node.
Unmount(w) ==
    /\ op[w].pc = "unmounting" /\ mounted
    /\ mounted' = FALSE
    /\ Did(w, "unmounted")
    /\ UNCHANGED <<Kept, disk, plug, media>>

\* Nothing may have been mounted again.
Unmounted(w) ==
    /\ op[w].pc = "unmounted" /\ Inspected(w) /\ ~mounted
    /\ Goto(w, "power")
    /\ UNCHANGED <<Kept, device>>

GatePower(w) ==
    /\ op[w].pc = "power" /\ Active(w)
    /\ Goto(w, "powering")
    /\ UNCHANGED <<Kept, device>>

\* UDisks powers the drive off, or ejects it, if it is there and not in use.
PowerOff(w) ==
    /\ op[w].pc = "powering" /\ disk # None /\ op[w].drive = disk /\ ~mounted
    /\ disk' = None
    /\ Did(w, "removed")
    /\ UNCHANGED <<Kept, plug, mounted, media>>

RemovalFails(w) ==
    /\ op[w].pc \in RemovalPcs
    /\ Goto(w, "kept")
    /\ UNCHANGED <<Kept, device>>

---------------------------------------------------------------------------
(* The application closes; the clock and the user.                         *)

\* CloseRequested is refused while an operation is active.
RequestClose ==
    /\ closing = "open" /\ activeToken = 0
    /\ closing' = "checked"
    /\ UNCHANGED <<now, issued, manager, op, device, history>>

\* cleanup_managed_workers, in a critical section of its own.
CleanUp ==
    /\ closing = "checked"
    /\ closing' = "exiting"
    /\ CancelAll
    /\ UNCHANGED <<now, issued, device>>

\* The process ends with its threads, and the application is started again.
Exit ==
    /\ closing = "exiting"
    /\ closing' = "restarted"
    /\ generation' = 0 /\ armed' = None /\ activeToken' = 0
    /\ activeWrite' = None /\ activeRemoval' = None /\ pending' = None
    /\ op' = [w \in Workers |-> Idle]
    /\ revoked' = Tokens
    /\ UNCHANGED <<now, issued, device, retained>>

Tick ==
    /\ now < MaxTime
    /\ now' = now + 1
    /\ UNCHANGED <<issued, manager, op, device, closing, history>>

Replug(d) ==
    /\ plug < MaxPlugs
    /\ plug' = plug + 1
    /\ disk' = d
    /\ mounted' = FALSE
    /\ UNCHANGED <<now, issued, manager, op, media, closing, history>>

\* The desktop mounts what nobody has opened exclusively.
Automount ==
    /\ disk # None /\ ~mounted
    /\ \A w \in Workers : op[w].pc \in {"opened", "copy", "put", "verify", "recheck"}
                            => ~Connected(w)
    /\ mounted' = TRUE
    /\ UNCHANGED <<now, issued, manager, op, disk, plug, media, closing, history>>

---------------------------------------------------------------------------
WriteStep(w) ==
    \/ Validate(w) \/ Open(w) \/ OpenDevice(w) \/ Opened(w)
    \/ Copy(w) \/ Put(w) \/ Verify(w) \/ Recheck(w) \/ WriteFails(w)

RemovalStep(w) ==
    \/ Locate(w) \/ ReadDrive(w) \/ Inspect(w) \/ GateUnmount(w) \/ Unmount(w)
    \/ Unmounted(w) \/ GatePower(w) \/ PowerOff(w) \/ RemovalFails(w)

WorkerStep(w) ==
    WriteStep(w) \/ RemovalStep(w) \/ RetainRetry(w) \/ FinishWrite(w) \/ FinishRetry(w)

Command ==
    \/ \E d \in Disks : Arm(d)
    \/ \E t \in Tokens : Cancel(t) \/ RefuseWrite(t) \/ RefuseRetry(t)
    \/ \E t \in Tokens, w \in Workers : BeginWrite(w, t) \/ BeginRetry(w, t)
    \/ Status

Environment ==
    \/ Tick \/ Automount \/ RequestClose \/ CleanUp \/ Exit
    \/ \E d \in Disks \cup {None} : Replug(d)

Next == Command \/ Environment \/ \E w \in Workers : WorkerStep(w)

\* A worker is a thread of its own and every call it makes returns.
Fairness == \A w \in Workers : WF_vars(WorkerStep(w))

Spec == Init /\ [][Next]_vars /\ Fairness

---------------------------------------------------------------------------
(* Two operations never overlap: a worker that was cancelled still owns the *)
(* device until it has closed, whoever cancels it and whatever is confirmed *)
(* meanwhile (cancel_all and arm leave active_token, image.rs:2741).        *)
OneOperation == Cardinality({w \in Workers : Busy(w)}) <= 1

(* An intent or a retry the user cancelled or replaced never comes back,    *)
(* not from a worker that publishes its retry late (image.rs:2860), nor     *)
(* from a failed retry that hands its right back (image.rs:2938).           *)
NoResurrection ==
    /\ armed # None => armed.token \notin revoked
    /\ pending # None => pending.token \notin revoked

(* What is offered for removal, or being removed, is a disk that holds the  *)
(* whole image: nobody removes a disk the readback did not accept, or one   *)
(* that a later operation has touched.  However often a removal is retried, *)
(* the right to it ends TTL after the write obtained it (image.rs:2905).    *)
VerifiedRemoval ==
    /\ pending # None => Whole(pending.disk) /\ pending.expires <= retained + TTL
    /\ \A w \in Workers : op[w].pc \in RemovalPcs => Whole(op[w].disk)

(* Once its flag is set, or its time is up, an operation does at most the   *)
(* one thing it was already about to do to the disk.                        *)
RevokedStops == \A w \in Workers : op[w].late <= 1

(* A replug between any two checks does not lead an operation astray: only  *)
(* the disk the user confirmed is ever written or powered off.              *)
ConfirmedDisk ==
    /\ \A d \in Disks : media'[d] # media[d] =>
           \E w \in Workers : op[w].pc = "put" /\ op[w].disk = d
    /\ \A w \in Workers : op[w].pc = "powering" /\ op'[w].pc = "removed"
           => op[w].disk = disk

(* Only the disk the user confirmed is written and powered off, and it is   *)
(* offered for removal only as it was verified.                             *)
DiskSafe == [][VerifiedRemoval' /\ ConfirmedDisk]_vars

(* Every operation closes and gives the device back, also when it was       *)
(* cancelled or replaced while it ran.                                      *)
Settles == activeToken # 0 ~> activeToken = 0

(* "The application must remain open until the active USB write settles"    *)
(* (app.rs:205): the process does not end while an operation is under way.  *)
OpenUntilSettled == [][Exit => \A w \in Workers : ~Busy(w)]_vars
============================================================================
