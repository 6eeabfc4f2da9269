-------------------------- MODULE WindowsUsbWriter --------------------------
(***************************************************************************)
(* The USB writer of src-tauri/src/image.rs in its Windows build.  The     *)
(* application is not elevated: it leaves a request in an exchange         *)
(* directory, starts itself again through the authorization prompt, and    *)
(* watches that helper, which has the raw disk and answers with a receipt  *)
(* in the exchange.                                                        *)
(*                                                                         *)
(* The two share nothing but the exchange and the helper's process handle. *)
(* Windows names the disk by its number: which disk has the number changes *)
(* when the user swaps disks, between any two steps.  A helper may outlive *)
(* the application, or survive its termination; the next attempt may then  *)
(* begin beside it.                                                        *)
(***************************************************************************)
EXTENDS Naturals

CONSTANTS WinDisk,     \* the removable disks there are
          WinVolumes,  \* volumes on each of them
          MaxWrites,   \* bound on attempts
          MaxSwaps,    \* bound on disks that are swapped
          MaxFaults,   \* bound on faults that are counted
          NoDisk       \* no disk has the number; not in WinDisk

Write == 1..MaxWrites

VARIABLES
  at,        \* the disk that has the confirmed number
  offline,   \* [WinDisk -> is it offline]
  written,   \* [WinDisk -> the last helper that wrote to it, and how much]
  app,       \* where launch_elevated_windows_usb_writer is
  target,    \* [Write -> the disk of the request]
  files,     \* [Write -> the files of its exchange]
  result,    \* [Write -> what the application returned]
  helper,    \* [Write -> the helper: where it is, and its locals]
  handle,    \* [Write -> the disk of its raw handle]
  locks,     \* [Write -> the volumes it locked and dismounted]
  answer,    \* (history) [Write -> how the helper ended]
  foreign,   \* (history) a disk that was not confirmed was written
  swaps, faults

disks   == <<at, offline, written, foreign>>
side    == <<app, target, result>>
process == <<helper, handle, locks, answer>>
winVars == <<disks, side, files, process, swaps, faults>>

Blocks == 2
Running(n) == helper[n].pc \notin {"none", "exited"}
NoHelper == [pc |-> "none", seen |-> {}, refused |-> FALSE, off |-> FALSE, then |-> "none"]

WinInit ==
  /\ at \in WinDisk /\ offline = [d \in WinDisk |-> FALSE]
  /\ written = [d \in WinDisk |-> [by |-> 0, blocks |-> 0]] /\ foreign = FALSE
  /\ app = [at |-> "idle", n |-> 0]
  /\ target = [n \in Write |-> NoDisk] /\ files = [n \in Write |-> {}]
  /\ result = [n \in Write |-> "none"]
  /\ helper = [n \in Write |-> NoHelper] /\ handle = [n \in Write |-> NoDisk]
  /\ locks = [n \in Write |-> {}] /\ answer = [n \in Write |-> "none"]
  /\ swaps = 0 /\ faults = 0

Fault == faults < MaxFaults /\ faults' = faults + 1

-----------------------------------------------------------------------------
\* The application.

Here(s) == app.at = s /\ UNCHANGED <<disks, swaps>>
Step(s) == app' = [app EXCEPT !.at = s] /\ UNCHANGED target

\* It returns; ExchangeCleanup removes the exchange unless it was forgotten.
Return(r, kept) ==
  /\ app' = [app EXCEPT !.at = "idle"]
  /\ result' = [result EXCEPT ![app.n] = r]
  /\ target' = IF r = "failed" THEN [target EXCEPT ![app.n] = NoDisk] ELSE target
  /\ files' = IF kept THEN files ELSE [files EXCEPT ![app.n] = {}]

\* The disk was confirmed and revalidated; the request is written.
Request ==
  /\ app.at = "idle" /\ app.n < MaxWrites /\ at # NoDisk /\ ~offline[at]
  /\ app' = [at |-> "prompt", n |-> app.n + 1]
  /\ target' = [target EXCEPT ![app.n + 1] = at]
  /\ files' = [files EXCEPT ![app.n + 1] = {"request"}]
  /\ UNCHANGED <<disks, result, process, swaps, faults>>

\* The prompt blocks the application.  The signature policy, the user or
\* Windows refuses, or there is a helper.
Launch ==
  /\ Here("prompt") /\ UNCHANGED <<handle, locks, answer, faults>>
  /\ \/ Return("failed", FALSE) /\ UNCHANGED helper
     \/ /\ helper' = [helper EXCEPT ![app.n].pc = "admit"] /\ Step("wait")
        /\ UNCHANGED <<result, files>>

\* The process has ended: what its receipt says.
Valid(n) == "receipt" \in files[n] /\ answer[n] \in {"ejected", "connected"}
Reap ==
  /\ Here("wait") /\ ~Running(app.n) /\ UNCHANGED <<process, faults>>
  /\ Return(IF Valid(app.n) THEN "verified" ELSE "failed", FALSE)

WaitFails == Here("wait") /\ Fault /\ Return("unwatched", TRUE) /\ UNCHANGED process

\* The 30 seconds after a cancellation, or a day, have passed.  The file that
\* asks the helper to stop does no more than make a copy fail, and any may.
Overdue == Here("wait") /\ Running(app.n) /\ Step("ending") /\ UNCHANGED <<result, files, process, faults>>

\* The process ends: Windows closes its handles.
Gone(n, how) ==
  /\ helper' = [helper EXCEPT ![n] = [NoHelper EXCEPT !.pc = "exited"]]
  /\ handle' = [handle EXCEPT ![n] = NoDisk] /\ locks' = [locks EXCEPT ![n] = {}]
  /\ answer' = [answer EXCEPT ![n] = IF @ = "none" THEN how ELSE @]

\* (mutant) the application does not wait for the process it terminated.
TerminateAndGo ==
  /\ Here("ending") /\ UNCHANGED <<process, faults>> /\ Return("failed", FALSE)

\* It is given 30 more seconds, terminated, and waited for again.
Terminate ==
  /\ Here("ending")
  /\ \/ ~Running(app.n) /\ Return("failed", FALSE) /\ UNCHANGED <<process, faults>>
     \/ /\ Running(app.n) /\ Gone(app.n, "killed") /\ Return("failed", FALSE)
        /\ UNCHANGED faults
     \/ Running(app.n) /\ Fault /\ Return("unwatched", TRUE) /\ UNCHANGED process

\* The application is killed; its helper, if any, is not.
AppDies ==
  /\ app.at # "idle" /\ Fault /\ Return("unwatched", TRUE)
  /\ UNCHANGED <<disks, process, swaps>>

-----------------------------------------------------------------------------
\* The helper.

In(n, s) == helper[n].pc = s /\ UNCHANGED <<side, swaps>>
Go(n, s) == helper' = [helper EXCEPT ![n].pc = s]
Held     == UNCHANGED <<handle, locks>>
Still    == UNCHANGED <<disks, files, faults>>

\* An error, or the end of the copy: the handles are dropped, and the disk is
\* recovered when it may have been taken offline.
Leave(n, then) ==
  /\ handle' = [handle EXCEPT ![n] = NoDisk] /\ locks' = [locks EXCEPT ![n] = {}]
  /\ helper' = [helper EXCEPT ![n].pc = "recover", ![n].then = then]

Answer(n, how) == /\ answer' = [answer EXCEPT ![n] = how]
                  /\ helper' = [helper EXCEPT ![n].pc = "receipt"]
\* An error before the disk was touched.
Refuse(n) == Answer(n, "failure") /\ locks' = [locks EXCEPT ![n] = {}] /\ UNCHANGED handle

\* revalidate_windows_usb_target_state: the eligible disk of that number.
Eligible(off) == at # NoDisk /\ offline[at] = off

\* The request is there as it was hashed, it has not expired, the helper is
\* elevated and the image is the same; then the disk, three times over.
Admit(n) ==
  /\ In(n, "admit") /\ Still
  /\ \/ Refuse(n)
     \/ /\ "request" \in files[n] /\ Eligible(FALSE) /\ at = target[n]
        /\ Go(n, "lock") /\ Held /\ UNCHANGED answer

\* A volume of the enumeration that is on the disk of that number is locked
\* and dismounted; one that is in use, or cannot be inspected, refuses.
VolumesOf(d) == {d} \X (1..WinVolumes)
LockedByOther(n, v) == \E m \in Write : m # n /\ v \in locks[m]
InspectVolume(n) ==
  /\ In(n, "lock") /\ Still
  /\ \/ Refuse(n)
     \/ /\ at # NoDisk /\ \E v \in VolumesOf(at) \ locks[n] :
             /\ ~LockedByOther(n, v) /\ \A w \in VolumesOf(at) \ locks[n] : v[2] <= w[2]
             /\ locks' = [locks EXCEPT ![n] = @ \union {v}]
             /\ helper' = [helper EXCEPT ![n].seen = @ \union {v[2]}]
        /\ UNCHANGED <<handle, answer>>

\* The enumeration ends; a volume of a disk that was swapped is not in it.
VolumesLocked(n) ==
  /\ In(n, "lock") /\ Still /\ helper[n].seen = 1..WinVolumes
  /\ Go(n, "offline") /\ Held /\ UNCHANGED answer

\* Set-Disk acts on the disk of that number; many removable disks refuse.
SetOffline(n) ==
  /\ In(n, "offline") /\ UNCHANGED <<at, written, foreign, files, faults, answer>> /\ Held
  /\ \/ /\ Eligible(FALSE) /\ offline' = [offline EXCEPT ![at] = TRUE]
        /\ Go(n, "isolated")
     \/ /\ UNCHANGED offline
        /\ helper' = [helper EXCEPT ![n].pc = "isolated", ![n].refused = TRUE]

\* The disk is found isolated, or online if it refused, and is compared again.
Isolated(n) ==
  /\ In(n, "isolated") /\ Still /\ UNCHANGED answer
  /\ \/ /\ \/ Eligible(TRUE) \/ (helper[n].refused /\ Eligible(FALSE))
        /\ at = target[n]
        /\ helper' = [helper EXCEPT ![n].pc = "open", ![n].off = offline[at]] /\ Held
     \/ Leave(n, "failed")

\* The exclusive raw handle of whatever disk has the number now; its number,
\* length and serial are those of the inventory.
OpenRaw(n) ==
  /\ In(n, "open") /\ Still /\ UNCHANGED answer
  /\ \/ Leave(n, "failed")
     \/ /\ at # NoDisk /\ \A m \in Write : handle[m] # at
        /\ handle' = [handle EXCEPT ![n] = at] /\ Go(n, "recheck") /\ UNCHANGED locks

\* (mutant) the number is taken for the identity.
RecheckNumber(n) ==
  /\ In(n, "recheck") /\ Still /\ UNCHANGED answer
  /\ IF Eligible(helper[n].off) THEN Go(n, "copy") /\ Held ELSE Leave(n, "failed")

Recheck(n) ==
  /\ In(n, "recheck") /\ Still /\ UNCHANGED answer
  /\ IF Eligible(helper[n].off) /\ at = target[n] THEN Go(n, "copy") /\ Held
     ELSE Leave(n, "failed")

\* copy_and_verify_usb_image.  A write fails, or a cancellation is noticed; a
\* handle is of no use once its disk was unplugged, and Windows writes no
\* sector of a mounted volume.
CopyFails(n) == /\ helper[n].pc \in {"copy", "verify"} /\ UNCHANGED <<side, swaps, answer>>
                /\ Still /\ Leave(n, "failed")
Put(n) ==
  /\ In(n, "copy") /\ handle[n] # NoDisk /\ handle[n] = at
  /\ offline[at] \/ VolumesOf(at) \subseteq locks[n]
  /\ LET b == IF written[at].by = n THEN written[at].blocks + 1 ELSE 1
     IN /\ written' = [written EXCEPT ![at] = [by |-> n, blocks |-> b]]
        /\ foreign' = (foreign \/ at # target[n])
        /\ Go(n, IF b = Blocks THEN "verify" ELSE "copy")
  /\ UNCHANGED <<at, offline, files, faults, answer>> /\ Held
ReadBack(n) ==
  /\ In(n, "verify") /\ Still /\ UNCHANGED answer
  /\ handle[n] # NoDisk /\ handle[n] = at /\ written[at] = [by |-> n, blocks |-> Blocks]
  /\ Leave(n, "verified")

-----------------------------------------------------------------------------
\* recover_windows_usb_target, on every way out once the disk may be offline.

\* How the helper ends: after a verified copy a recovery that fails is an error.
Recovered(n, ejected) ==
  IF helper[n].then = "failed" THEN "failure"
  ELSE IF ejected THEN "ejected" ELSE "connected"

RecoverIdentity(n) ==
  /\ In(n, "recover") /\ Still /\ Held
  /\ \/ Answer(n, "manual")
     \/ /\ at # NoDisk /\ at = target[n] /\ UNCHANGED answer
        /\ helper' = [helper EXCEPT ![n].pc = "eject", ![n].off = offline[at]]

\* The ejection is of the disk that has the number.  It reports the removal of
\* the disk once the disk is gone.
Eject(n) ==
  /\ In(n, "eject") /\ Held /\ UNCHANGED <<written, foreign, files, faults>>
  /\ \/ /\ at # NoDisk /\ at' = NoDisk /\ offline' = [offline EXCEPT ![at] = FALSE]
        /\ Answer(n, Recovered(n, TRUE))
     \/ UNCHANGED <<at, offline>> /\ ~helper[n].off /\ Answer(n, Recovered(n, FALSE))
     \/ UNCHANGED <<at, offline, answer>> /\ helper[n].off /\ Go(n, "remount")

Remount(n) ==
  /\ In(n, "remount") /\ Held /\ UNCHANGED <<at, written, foreign, files, faults>>
  /\ \/ Answer(n, "manual") /\ UNCHANGED offline
     \/ /\ at # NoDisk /\ offline' = [offline EXCEPT ![at] = FALSE]
        /\ Answer(n, Recovered(n, FALSE))

\* The receipt is created, not replaced, if the exchange is still there.
Receipt(n) ==
  /\ In(n, "receipt") /\ UNCHANGED <<disks, faults>> /\ Gone(n, "none")
  /\ files' = IF files[n] = {} THEN files ELSE [files EXCEPT ![n] = @ \union {"receipt"}]

HelperDies(n) ==
  /\ Running(n) /\ Fault /\ Gone(n, "killed") /\ UNCHANGED <<disks, side, files, swaps>>

-----------------------------------------------------------------------------
\* The user unplugs the disk, or plugs one in; what was opened of the disk that
\* is unplugged is of no use from then on.  An offline disk stays offline.
Swap ==
  /\ swaps < MaxSwaps /\ swaps' = swaps + 1
  /\ at' \in (WinDisk \union {NoDisk}) \ {at}
  /\ handle' = [n \in Write |-> NoDisk]
  /\ locks' = [n \in Write |-> {v \in locks[n] : v[1] # at}]
  /\ UNCHANGED <<offline, written, foreign, side, files, helper, answer, faults>>

Application == Request \/ Launch \/ Reap \/ WaitFails
               \/ Overdue \/ Terminate \/ AppDies
Helper(n) ==
  \/ Admit(n) \/ InspectVolume(n) \/ VolumesLocked(n) \/ SetOffline(n)
  \/ Isolated(n) \/ OpenRaw(n) \/ Recheck(n) \/ CopyFails(n) \/ Put(n)
  \/ ReadBack(n) \/ RecoverIdentity(n) \/ Eject(n) \/ Remount(n) \/ Receipt(n) \/ HelperDies(n)

WinNext == Application \/ Swap \/ \E n \in Write : Helper(n)

WinSpec == WinInit /\ [][WinNext]_winVars

-----------------------------------------------------------------------------
\* No other disk than the one of a request is written, though Windows names
\* it by a number that another disk may get at any time; when an attempt has
\* been reported to have ended, its helper has; what was reported as verified
\* is on the disk, unless a later helper wrote to it or one that was left to
\* manual handling; and a disk that was not unplugged and plugged in again is
\* not left offline in silence (perform_windows_usb_write, launch_elevated_windows_usb_writer).
WriterSafe ==
  /\ ~foreign
  /\ \A n \in Write :
       /\ result[n] \in {"verified", "failed"} => ~Running(n)
       /\ result[n] = "verified" =>
            \/ written[target[n]] = [by |-> n, blocks |-> Blocks]
            \/ \E m \in Write : written[target[n]].by = m /\ (m > n \/ result[m] = "unwatched")
  /\ at # NoDisk /\ swaps < 2 => (offline[at] =>
       \E n \in Write : Running(n) \/ answer[n] \in {"killed", "manual"})
=============================================================================
