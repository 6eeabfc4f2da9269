----------------------------- MODULE MCWindows -----------------------------
(***************************************************************************)
(* Instances of what the windows of the application drive: the build of    *)
(* the progress window, the scripts its guests run, the operations of the  *)
(* maintainer's window on its worktree, and the elevated USB writer of the *)
(* Windows build.  None reads what another writes; a behaviour runs one.   *)
(***************************************************************************)
EXTENDS BuildFlow

CONSTANTS MaxContent, MaxCommit, MaxCalls, MaxEdits,
          WinDisk, WinVolumes, NoDisk, MaxWrites, MaxSwaps, MaxFaults,
          MaxFailures, MaxSignals

ASSUME WindowsBounds ==
  MaxContent \in Nat /\ MaxCommit \in Nat /\ MaxWrites \in Nat /\ NoDisk \notin WinDisk

VARIABLES
  focus,
  commits, ref, cur, index, work, remote, pulls, job, shown, done, calls, edits,
  at, offline, written, app, target, files, result, helper, handle, locks, answer,
  foreign, swaps, faults,
  fs, dev, mounted, shell, host, before, failures, signals

Worktree == INSTANCE MaintainerWorktree
Usb == INSTANCE WindowsUsbWriter
Guest == INSTANCE GuestScripts WITH at <- mounted, faults <- failures, MaxFaults <- MaxFailures

workVars == <<commits, ref, cur, index, work, remote, pulls, job, shown, done, calls,
              edits>>
usbVars == <<at, offline, written, app, target, files, result, helper, handle, locks,
             answer, foreign, swaps, faults>>
guestVars == <<fs, dev, mounted, shell, host, before, failures, signals>>

-----------------------------------------------------------------------------
WindowsInit ==
  /\ Init /\ Worktree!Init /\ Usb!WinInit /\ at = (CHOOSE d \in WinDisk : TRUE)
  /\ Guest!Init
  /\ focus \in {"build", "worktree", "usb", "guest"}
  /\ focus # "guest" => fs.seeding /\ fs.default = Guest!Root /\ fs.ro[Guest!Root]
  /\ focus # "worktree" => remote = [b \in Worktree!Branch |-> IF b = Worktree!Main THEN 1 ELSE 0]

WindowsNext ==
  \/ focus = "build"    /\ Next          /\ UNCHANGED <<focus, workVars, usbVars, guestVars>>
  \/ focus = "worktree" /\ Worktree!Next /\ UNCHANGED <<focus, vars, usbVars, guestVars>>
  \/ focus = "usb"      /\ Usb!WinNext   /\ UNCHANGED <<focus, vars, workVars, guestVars>>
  \/ focus = "guest"    /\ Guest!Next    /\ UNCHANGED <<focus, vars, workVars, usbVars>>

windowsVars == <<focus, vars, workVars, usbVars, guestVars>>
WindowsSpec == WindowsInit /\ [][WindowsNext]_windowsVars

-----------------------------------------------------------------------------
\* A reported commit is the one the maintainer confirmed, and so is a reported
\* inverse commit while others leave HEAD alone (create_maintainer_local_commit,
\* execute_maintainer_rollback); and nobody's commit is lost.
MaintainerExact == [][Worktree!AsShown' /\ Worktree!NothingLost]_workVars

\* What is written has one writer, the one that was asked for: a working image
\* one guest, and a disk the helper of the attempt that is under way on it.
WritersKnown == OneWriter /\ (focus = "usb" => Usb!WriterSafe)

\* The scripts of the guests take back what they change of the image's root.
RootRestored == focus = "guest" => Guest!RootRestored
=============================================================================
