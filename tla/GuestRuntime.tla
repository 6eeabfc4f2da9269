---------------------------- MODULE GuestRuntime ----------------------------
(***************************************************************************)
(* The guests of src-tauri/src/appliance.rs and their runtime directories, *)
(* on a Unix host.  Instances of the application share one runtime root.   *)
(* Each prepares a session at a time: it removes the directories of        *)
(* sessions that look abandoned, makes its own, starts QEMU, records its   *)
(* process identifier and starts a watchdog, a process of its own that     *)
(* stops the guest when the instance no longer holds its keepalive.  The   *)
(* session is then held until it is stopped, or its guest is stopped alone *)
(* and its disks are handed on.                                            *)
(*                                                                         *)
(* An instance, or a guest, may die between any two steps; an instance     *)
(* that is started again is another one, and nothing keeps two from        *)
(* running at once.  The x86_64 sessions follow the same steps under a     *)
(* root of their own.                                                      *)
(***************************************************************************)
EXTENDS Naturals, FiniteSets

CONSTANTS App,       \* instances of the application
          Session,   \* session directories
          Nobody     \* no session

ASSUME GuestBounds == Nobody \notin Session

VARIABLES
  up,        \* the instances that run
  guestAt, mine,  \* [App -> its step], [App -> the session it works on]
  todo,      \* [App -> directories its cleanup has not looked at]
  doomed,    \* [App -> the directory its cleanup found abandoned]
  runtime, pid,  \* the sessions with a directory, and with a recorded QEMU
  guest,     \* [Session -> "none", "alive", "zombie" or "gone"]
  watchdog,  \* [Session -> "none", "armed" or "done"]
  unwatched, \* (history) guests whose instance died before their watchdog
  overlapped \* (history) two instances ran at once

files == <<runtime, pid>>
jobs  == <<guestAt, mine, todo, doomed>>
history == <<unwatched, overlapped>>
guestVars  == <<up, jobs, files, guest, watchdog, history>>

GuestInit ==
  /\ up = {} /\ overlapped = FALSE
  /\ guestAt = [a \in App |-> "closed"] /\ mine = [a \in App |-> Nobody]
  /\ todo = [a \in App |-> {}] /\ doomed = [a \in App |-> Nobody]
  /\ runtime = {} /\ pid = {} /\ unwatched = {}
  /\ guest = [s \in Session |-> "none"] /\ watchdog = [s \in Session |-> "none"]

MoveTo(a, l)  == guestAt' = [guestAt EXCEPT ![a] = l]
Set(f, s, v) == [f EXCEPT ![s] = v]
Stands(a, l) == a \in up /\ guestAt[a] = l
Erase(s) == runtime' = runtime \ {s} /\ pid' = pid \ {s}
Idle(a) == MoveTo(a, "idle") /\ mine' = Set(mine, a, Nobody)
Unused(s) == s \notin runtime /\ guest[s] = "none" /\ \A a \in App : mine[a] # s

-----------------------------------------------------------------------------
LaunchInstance(a) ==
  /\ guestAt[a] = "closed" /\ up' = up \union {a} /\ MoveTo(a, "idle")
  /\ overlapped' = (overlapped \/ up # {})
  /\ UNCHANGED <<mine, todo, doomed, files, guest, watchdog, unwatched>>

\* A preparation begins with the directories of abandoned sessions.
Prepare(a) ==
  /\ Stands(a, "idle") /\ MoveTo(a, "cleanup")
  /\ \E s \in Session : Unused(s) /\ mine' = Set(mine, a, s)
  /\ todo' = Set(todo, a, runtime)
  /\ UNCHANGED <<up, doomed, files, guest, watchdog, history>>

\* A recorded process exists until its parent has waited for it.
Active(s) == s \in pid /\ guest[s] \in {"alive", "zombie"}

CleanupLook(a) ==
  /\ Stands(a, "cleanup") /\ doomed[a] = Nobody
  /\ \E s \in todo[a] :
       /\ todo' = Set(todo, a, todo[a] \ {s})
       /\ doomed' = IF Active(s) THEN doomed ELSE Set(doomed, a, s)
  /\ UNCHANGED <<up, guestAt, mine, files, guest, watchdog, history>>

\* The log is archived and the directory removed; a failure ends the preparation.
CleanupRemove(a) ==
  /\ Stands(a, "cleanup") /\ doomed[a] # Nobody
  /\ doomed' = Set(doomed, a, Nobody)
  /\ \/ doomed[a] \in runtime /\ Erase(doomed[a]) /\ UNCHANGED <<guestAt, mine, todo>>
     \/ Idle(a) /\ todo' = Set(todo, a, {}) /\ UNCHANGED files
  /\ UNCHANGED <<up, guest, watchdog, history>>

MakeDirectory(a) ==
  /\ Stands(a, "cleanup") /\ todo[a] = {} /\ doomed[a] = Nobody
  /\ runtime' = runtime \union {mine[a]} /\ MoveTo(a, "staging")
  /\ UNCHANGED <<up, mine, todo, doomed, pid, guest, watchdog, history>>

\* A step of the staging failed or was cancelled: the guard removes the directory.
Abandon(a) ==
  /\ Stands(a, "staging") /\ Erase(mine[a]) /\ Idle(a)
  /\ UNCHANGED <<up, todo, doomed, guest, watchdog, history>>

\* QEMU is started with the staged disks.
Start(a) ==
  /\ Stands(a, "staging") /\ mine[a] \in runtime
  /\ guest' = Set(guest, mine[a], "alive") /\ MoveTo(a, "started")
  /\ UNCHANGED <<up, mine, todo, doomed, files, watchdog, history>>

Record(a) ==
  /\ Stands(a, "started") /\ mine[a] \in runtime
  /\ pid' = pid \union {mine[a]} /\ MoveTo(a, "recorded")
  /\ UNCHANGED <<up, mine, todo, doomed, runtime, guest, watchdog, history>>

Watch(a) ==
  /\ Stands(a, "recorded")
  /\ watchdog' = Set(watchdog, mine[a], "armed") /\ MoveTo(a, "ready")
  /\ UNCHANGED <<up, mine, todo, doomed, files, guest, history>>

\* (mutant) the guest is left running when its watchdog cannot be started.
NotStartedLeft(a) ==
  /\ Stands(a, "started") \/ Stands(a, "recorded")
  /\ Erase(mine[a]) /\ Idle(a)
  /\ UNCHANGED <<up, todo, doomed, guest, watchdog, history>>

\* Neither recorded nor watched: the guest is killed and waited for.
NotStarted(a) ==
  /\ Stands(a, "started") \/ Stands(a, "recorded")
  /\ guest' = Set(guest, mine[a], "gone") /\ Erase(mine[a]) /\ Idle(a)
  /\ UNCHANGED <<up, todo, doomed, watchdog, history>>

-----------------------------------------------------------------------------
\* The manager holds the session; or the preparation was cancelled meanwhile
\* and the session is dropped.
Hold(a) ==
  /\ Stands(a, "ready")
  /\ MoveTo(a, "held") \/ MoveTo(a, "stopping")
  /\ UNCHANGED <<up, mine, todo, doomed, files, guest, watchdog, history>>

\* stop_appliance, the close of the window, or a replaced session; the handoff
\* of a working image stops the guest alone.
StopSession(a) ==
  /\ Stands(a, "held")
  /\ MoveTo(a, "stopping") \/ MoveTo(a, "handing")
  /\ UNCHANGED <<up, mine, todo, doomed, files, guest, watchdog, history>>

\* The guest is asked, and then made, to stop and is waited for.
StopGuest(a) ==
  /\ Stands(a, "stopping") \/ Stands(a, "handing")
  /\ guest[mine[a]] # "gone"
  /\ guest' = Set(guest, mine[a], "gone")
  /\ UNCHANGED <<up, jobs, files, watchdog, history>>

\* QemuWatchdog::finish: the keepalive is closed and the watchdog waited for.
FinishWatchdog(a) ==
  /\ Stands(a, "stopping") \/ Stands(a, "handing")
  /\ guest[mine[a]] = "gone"
  /\ watchdog' = Set(watchdog, mine[a], "done")
  /\ MoveTo(a, IF guestAt[a] = "handing" THEN "handed" ELSE "archive")
  /\ UNCHANGED <<up, mine, todo, doomed, files, guest, history>>

StopHanded(a) ==
  /\ Stands(a, "handed") /\ MoveTo(a, "archive")
  /\ UNCHANGED <<up, mine, todo, doomed, files, guest, watchdog, history>>

\* The log is archived and the directory removed, unless that fails.
Archive(a) ==
  /\ Stands(a, "archive") /\ Idle(a)
  /\ Erase(mine[a]) \/ UNCHANGED files
  /\ UNCHANGED <<up, todo, doomed, guest, watchdog, history>>

-----------------------------------------------------------------------------
\* The process is killed, or exits without waiting for a preparation: its
\* zombies are reaped, and the keepalive of its session is closed.
Die(a) ==
  /\ a \in up /\ up' = up \ {a}
  /\ unwatched' = unwatched \union
       {s \in {mine[a]} : guestAt[a] \in {"started", "recorded"} /\ guest[s] = "alive"}
  /\ guest' = [s \in Session |-> IF s = mine[a] /\ guest[s] = "zombie" THEN "gone" ELSE guest[s]]
  /\ UNCHANGED <<jobs, files, watchdog, overlapped>>

Owns(a, s) == a \in up /\ mine[a] = s

GuestDies(s) ==
  /\ guest[s] = "alive"
  /\ guest' = Set(guest, s, IF \E a \in App : Owns(a, s) THEN "zombie" ELSE "gone")
  /\ UNCHANGED <<up, jobs, files, watchdog, history>>

\* The watchdog sees its input closed and terminates, then kills, the guest.
WatchdogFires(s) ==
  /\ watchdog[s] = "armed" /\ ~\E a \in App : Owns(a, s)
  /\ watchdog' = Set(watchdog, s, "done") /\ guest' = Set(guest, s, "gone")
  /\ UNCHANGED <<up, jobs, files, history>>

GuestNext ==
  \/ \E a \in App :
       \/ LaunchInstance(a)
       \/ Prepare(a) \/ CleanupLook(a) \/ CleanupRemove(a) \/ MakeDirectory(a)
       \/ Abandon(a) \/ Start(a) \/ Record(a) \/ Watch(a) \/ NotStarted(a)
       \/ Hold(a) \/ StopSession(a) \/ StopGuest(a) \/ FinishWatchdog(a)
       \/ StopHanded(a) \/ Archive(a) \/ Die(a)
  \/ \E s \in Session : GuestDies(s) \/ WatchdogFires(s)

GuestSpec == GuestInit /\ [][GuestNext]_guestVars

-----------------------------------------------------------------------------
\* No guest is left to itself: while it runs, a live instance that will stop it
\* has it, or a watchdog that no instance holds back any more; the exception is
\* an instance that dies between the start of QEMU and that of its watchdog.
GuestOwned == \A s \in Session : guest[s] = "alive" =>
                \/ \E a \in App : Owns(a, s)
                \/ watchdog[s] = "armed"
                \/ s \in unwatched

\* The disks of a guest under a watchdog are not removed by an instance that
\* starts after the one that held it died, whatever the watchdog has done so far.
DisksKept == ~overlapped => \A s \in Session :
               guest[s] = "alive" /\ watchdog[s] = "armed" => s \in runtime

GuestSafe == GuestOwned /\ DisksKept
=============================================================================
