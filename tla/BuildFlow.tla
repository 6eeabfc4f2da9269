------------------------------ MODULE BuildFlow ------------------------------
(***************************************************************************)
(* One image build, from the progress window to the exported image:        *)
(* runBuild, cancelBuild and stopAllWorkers of src/build.js, the commands  *)
(* they invoke (appliance.rs, installer.rs, image.rs of src-tauri/src) and *)
(* the two managers these share: the image session with its native guest,  *)
(* and the x86_64 session the working image is handed to.                  *)
(*                                                                         *)
(* A command runs on a worker of its own and holds a manager's lock only   *)
(* for a section; a section is one action here, and what runs between two  *)
(* sections (a download, a guest command, a preparation) ends in any way   *)
(* the next section allows for.  The window is single-threaded, but its    *)
(* builds are coroutines: one that waits for a command of a cancelled      *)
(* build still waits when the next build starts.                           *)
(***************************************************************************)
EXTENDS Naturals, FiniteSets

CONSTANTS MaxBuild,    \* builds that are requested
          Version,     \* NVIDIA versions
          Port,        \* ports a guest may get
          MaxDeaths    \* bound on guests that die by themselves

ASSUME BuildBounds == MaxBuild \in Nat

Build == 1..MaxBuild
None  == 0

\* Who runs stopAllWorkers: cancelBuild, or the catch of a build.
Click == 0
Task  == {Click} \union Build

VARIABLES
  flow,      \* [Build -> runBuild: where it is, and its worker's snapshot]
  ui,        \* [running, cancelling, active]: the window's variables
  cancelTask,\* cancellationTask
  main,      \* the build the main window waits for
  outcome,   \* (history) [Build -> the completion accepted, and whose it was]
  native,    \* ApplianceManager: [cur, preparing, cancel]
  image,     \* [Build -> the session prepared for it]
  x86,       \* NvidiaBuildManager: [cur, starting, cancel]
  box,       \* [Build -> the x86_64 session started for it]
  disk,      \* (history) [Build -> what the working image holds]
  exported,  \* (history) the images published
  deaths

vars == <<flow, ui, cancelTask, main, outcome, native, image, x86, box, disk, exported, deaths>>

-----------------------------------------------------------------------------
\* A session is named after the build that prepared it.
NoUserspace == [ver |-> None, packages |-> None, full |-> FALSE]
NoSession == [state |-> "none", guest |-> FALSE, port |-> None, target |-> None,
              res |-> [status |-> "none", ver |-> None], user |-> NoUserspace,
              bundle |-> FALSE, valid |-> None, inst |-> None]
NoBox == [state |-> "none", guest |-> FALSE, port |-> None, holds |-> None]

\* A build that has not begun, or is over.
NoFlow == [step |-> "none", at |-> "none", n |-> None, port |-> None, m |-> None,
           ver |-> None, local |-> FALSE]
StopAll(b, s) == [todo |-> {"native", "x86"}, seen |-> {}, for |-> b, as |-> s, on |-> TRUE]
NoTask == [todo |-> {}, seen |-> {}, for |-> None, as |-> "none", on |-> FALSE]

Init == /\ flow = [b \in Build |-> NoFlow]
        /\ ui = [running |-> FALSE, cancelling |-> FALSE, active |-> None]
        /\ cancelTask = [t \in Task |-> NoTask]
        /\ main = None /\ outcome = [b \in Build |-> <<>>]
        /\ native = [cur |-> None, preparing |-> FALSE, cancel |-> FALSE]
        /\ image = [b \in Build |-> NoSession]
        /\ x86 = [cur |-> None, starting |-> FALSE, cancel |-> FALSE]
        /\ box = [b \in Build |-> NoBox]
        /\ disk = [b \in Build |-> <<"source">>] /\ exported = {} /\ deaths = 0

-----------------------------------------------------------------------------
\* The window.

windowVars == <<ui, cancelTask, main, outcome>>
managers   == <<native, image, x86, box>>
world      == <<disk, exported, deaths>>

\* A command begins: what the one before it remembered is forgotten.
Call(b, s) ==
  flow' = [flow EXCEPT ![b] = [NoFlow EXCEPT !.step = s, !.at = "call",
             !.local = flow[b].local /\ s # "cleanup"]]
Over(b)    == flow' = [flow EXCEPT ![b] = NoFlow]
At(b, s, l) == flow[b].step = s /\ flow[b].at = l
Goto(b, l) == flow' = [flow EXCEPT ![b].at = l]

\* finish: the completion names the build that is active now; the main window
\* accepts it if that is the build it waits for.
Finish(state, whose) ==
  /\ ui' = [ui EXCEPT !.running = FALSE, !.active = None]
  /\ IF ui.active # None /\ ui.active = main
     THEN outcome' = [outcome EXCEPT ![main] = <<state, whose>>] /\ main' = None
     ELSE UNCHANGED <<outcome, main>>

\* A command that was issued reaches its first section before one the user asks
\* for later: what stays pending is what runs between two sections.
Begun == \A c \in Build : flow[c].at = "call" => flow[c].step = "cleanup"

\* The main window's Build button; runBuild of the window it opens.
Request(b) ==
  /\ Begun
  /\ main = None /\ \A c \in Build : c < b <=> outcome[c] # <<>>
  /\ main' = b
  /\ IF ui.running THEN UNCHANGED <<flow, ui>>
     ELSE ui' = [running |-> TRUE, cancelling |-> FALSE, active |-> b] /\ Call(b, "start")
  /\ UNCHANGED <<cancelTask, outcome, managers, world>>

\* A command was answered: runBuild goes on with the next one; where it looks
\* at "cancelling" first it may return instead.
Answered(b, s, looks) ==
  IF looks /\ ui.cancelling THEN Over(b) ELSE Call(b, s)

\* A command was refused: the catch of runBuild, which lets a cancellation
\* report the end, and else stops every worker first.
Refused(b) ==
  IF ui.cancelling THEN Over(b) /\ UNCHANGED cancelTask
  ELSE Call(b, "cleanup") /\ cancelTask' = [cancelTask EXCEPT ![b] = StopAll(b, "failed")]

\* The user declined a local build of the driver.
Declined(b) == Call(b, "cleanup") /\ cancelTask' = [cancelTask EXCEPT ![b] = StopAll(b, "cancelled")]

\* cancelBuild, by the Cancel button or by closing the window.
Cancel ==
  /\ ~cancelTask[Click].on
  /\ cancelTask' = [cancelTask EXCEPT ![Click] = StopAll(IF ui.running THEN ui.active ELSE None, "cancelled")]
  /\ ui' = [ui EXCEPT !.cancelling = TRUE]
  /\ UNCHANGED <<flow, main, outcome, managers, world>>

\* stopAllWorkers was confirmed, or it failed or gave up after its 120 polls;
\* then a cancellation is taken back, and a declined build has failed.
Ended(t) == cancelTask[t].on /\ cancelTask[t].todo = {} /\ UNCHANGED <<managers, world>>
Stopped(t) == cancelTask[t].seen = {"native", "x86"}
Free(t) == cancelTask' = [cancelTask EXCEPT ![t] = NoTask]

ConfirmCancel(ok) ==
  /\ Ended(Click) /\ (ok => Stopped(Click)) /\ Free(Click) /\ UNCHANGED flow
  /\ IF ok /\ cancelTask[Click].for # None THEN Finish("cancelled", cancelTask[Click].for)
     ELSE ui' = [ui EXCEPT !.cancelling = @ /\ ok] /\ UNCHANGED <<main, outcome>>

ConfirmEnd(t, ok) ==
  /\ Ended(t) /\ (ok => Stopped(t))
  /\ IF ok \/ cancelTask[t].as = "failed"
     THEN Free(t) /\ Finish(cancelTask[t].as, t) /\ Over(t)
     ELSE /\ UNCHANGED <<ui, main, outcome>>
          /\ IF ui.cancelling THEN Over(t) /\ Free(t) ELSE Refused(t)

-----------------------------------------------------------------------------
\* The managers.

Open   == native.cur # None
OpenX  == x86.cur # None
Cur    == IF Open THEN image[native.cur] ELSE NoSession
CurBox == IF OpenX THEN box[x86.cur] ELSE NoBox

SetCur(r)  == image' = [image EXCEPT ![native.cur] = r]
SetBox(r)  == box' = [box EXCEPT ![x86.cur] = r]

\* A session is dropped: its guest is stopped, its directory removed.
Drop(n)    == image' = [image EXCEPT ![n] = NoSession]
DropBox(m) == box' = [box EXCEPT ![m] = NoBox]

\* stop_appliance_blocking.
StopNative(t) ==
  /\ "native" \in cancelTask[t].todo /\ Begun
  /\ cancelTask' = [cancelTask EXCEPT ![t].todo = @ \ {"native"}]
  /\ IF native.preparing \/ ~Open
     THEN native' = [native EXCEPT !.cancel = TRUE] /\ UNCHANGED image
     ELSE native' = [native EXCEPT !.cancel = TRUE, !.cur = None] /\ Drop(native.cur)
  /\ UNCHANGED <<flow, ui, main, outcome, x86, box, world>>

\* stop_nvidia_build_appliance, which does not look at "starting".
StopX86(t) ==
  /\ "x86" \in cancelTask[t].todo /\ Begun
  /\ cancelTask' = [cancelTask EXCEPT ![t].todo = @ \ {"x86"}]
  /\ x86' = [x86 EXCEPT !.cancel = TRUE, !.cur = None]
  /\ IF OpenX THEN DropBox(x86.cur) ELSE UNCHANGED box
  /\ UNCHANGED <<flow, ui, main, outcome, native, image, world>>

\* (mutant) a manager without a session counts as stopped.
PollSessions(t) ==
  /\ cancelTask[t].on /\ cancelTask[t].todo = {}
  /\ \E which \in {"native", "x86"} \ cancelTask[t].seen :
       cancelTask' = [cancelTask EXCEPT ![t].seen =
         IF (which = "native" /\ ~Open) \/ (which = "x86" /\ ~OpenX) THEN @ \union {which} ELSE {}]
  /\ UNCHANGED <<flow, ui, main, outcome, managers, world>>

\* The two statuses of a poll: both must read "stopped" in the same one.
Poll(t) ==
  /\ cancelTask[t].on /\ cancelTask[t].todo = {}
  /\ \E which \in {"native", "x86"} \ cancelTask[t].seen :
       cancelTask' = [cancelTask EXCEPT ![t].seen =
         IF \/ which = "native" /\ ~native.preparing /\ ~Open
            \/ which = "x86" /\ ~x86.starting /\ ~OpenX
         THEN @ \union {which} ELSE {}]
  /\ UNCHANGED <<flow, ui, main, outcome, managers, world>>

\* get_appliance_status_blocking, its first section, when a guest has died.
Exited == Open /\ ~native.preparing /\ ~Cur.guest

\* A worker's snapshot of the session it works for, and of what it works on.
Snapshot(b, l, v) ==
  flow' = [flow EXCEPT ![b] = [@ EXCEPT !.at = l, !.n = native.cur, !.port = Cur.port, !.ver = v]]

\* Is the session in the manager the snapshot's?  By its port, or by its
\* directory.
SamePort(b)    == Open /\ Cur.port = flow[b].port
SameSession(b) == native.cur = flow[b].n

\* Of the x86_64 session: it is ready and the working image is attached; it is
\* claimed for an operation; it is still the claimed one; it is taken and stopped.
Holding(b) ==
  /\ OpenX /\ CurBox.state = "ready" /\ CurBox.holds = flow[b].n
  /\ image[flow[b].n] # NoSession
Claim(b, s, free) ==
  \/ /\ free /\ SetBox([CurBox EXCEPT !.state = s]) /\ UNCHANGED cancelTask
     /\ flow' = [flow EXCEPT ![b] = [@ EXCEPT !.at = "work", !.m = x86.cur, !.port = CurBox.port]]
  \/ ~free /\ Refused(b) /\ UNCHANGED box
Claimed(b, s) == x86.cur = flow[b].m /\ OpenX /\ CurBox.state = s
TakeBox == x86' = [x86 EXCEPT !.cur = None] /\ DropBox(x86.cur)

\* The x86_64 guest is ready: the local build begins, or the validation.
Booted(b) == Answered(b, IF flow[b].local THEN "build" ELSE "validate", TRUE)

-----------------------------------------------------------------------------
\* start_appliance.

\* start_appliance_blocking_with_timeout, until the lock is released.
StartBegin(b) ==
  /\ At(b, "start", "call") /\ UNCHANGED <<ui, main, outcome, x86, box, world>>
  /\ \/ native.preparing /\ Refused(b) /\ UNCHANGED <<native, image>>
     \/ /\ ~native.preparing /\ Open /\ Cur.guest
        /\ Answered(b, "await", TRUE) /\ UNCHANGED <<cancelTask, native, image>>
     \/ /\ ~native.preparing /\ (Open => ~Cur.guest)
        /\ native' = [cur |-> None, preparing |-> TRUE, cancel |-> FALSE]
        /\ IF Open THEN Drop(native.cur) ELSE UNCHANGED image
        /\ Goto(b, "prepare") /\ UNCHANGED cancelTask

\* prepare_session_with_output has ended; the flag is looked at once more.
StartEnd(b) ==
  /\ At(b, "start", "prepare") /\ UNCHANGED <<ui, main, outcome, x86, box, world>>
  /\ \/ /\ native' = [native EXCEPT !.preparing = FALSE] /\ Refused(b) /\ UNCHANGED image
     \/ /\ ~native.cancel
        /\ native' = [native EXCEPT !.preparing = FALSE, !.cur = b]
        /\ \E p \in Port : image' = [image EXCEPT ![b] =
             [NoSession EXCEPT !.state = "booting", !.guest = TRUE, !.port = p]]
        /\ Answered(b, "await", TRUE) /\ UNCHANGED cancelTask

\* get_appliance_status, first section; the window asks again until "ready".
AwaitBegin(b) ==
  /\ At(b, "await", "call") /\ UNCHANGED <<ui, main, outcome, native, x86, box, world>>
  /\ \/ ui.cancelling /\ Over(b) /\ UNCHANGED <<cancelTask, image>>
     \/ Exited /\ SetCur([Cur EXCEPT !.state = "failed"]) /\ Refused(b)
     \/ /\ ~Exited /\ ~native.preparing /\ Open /\ UNCHANGED image
        /\ \/ Cur.state = "booting" /\ Snapshot(b, "shake", None) /\ UNCHANGED cancelTask
           \/ Cur.state = "ready" /\ Answered(b, "mark", TRUE) /\ UNCHANGED cancelTask
           \/ Cur.state \in {"failed", "timedOut"} /\ Refused(b)

\* appliance_readiness_outcome, readiness_attempt_outcome: the handshake ended with
\* the marker, with another answer, after the deadline, or with an error that a
\* guest which still boots may give.
Readiness == {"ready", "failed", "timedOut", "booting"}

\* ... and the second, for the session of that port.
AwaitEnd(b) ==
  /\ At(b, "await", "shake") /\ UNCHANGED <<ui, main, outcome, native, x86, box, world>>
  /\ \/ (~SamePort(b) \/ Cur.state # "booting")
          /\ Answered(b, "await", TRUE) /\ UNCHANGED <<cancelTask, image>>
     \/ /\ SamePort(b) /\ Cur.state = "booting"
        /\ \E s \in Readiness :
             /\ SetCur([Cur EXCEPT !.state = s])
             /\ \/ s = "ready" /\ Answered(b, "mark", TRUE) /\ UNCHANGED cancelTask
                \/ s \in {"failed", "timedOut"} /\ Refused(b)
                \/ s = "booting" /\ Answered(b, "await", TRUE) /\ UNCHANGED cancelTask

\* ready_session_snapshot: of the commands from guest_health to
\* mutate_selected_marker the last alone records something.
MarkBegin(b) ==
  /\ At(b, "mark", "call") /\ UNCHANGED <<ui, main, outcome, managers, world>>
  /\ \/ Open /\ Cur.state = "ready" /\ Snapshot(b, "guest", None) /\ UNCHANGED cancelTask
     \/ ~(Open /\ Cur.state = "ready") /\ Refused(b)

MarkEnd(b) ==
  /\ At(b, "mark", "guest") /\ UNCHANGED <<ui, main, outcome, native, x86, box, world>>
  /\ \/ Refused(b) /\ UNCHANGED image
     \/ /\ SamePort(b) /\ SetCur([Cur EXCEPT !.target = flow[b].n])
        /\ Answered(b, "resolve", TRUE) /\ UNCHANGED cancelTask

-----------------------------------------------------------------------------
\* The NVIDIA inputs.

\* resolve_published_nvidia.
ResolveBegin(b) ==
  /\ At(b, "resolve", "call") /\ UNCHANGED <<ui, main, outcome, managers, world>>
  /\ \/ Open /\ Cur.target # None /\ Snapshot(b, "net", None) /\ UNCHANGED cancelTask
     \/ (Open => Cur.target = None) /\ Refused(b)

\* A resolution replaces what was derived from the one before.
Resolved(status, v) ==
  SetCur([Cur EXCEPT !.res = [status |-> status, ver |-> v], !.user = NoUserspace,
                     !.bundle = FALSE, !.valid = None, !.inst = None])

ResolveEnd(b) ==
  /\ At(b, "resolve", "net") /\ UNCHANGED <<ui, main, outcome, native, x86, box, world>>
  /\ \/ Refused(b) /\ UNCHANGED image
     \/ SameSession(b) /\ Resolved("unavailable", None) /\ Refused(b)
     \/ /\ SameSession(b) /\ UNCHANGED cancelTask
        /\ \E v \in Version : Resolved("compatible", v) /\ Answered(b, "userspace", FALSE)
     \/ /\ SameSession(b) /\ \E v \in Version : Resolved("build_required", v)
        /\ \/ Declined(b)
           \/ /\ flow' = [flow EXCEPT ![b] = [NoFlow EXCEPT !.step = "handoff", !.at = "call", !.local = TRUE]]
              /\ UNCHANGED cancelTask

\* prepare_nvidia_userspace, in three sections.
UserspaceBegin(b) ==
  /\ At(b, "userspace", "call") /\ UNCHANGED <<ui, main, outcome, managers, world>>
  /\ \/ /\ Open /\ Cur.res.status = "compatible" /\ UNCHANGED cancelTask
        /\ IF Cur.user.ver = Cur.res.ver THEN Answered(b, "bundle", FALSE)
           ELSE Snapshot(b, "net", Cur.res.ver)
     \/ (Open => Cur.res.status # "compatible") /\ Refused(b)

UserspaceBundle(b) ==
  /\ At(b, "userspace", "net") /\ UNCHANGED <<ui, main, outcome, native, x86, box, world>>
  /\ \/ Refused(b) /\ UNCHANGED image
     \/ /\ SameSession(b) /\ SetCur([Cur EXCEPT !.bundle = TRUE])
        /\ Goto(b, "packages") /\ UNCHANGED cancelTask

UserspaceEnd(b) ==
  /\ At(b, "userspace", "packages") /\ UNCHANGED <<ui, main, outcome, native, x86, box, world>>
  /\ \/ Refused(b) /\ UNCHANGED image
     \/ /\ SameSession(b) /\ Answered(b, "bundle", FALSE) /\ UNCHANGED cancelTask
        /\ SetCur([Cur EXCEPT !.user = [ver |-> flow[b].ver, packages |-> flow[b].ver, full |-> FALSE],
                              !.bundle = TRUE, !.valid = None, !.inst = None])

\* prepare_nvidia_installer_bundle: the packages go into whatever userspace
\* the session has by then.
BundleBegin(b) ==
  /\ At(b, "bundle", "call") /\ UNCHANGED <<ui, main, outcome, managers, world>>
  /\ LET fits == Open /\ Cur.res.status = "compatible" /\ Cur.user.ver = Cur.res.ver
     IN \/ fits /\ Snapshot(b, "net", Cur.res.ver) /\ UNCHANGED cancelTask
        \/ ~fits /\ Refused(b)

BundleEnd(b) ==
  /\ At(b, "bundle", "net") /\ UNCHANGED <<ui, main, outcome, native, x86, box, world>>
  /\ \/ Refused(b) /\ UNCHANGED image
     \/ /\ SameSession(b) /\ Cur.user.ver # None
        /\ SetCur([Cur EXCEPT !.bundle = TRUE, !.user.packages = flow[b].ver, !.user.full = TRUE])
        /\ Answered(b, IF flow[b].local THEN "validate" ELSE "handoff", FALSE)
        /\ UNCHANGED cancelTask

\* collect_nvidia_install_inputs and validate_on_demand_build_plan.
InputsComplete ==
  /\ Cur.target # None /\ Cur.res.status = "compatible" /\ Cur.bundle
  /\ Cur.user = [ver |-> Cur.res.ver, packages |-> Cur.res.ver, full |-> TRUE]
Planned == Cur.res.status = "build_required"

-----------------------------------------------------------------------------
\* The handoff to the x86_64 appliance.

\* start_nvidia_install_appliance_blocking, in four sections.
HandoffBegin(b) ==
  /\ At(b, "handoff", "call") /\ UNCHANGED <<ui, main, outcome, managers, world>>
  /\ \/ (x86.starting \/ OpenX) /\ Refused(b)
     \/ ~x86.starting /\ ~OpenX /\ Goto(b, "stop") /\ UNCHANGED cancelTask

\* (mutant) the session is handed off before its guest has stopped.
HandoffEarly(b) ==
  /\ At(b, "handoff", "stop") /\ UNCHANGED <<ui, main, outcome, native, x86, box, world>>
  /\ \/ Refused(b) /\ UNCHANGED image
     \/ /\ ~native.preparing /\ Open /\ Cur.state = "ready" /\ (InputsComplete \/ Planned)
        /\ SetCur([Cur EXCEPT !.state = "handoff"])
        /\ Snapshot(b, "claim", None) /\ UNCHANGED cancelTask

\* The working image is locked read-only and the native guest stopped.
HandoffStop(b) ==
  /\ At(b, "handoff", "stop") /\ UNCHANGED <<ui, main, outcome, native, x86, box, world>>
  /\ \/ Refused(b) /\ UNCHANGED image
     \/ /\ ~native.preparing /\ Open /\ Cur.state = "ready" /\ (InputsComplete \/ Planned)
        /\ SetCur([Cur EXCEPT !.state = "handoff", !.guest = FALSE])
        /\ Snapshot(b, "claim", None) /\ UNCHANGED cancelTask

HandoffClaim(b) ==
  /\ At(b, "handoff", "claim") /\ UNCHANGED <<ui, main, outcome, native, image, box, world>>
  /\ \/ (x86.starting \/ OpenX) /\ Refused(b) /\ UNCHANGED x86
     \/ /\ ~x86.starting /\ ~OpenX
        /\ x86' = [x86 EXCEPT !.starting = TRUE, !.cancel = FALSE]
        /\ Goto(b, "prepare") /\ UNCHANGED cancelTask

\* prepare_nvidia_build_session needs the working image, and spawns the guest.
HandoffSpawn(b) ==
  /\ At(b, "handoff", "prepare") /\ UNCHANGED <<ui, main, outcome, native, image, world>>
  /\ \/ x86' = [x86 EXCEPT !.starting = FALSE] /\ Refused(b) /\ UNCHANGED box
     \/ /\ image[flow[b].n] # NoSession /\ UNCHANGED x86
        /\ \E p \in Port : box' = [box EXCEPT ![b] =
             [state |-> "booting", guest |-> TRUE, port |-> p, holds |-> flow[b].n]]
        /\ Goto(b, "record") /\ UNCHANGED cancelTask

\* A cancellation noticed now drops what was prepared.
HandoffEnd(b) ==
  /\ At(b, "handoff", "record") /\ UNCHANGED <<ui, main, outcome, native, image, world>>
  /\ IF x86.cancel
     THEN x86' = [x86 EXCEPT !.starting = FALSE] /\ DropBox(b) /\ Refused(b)
     ELSE /\ x86' = [x86 EXCEPT !.starting = FALSE, !.cur = b] /\ UNCHANGED <<cancelTask, box>>
          /\ Call(b, "awaitx")

\* get_nvidia_build_appliance_status, all of it under the lock.
AwaitX(b) ==
  /\ At(b, "awaitx", "call") /\ UNCHANGED <<ui, main, outcome, native, image, x86, world>>
  /\ \/ ui.cancelling /\ Over(b) /\ UNCHANGED <<cancelTask, box>>
     \/ /\ ~x86.starting /\ OpenX
        /\ \/ ~CurBox.guest /\ SetBox([CurBox EXCEPT !.state = "failed"]) /\ Refused(b)
           \/ /\ CurBox.guest /\ CurBox.state = "booting"
              /\ \/ SetBox([CurBox EXCEPT !.state = "ready"]) /\ Booted(b) /\ UNCHANGED cancelTask
                 \/ /\ Refused(b)
                    /\ \E s \in {"failed", "timedOut"} : SetBox([CurBox EXCEPT !.state = s])
           \/ CurBox.guest /\ CurBox.state = "ready" /\ Booted(b) /\ UNCHANGED <<cancelTask, box>>

\* build_nvidia_target_on_demand, in four sections.
BuildBegin(b) ==
  /\ At(b, "build", "call") /\ UNCHANGED <<ui, main, outcome, managers, world>>
  /\ LET fits == Open /\ Cur.state = "handoff" /\ Planned
     IN \/ fits /\ Snapshot(b, "claim", Cur.res.ver) /\ UNCHANGED cancelTask
        \/ ~fits /\ Refused(b)

BuildClaim(b) ==
  /\ At(b, "build", "claim") /\ UNCHANGED <<ui, main, outcome, native, image, x86, world>>
  /\ Claim(b, "building", OpenX /\ CurBox.state = "ready")

\* The guest's work is over; the session of that port is "ready" again.
BuildWork(b) ==
  /\ At(b, "build", "work") /\ UNCHANGED <<ui, main, outcome, native, image, x86, world>>
  /\ IF OpenX /\ CurBox.port = flow[b].port THEN SetBox([CurBox EXCEPT !.state = "ready"])
     ELSE UNCHANGED box
  /\ Refused(b) \/ (Goto(b, "record") /\ UNCHANGED cancelTask)

BuildEnd(b) ==
  /\ At(b, "build", "record") /\ UNCHANGED <<ui, main, outcome, native, x86, box, world>>
  /\ \/ Refused(b) /\ UNCHANGED image
     \/ /\ SameSession(b) /\ Cur.state = "handoff"
        /\ Resolved("compatible", flow[b].ver)
        /\ Answered(b, "userspace", FALSE) /\ UNCHANGED cancelTask

-----------------------------------------------------------------------------
\* Validation, installation and export.

\* validate_nvidia_install_handoff_blocking, in four sections.
ValidateBegin(b) ==
  /\ At(b, "validate", "call") /\ UNCHANGED <<ui, main, outcome, managers, world>>
  /\ LET fits == Open /\ Cur.state = "handoff" /\ InputsComplete
     IN \/ fits /\ Snapshot(b, "claim", Cur.res.ver) /\ UNCHANGED cancelTask
        \/ ~fits /\ Refused(b)

ValidateClaim(b) ==
  /\ At(b, "validate", "claim") /\ UNCHANGED <<ui, main, outcome, native, image, world>>
  /\ x86' = [x86 EXCEPT !.cancel = FALSE]
  /\ Claim(b, "validating", Holding(b))

\* A failed validation stops the x86_64 session, if it is still the one.
ValidateWork(b) ==
  /\ At(b, "validate", "work") /\ UNCHANGED <<ui, main, outcome, native, image, world>>
  /\ \/ /\ Claimed(b, "validating") /\ SetBox([CurBox EXCEPT !.state = "ready"])
        /\ Goto(b, "record") /\ UNCHANGED <<cancelTask, x86>>
     \/ /\ Refused(b)
        /\ IF Claimed(b, "validating") THEN TakeBox ELSE UNCHANGED <<x86, box>>

\* The window may refuse what was validated (its compression profile).
ValidateEnd(b) ==
  /\ At(b, "validate", "record") /\ UNCHANGED <<ui, main, outcome, native, x86, box, world>>
  /\ \/ ~SameSession(b) /\ Refused(b) /\ UNCHANGED image
     \/ /\ SameSession(b)
        /\ SetCur([Cur EXCEPT !.state = "handoff-validated", !.valid = flow[b].ver])
        /\ (Answered(b, "install", FALSE) /\ UNCHANGED cancelTask) \/ Refused(b)

\* install_nvidia_to_working_image_blocking, in four sections.
InstallBegin(b) ==
  /\ At(b, "install", "call") /\ UNCHANGED <<ui, main, outcome, managers, world>>
  /\ LET fits == Open /\ Cur.state = "handoff-validated" /\ Cur.valid # None /\ InputsComplete
     IN \/ fits /\ Snapshot(b, "claim", Cur.res.ver) /\ UNCHANGED cancelTask
        \/ ~fits /\ Refused(b)

InstallClaim(b) ==
  /\ At(b, "install", "claim") /\ UNCHANGED <<ui, main, outcome, native, image, exported, deaths>>
  /\ x86' = [x86 EXCEPT !.cancel = FALSE]
  /\ Claim(b, "installing", Holding(b))
  /\ disk' = IF Holding(b) THEN [disk EXCEPT ![flow[b].n] = <<"mutating">>] ELSE disk

\* The mutation is over, well or not; either way the x86_64 session is stopped.
InstallWork(b) ==
  /\ At(b, "install", "work") /\ UNCHANGED <<ui, main, outcome, native, image, exported, deaths>>
  /\ IF Claimed(b, "installing") THEN TakeBox ELSE UNCHANGED <<x86, box>>
  /\ \/ Refused(b) /\ UNCHANGED disk
     \/ /\ disk' = [disk EXCEPT ![flow[b].n] = <<"installed", flow[b].ver>>]
        /\ IF Claimed(b, "installing") THEN Goto(b, "record") /\ UNCHANGED cancelTask
           ELSE Refused(b)

\* (mutant) the installation is recorded for whatever session is there.
InstallAny(b) ==
  /\ At(b, "install", "record") /\ UNCHANGED <<ui, main, outcome, native, x86, box, world>>
  /\ \/ ~Open /\ Refused(b) /\ UNCHANGED image
     \/ /\ Open
        /\ SetCur([Cur EXCEPT !.state = "nvidia-installed", !.inst = flow[b].ver])
        /\ Answered(b, "export", TRUE) /\ UNCHANGED cancelTask

InstallEnd(b) ==
  /\ At(b, "install", "record") /\ UNCHANGED <<ui, main, outcome, native, x86, box, world>>
  /\ \/ ~SameSession(b) /\ Refused(b) /\ UNCHANGED image
     \/ /\ SameSession(b)
        /\ SetCur([Cur EXCEPT !.state = "nvidia-installed", !.inst = flow[b].ver])
        /\ Answered(b, "export", TRUE) /\ UNCHANGED cancelTask

\* export_marker_image_blocking takes the session out of the manager.
ExportBegin(b) ==
  /\ At(b, "export", "call") /\ UNCHANGED <<ui, main, outcome, image, x86, box, world>>
  /\ LET fits == /\ ~native.preparing /\ Open
                 /\ Cur.state \in {"ready", "handoff-validated", "nvidia-installed"}
     IN \/ /\ fits /\ Snapshot(b, "convert", None) /\ UNCHANGED cancelTask
           /\ native' = [cur |-> None, preparing |-> TRUE, cancel |-> FALSE]
        \/ ~fits /\ Refused(b) /\ UNCHANGED native

\* What is read is published, unless it fails (ImageExport); the session ends.
ExportEnd(b) ==
  /\ At(b, "export", "convert") /\ UNCHANGED <<x86, box, disk, deaths>>
  /\ native' = [native EXCEPT !.preparing = FALSE] /\ Drop(flow[b].n)
  /\ \/ Refused(b) /\ UNCHANGED <<ui, main, outcome, exported>>
     \/ /\ image[flow[b].n].target # None
        /\ exported' = exported \union {[image |-> image[flow[b].n], disk |-> disk[flow[b].n]]}
        /\ Finish("complete", b) /\ Over(b) /\ UNCHANGED cancelTask

-----------------------------------------------------------------------------
\* A guest exits by itself.
GuestDies ==
  /\ deaths < MaxDeaths /\ deaths' = deaths + 1
  /\ \/ \E b \in Build : image[b].guest /\ image' = [image EXCEPT ![b].guest = FALSE] /\ UNCHANGED box
     \/ \E b \in Build : box[b].guest /\ box' = [box EXCEPT ![b].guest = FALSE] /\ UNCHANGED image
  /\ UNCHANGED <<flow, windowVars, native, x86, disk, exported>>

On(b, s) == flow[b].step = s
Command(b) ==
  \/ On(b, "start") /\ (StartBegin(b) \/ StartEnd(b))
  \/ On(b, "await") /\ (AwaitBegin(b) \/ AwaitEnd(b))
  \/ On(b, "mark") /\ (MarkBegin(b) \/ MarkEnd(b))
  \/ On(b, "resolve") /\ (ResolveBegin(b) \/ ResolveEnd(b))
  \/ On(b, "userspace") /\ (UserspaceBegin(b) \/ UserspaceBundle(b) \/ UserspaceEnd(b))
  \/ On(b, "bundle") /\ (BundleBegin(b) \/ BundleEnd(b))
  \/ On(b, "handoff") /\ (HandoffBegin(b) \/ HandoffStop(b) \/ HandoffClaim(b) \/ HandoffSpawn(b) \/ HandoffEnd(b))
  \/ On(b, "awaitx") /\ AwaitX(b)
  \/ On(b, "build") /\ (BuildBegin(b) \/ BuildClaim(b) \/ BuildWork(b) \/ BuildEnd(b))
  \/ On(b, "validate") /\ (ValidateBegin(b) \/ ValidateClaim(b) \/ ValidateWork(b) \/ ValidateEnd(b))
  \/ On(b, "install") /\ (InstallBegin(b) \/ InstallClaim(b) \/ InstallWork(b) \/ InstallEnd(b))
  \/ On(b, "export") /\ (ExportBegin(b) \/ ExportEnd(b))

Next ==
  \/ \E b \in Build : Request(b) \/ Command(b)
  \/ Cancel
  \/ \E t \in Task :
       StopNative(t) \/ StopX86(t) \/ Poll(t)
  \/ \E ok \in BOOLEAN : ConfirmCancel(ok) \/ \E b \in Build : ConfirmEnd(b, ok)
  \/ GuestDies

Spec == Init /\ [][Next]_vars

-----------------------------------------------------------------------------
\* The completion the main window accepts for a build was originated by that
\* build (finish of build.js, and the listener of main.js).
CompletionOriginates ==
  \A b \in Build : outcome[b] # <<>> => outcome[b][2] = b

\* A working image is attached to one guest at a time, the native one or one
\* x86_64 guest (start_nvidia_install_appliance, stop_session_process).
Holders(n) == {m \in Build : box[m].guest /\ box[m].holds = n}
OneWriter ==
  \A n \in Build : /\ Cardinality(Holders(n)) <= 1
                   /\ image[n].guest => Holders(n) = {}

\* As long as every completion is that of its build, an image is exported only
\* when the driver has been installed to it, a record of the installation in its
\* manifest is true, and it is never converted while a guest writes to it
\* (runBuild; the sections of install_nvidia_to_working_image and
\* export_marker_image), whatever an older build that still waits for a command
\* does to the same session.  (A build that was given the completion of another
\* goes on beside the next one, and may export the image of that one.)
Converts(b) == At(b, "export", "convert")
ExportedInstalled ==
  CompletionOriginates =>
    /\ \A e \in exported :
         /\ e.disk[1] = "installed"
         /\ e.image.inst # None => e.disk = <<"installed", e.image.inst>>
    /\ \A b \in Build : Converts(b) =>
         /\ ~image[flow[b].n].guest
         /\ \A m \in Holders(flow[b].n) : box[m].state # "installing"

\* Once a build has reported that its cancellation is confirmed, no guest runs
\* until another build is requested (stopAllWorkers, stop_appliance,
\* stop_nvidia_build_appliance), also when a handoff was under way whose start
\* took the cancellation flag back.
CancelledIsStopped ==
  \A b \in Build :
    /\ outcome[b] = <<"cancelled", b>> /\ main = None
    /\ \A c \in Build : c > b => outcome[c] = <<>>
    => \A c \in Build : ~image[c].guest /\ ~box[c].guest
=============================================================================
