---------------------------- MODULE GuestScripts ----------------------------
(***************************************************************************)
(* The shell scripts the guests run on the disposable working image: the   *)
(* marker (mutate_user_marker of image.rs), the read-only validation and   *)
(* the installation (validate_nvidia_install_handoff and                   *)
(* install_nvidia_to_working_image of installer.rs), and what the host     *)
(* concludes from them.                                                    *)
(*                                                                         *)
(* To write to SteamOS's root a script clears the seeding flag of its      *)
(* Btrfs filesystem and the read-only property of its default subvolume,   *)
(* and mounts up to five filesystems; its trap has to take all of it back, *)
(* whichever command fails and wherever a signal stops the body.           *)
(*                                                                         *)
(* A script is a sequence of commands, in the order of the source, and the *)
(* shell (set -e) is an interpreter of one command per step.               *)
(***************************************************************************)
EXTENDS Naturals, Sequences, FiniteSets

CONSTANTS MaxFaults,   \* bound on commands that fail although they could succeed
          MaxSignals   \* bound on TERM or INT signals to the shell

VARIABLES
  fs,      \* the root's Btrfs filesystem: [seeding, default, subs, ro, holds]
  dev,     \* the guest's disks: [source, detaching, ro]
  at,      \* [Place -> how it is mounted: "no", "ro", "rw"]
  shell,   \* the shell: [script, mode, pc, vars, rc, trapped, again, clean];
           \* (history) clean: no command of its cleanup failed, no signal cut it short
  host,    \* the builder: [stage, doc, assets]
  before,  \* (history) fs as the running script found it
  faults, signals

vars == <<fs, dev, at, shell, host, before, faults, signals>>

\* A subvolume: the filesystem's own tree, the image's default subvolume, and
\* the snapshot the marker script makes of it.
Tree == "tree"
Root == "root"
Snap == "snap"

\* Where filesystems are mounted: MOUNT_DIR of the marker script, and TOP,
\* ROOT, home, var and efi of the installer's.
Place == {"dir", "top", "ROOT", "home", "var", "efi"}
Nested == {"home", "var", "efi"}

-----------------------------------------------------------------------------
\* Commands.

Do(op, arg)     == [op |-> op, arg |-> arg, skip |-> 0]
Mount(p, how)   == Do("mount", <<p, how>>)
Umount(p)       == Do("umount", p)
Set(v)          == Do("set", v)
Clear(v)        == Do("clear", v)
Seeding(b)      == Do("seeding", b)
ReadOnly(s, b)  == Do("property", <<s, b>>)
Trap(b)         == Do("trap", b)
Test(c)         == Do("test", c)
Unless(c, n)    == [op |-> "unless", arg |-> c, skip |-> n]   \* skips n commands

\* What a test or an "if" looks at.
Is(v)      == <<"set", v>>
Not(v)     == <<"unset", v>>
On(p)      == <<"mounted", p>>
As(p, how) == <<how, p>>
Ask(what)  == <<"ask", what>>

\* (mutant) the variable is set when the command has succeeded.
MountUnseededLate(p, v) ==
  <<Mount(p, "rw"), Set(v),
    Unless(As(p, "ro"), 6), Umount(p), Clear(v), Seeding(FALSE), Set("WAS_SEEDING"), Mount(p, "rw"), Set(v),
    Test(As(p, "rw"))>>

\* A filesystem that is a seed is mounted ro whatever was asked for.  v is the
\* variable that says it is mounted (the marker script asks findmnt instead).
MountUnseeded(p, v) ==
  <<Mount(p, "rw"), Set(v),
    Unless(As(p, "ro"), 6), Umount(p), Clear(v), Set("WAS_SEEDING"), Seeding(FALSE), Mount(p, "rw"), Set(v),
    Test(As(p, "rw"))>>

\* The default subvolume is found and made writable.
Writable ==
  <<Test(Ask("default is safe")), Set("SOURCE_ROOT"),
    Unless(Ask("source ro"), 2), Set("RESTORE_RO"), ReadOnly("source", FALSE)>>

MarkerScript ==
  <<Test(Ask("source detached")), Test(Ask("one target")), Trap(TRUE)>>
  \o MountUnseeded("dir", "DIR") \o Writable
  \o <<Unless(Ask("default is a subvolume"), 1), Do("snapshot", Snap), Do("write", "marker"),
       Unless(Is("RESTORE_RO"), 2), ReadOnly("source", TRUE), Clear("RESTORE_RO"),
       Unless(Ask("snapshot"), 2), ReadOnly("snapshot", TRUE), Do("default", Snap),
       Umount("dir"),
       Unless(Is("WAS_SEEDING"), 2), Seeding(TRUE), Set("SEEDING_RESTORED"),
       Do("setro", "work"), Mount("dir", "ro"), Test(Ask("marked")), Umount("dir"),
       Trap(FALSE), Test(Ask("work ro")), Test(Ask("released"))>>

\* (mutant) the property is not restored.
MarkerCleanupKeepsRw ==
  <<Unless(On("dir"), 1), Umount("dir"),
    Unless(Is("WAS_SEEDING"), 2), Unless(Not("SEEDING_RESTORED"), 1), Seeding(TRUE),
    Do("setro", "work")>>

\* cleanup_marker: each command may fail, the status is the script's.
MarkerCleanup ==
  <<Unless(On("dir"), 3), Unless(Is("RESTORE_RO"), 2), Unless(Is("SOURCE_ROOT"), 1), ReadOnly("source", TRUE),
    Unless(On("dir"), 1), Umount("dir"),
    Unless(Is("WAS_SEEDING"), 2), Unless(Not("SEEDING_RESTORED"), 1), Seeding(TRUE),
    Do("setro", "work")>>

ValidationScript ==
  <<Test(Ask("one target")), Trap(TRUE),
    Mount("ROOT", "ro"), Set("ROOT_MOUNTED"), Mount("var", "ro"), Set("VAR_MOUNTED"),
    Mount("efi", "ro"), Set("EFI_MOUNTED"), Do("support", "validated"), Test(Is("SUPPORTED")),
    Umount("efi"), Clear("EFI_MOUNTED"), Umount("var"), Clear("VAR_MOUNTED"),
    Umount("ROOT"), Clear("ROOT_MOUNTED"), Trap(FALSE)>>

ValidationCleanup ==
  <<Unless(Is("EFI_MOUNTED"), 1), Umount("efi"), Unless(Is("VAR_MOUNTED"), 1), Umount("var"),
    Unless(Is("ROOT_MOUNTED"), 1), Umount("ROOT"), Test(Ask("released"))>>

MutationMounts ==
  <<Test(Ask("one target")), Trap(TRUE)>> \o MountUnseeded("top", "TOP_MOUNTED") \o Writable
  \o <<Unless(Ask("default is a subvolume"), 2), Mount("ROOT", "rw"), Set("ROOT_MOUNTED"),
       Test(Ask("root rw")),
       Mount("home", "rw"), Set("HOME_MOUNTED"), Mount("var", "rw"), Set("VAR_MOUNTED"),
       Mount("efi", "rw"), Set("EFI_MOUNTED")>>

MutationSupport == <<Do("support", "success"), Test(Is("SUPPORTED")), Test(Ask("initramfs"))>>

\* The installation media's files: the transferred ones are compared with their
\* digests, installed, and the installed ones compared again.
MediaInstall == <<Test(Ask("assets")), Do("write", "media")>>

\* Everything back.  The "! findmnt" lines before "trap -" are left out: set -e
\* ignores the status of a command inverted with "!".
MutationRelease ==
  <<Umount("efi"), Clear("EFI_MOUNTED"), Umount("var"), Clear("VAR_MOUNTED"),
    Umount("home"), Clear("HOME_MOUNTED"),
    Unless(Is("ROOT_MOUNTED"), 2), Umount("ROOT"), Clear("ROOT_MOUNTED"),
    Unless(Is("RESTORE_RO"), 2), ReadOnly("source", TRUE), Clear("RESTORE_RO"),
    Umount("top"), Clear("TOP_MOUNTED"),
    Unless(Is("WAS_SEEDING"), 2), Seeding(TRUE), Set("SEEDING_RESTORED"), Trap(FALSE)>>

MutationScript == MutationMounts \o MutationSupport \o MediaInstall \o MutationRelease

MutationCleanup ==
  <<Trap(FALSE),
    Unless(Is("EFI_MOUNTED"), 1), Umount("efi"), Unless(Is("VAR_MOUNTED"), 1), Umount("var"),
    Unless(Is("HOME_MOUNTED"), 1), Umount("home"), Unless(Is("ROOT_MOUNTED"), 1), Umount("ROOT"),
    Unless(Is("RESTORE_RO"), 3), Unless(Is("TOP_MOUNTED"), 2), Unless(Is("SOURCE_ROOT"), 1), ReadOnly("source", TRUE),
    Unless(Is("TOP_MOUNTED"), 1), Umount("top"),
    Unless(Is("WAS_SEEDING"), 2), Unless(Not("SEEDING_RESTORED"), 1), Seeding(TRUE),
    Test(Ask("released"))>>

Body(s) == CASE s = "marker"   -> MarkerScript
             [] s = "validate" -> ValidationScript
             [] s = "mutate"   -> MutationScript
Cleanup(s) == CASE s = "marker"   -> MarkerCleanup
                [] s = "validate" -> ValidationCleanup
                [] s = "mutate"   -> MutationCleanup

-----------------------------------------------------------------------------
\* The shell.

Idle(s) == [script |-> s, mode |-> "none", pc |-> 1, vars |-> {}, rc |-> 0, trapped |-> FALSE,
            again |-> FALSE, clean |-> TRUE]

Init == /\ \E s \in BOOLEAN, r \in BOOLEAN, d \in {Tree, Root} :
             fs = [seeding |-> s, default |-> d, subs |-> {Tree, d},
                   ro |-> [v \in {Tree, Root, Snap} |-> r /\ v = d],
                   holds |-> [v \in {Tree, Root, Snap} |-> {}]]
        /\ dev = [source |-> TRUE, detaching |-> FALSE, ro |-> FALSE]
        /\ at = [p \in Place |-> "no"] /\ shell = Idle("marker") /\ before = fs
        /\ host = [stage |-> "preflight", doc |-> "none", assets |-> TRUE]
        /\ faults = 0 /\ signals = 0

Released == \A p \in Place : at[p] = "no"
Running  == shell.mode \in {"run", "cleanup"}
Program  == IF shell.mode = "run" THEN Body(shell.script) ELSE Cleanup(shell.script)

\* The command at the program counter, if the script has not ended there.
Command  == IF ~Running THEN {}
            ELSE LET p == Program IN IF shell.pc <= Len(p) THEN {p[shell.pc]} ELSE {}

\* Where the running script reaches the filesystem's tree, and the root it
\* writes to: ROOT, or the tree itself when that is the default.
TreeAt   == IF shell.script = "marker" THEN "dir" ELSE "top"
RootAt   == IF shell.script = "marker" THEN "dir"
            ELSE IF shell.script = "mutate" /\ fs.default = Tree THEN "top" ELSE "ROOT"
Written  == IF shell.script = "marker" /\ Snap \in fs.subs THEN Snap ELSE fs.default
Btrfs    == {"dir", "top", "ROOT"}
Subvolume(s) == IF s = "source" THEN before.default ELSE Snap

Answer(c) ==
  LET x == c[2]
  IN CASE c[1] = "set"     -> x \in shell.vars
       [] c[1] = "unset"   -> x \notin shell.vars
       [] c[1] = "mounted" -> at[x] # "no"
       [] c[1] \in {"ro", "rw"} -> at[x] = c[1]
       [] c[1] = "ask" ->
            /\ x = "source detached" => ~dev.source
            /\ x = "source ro" => fs.ro[before.default]
            /\ x = "default is a subvolume" => before.default # Tree
            /\ x = "snapshot" => Snap \in fs.subs
            /\ x = "root rw" => at[RootAt] = "rw"
            /\ x = "marked" => "marker" \in fs.holds[fs.default]
            /\ x = "work ro" => dev.ro
            /\ x = "initramfs" => "driver" \in fs.holds[fs.default]
            /\ x = "assets" => host.assets
            /\ x = "released" => Released

\* A command can succeed: btrfstune needs the filesystem unmounted, a property
\* a writable mount, a mount point its parent, and umount nothing below.
Possible(c) ==
  LET a == c.arg
  IN CASE c.op = "mount"    -> at[a[1]] = "no" /\ (a[1] \in Nested => at[RootAt] # "no")
       [] c.op = "umount"   -> at[a] # "no" /\ (a = RootAt => \A p \in Nested : at[p] = "no")
       [] c.op = "seeding"  -> \A p \in Btrfs : at[p] = "no"
       [] c.op = "property" -> at[TreeAt] = "rw"
       [] c.op = "snapshot" -> at["dir"] = "rw" /\ Snap \notin fs.subs
       [] c.op = "default"  -> at["dir"] = "rw"
       [] c.op = "write"    -> at[RootAt] = "rw" /\ ~fs.ro[Written]
       [] c.op = "test"     -> Answer(a)
       [] OTHER -> TRUE

\* What a command that succeeds changes outside the shell.
Holding(v, what) == [fs EXCEPT !.holds[v] = @ \union {what}]

Mounts(c) ==
  /\ c.op = "mount" /\ UNCHANGED <<fs, dev, host>>
  /\ LET p == c.arg[1]
     IN at' = [at EXCEPT ![p] = IF p \in Btrfs /\ fs.seeding THEN "ro" ELSE c.arg[2]]

Umounts(c) ==
  /\ c.op = "umount" /\ UNCHANGED <<fs, dev, host>>
  /\ at' = [at EXCEPT ![c.arg] = "no"]

Changes(c) ==
  /\ UNCHANGED <<at, dev, host>>
  /\ \/ c.op = "seeding" /\ fs' = [fs EXCEPT !.seeding = c.arg]
     \/ c.op = "property" /\ fs' = [fs EXCEPT !.ro[Subvolume(c.arg[1])] = c.arg[2]]
     \/ c.op = "snapshot" /\ fs' = [fs EXCEPT !.subs = @ \union {Snap}, !.holds[Snap] = @ \union fs.holds[fs.default]]
     \/ c.op = "default" /\ fs' = [fs EXCEPT !.default = Snap]
     \/ c.op = "write" /\ fs' = Holding(Written, c.arg)

Protects(c) == c.op = "setro" /\ UNCHANGED <<fs, at, host>> /\ dev' = [dev EXCEPT !.ro = TRUE]

Assigns(c) ==
  /\ c.op \in {"test", "set", "clear", "trap", "unless"}
  /\ UNCHANGED <<fs, at, dev, host>>

\* The support program (external), behind "set +e": it succeeds, or fails
\* with a part of its work done; it leaves a document either way, or none.
SupportWorks(c) ==
  /\ c.op = "support" /\ UNCHANGED <<dev, at>>
  /\ host' = [host EXCEPT !.doc = c.arg]
  /\ fs' = IF c.arg = "success" THEN Holding(fs.default, "driver") ELSE fs

SupportFails(c) ==
  /\ c.op = "support" /\ UNCHANGED <<dev, at>>
  /\ \E d \in {"failed", "none"} : host' = [host EXCEPT !.doc = d]
  /\ fs' = IF c.arg = "success" THEN Holding(fs.default, "part") ELSE fs

Advance(c) ==
  shell' = [shell EXCEPT
    !.pc = @ + 1 + (IF c.op = "unless" /\ ~Answer(c.arg) THEN c.skip ELSE 0),
    !.vars = IF c.op = "set" THEN @ \union {c.arg}
             ELSE IF c.op = "clear" THEN @ \ {c.arg}
             ELSE IF c.op = "support" /\ host'.doc = c.arg THEN @ \union {"SUPPORTED"} ELSE @,
    !.trapped = IF c.op = "trap" THEN c.arg ELSE @]

Succeed ==
  \E c \in Command :
    /\ Possible(c) /\ UNCHANGED <<before, faults, signals>>
    /\ Mounts(c) \/ Umounts(c) \/ Changes(c) \/ Protects(c) \/ SupportWorks(c) \/ Assigns(c)
    /\ Advance(c)

\* A command fails: because it cannot succeed, or by itself.  The body ends,
\* in the trap if it is set; a cleanup goes on, and its status is a failure
\* (the marker's cleanup keeps the status of the body, which has failed too).
Failed ==
  IF shell.mode = "cleanup" THEN [shell EXCEPT !.pc = @ + 1, !.rc = 1, !.clean = FALSE]
  ELSE [shell EXCEPT !.pc = 1, !.rc = 1, !.mode = IF shell.trapped THEN "cleanup" ELSE "exited"]

Fail ==
  \E c \in Command :
    /\ c.op \notin {"set", "clear", "trap", "unless", "support"}
    /\ faults' = IF Possible(c) THEN faults + 1 ELSE faults
    /\ faults' <= MaxFaults
    /\ shell' = Failed /\ UNCHANGED <<fs, dev, at, host, before, signals>>

FailSupport ==
  \E c \in Command :
    /\ faults < MaxFaults /\ faults' = faults + 1
    /\ SupportFails(c) /\ Advance(c) /\ UNCHANGED <<before, signals>>

End ==
  /\ Running /\ Command = {}
  /\ shell' = IF shell.again THEN [shell EXCEPT !.again = FALSE, !.pc = 1]
              ELSE [shell EXCEPT !.mode = "exited"]
  /\ UNCHANGED <<fs, dev, at, host, before, faults, signals>>

\* INT or TERM between two commands, of the body or of a cleanup.  The
\* installation's cleanup has taken its trap away, and the marker's is not
\* entered again: the shell ends there, and what is left of the cleanup is not
\* done.  The trap of the installer's scripts begins with the status of the
\* command before it; the validation's is still set in its cleanup, which a
\* signal starts anew, and when it exits after a signal, and runs again.
Ends == ~shell.trapped \/ (shell.script = "marker" /\ shell.mode = "cleanup")

Signal ==
  /\ Running /\ Command # {} /\ signals < MaxSignals /\ signals' = signals + 1
  /\ IF Ends THEN shell' = [shell EXCEPT !.mode = "exited", !.rc = 1,
                                         !.clean = @ /\ shell.mode = "run"]
     ELSE \E status \in (IF shell.script = "marker" THEN {1}
                         ELSE IF shell.mode = "run" THEN {0} ELSE {0, 1}) :
            shell' = [shell EXCEPT !.mode = "cleanup", !.pc = 1, !.rc = status,
                        !.again = IF shell.mode = "run" THEN shell.script = "validate" ELSE @]
  /\ UNCHANGED <<fs, dev, at, host, before, faults>>

-----------------------------------------------------------------------------
\* The host.

Begin(s) == shell' = [Idle(s) EXCEPT !.mode = "run"] /\ before' = fs
At(stage) == host.stage = stage
Goto(stage) == host' = [host EXCEPT !.stage = stage]

\* preflight_user_marker, and the start of the marker script.
Preflight ==
  /\ At("preflight") /\ UNCHANGED <<fs, dev, at, faults, signals>>
  /\ dev.source /\ ~dev.ro /\ Released
  /\ Goto("ready") /\ Begin("marker")

\* The script has written its first line: the source is detached.  A request
\* that is reported as failed may have been accepted.
DetachSource ==
  /\ At("ready") /\ UNCHANGED <<fs, at, shell, before, faults, signals>>
  /\ \/ Goto("marking") /\ dev' = [dev EXCEPT !.detaching = TRUE]
     \/ Goto("failed") /\ \E d \in BOOLEAN : dev' = [dev EXCEPT !.detaching = d]

\* (external) the guest gives the device up.
Detached ==
  /\ dev.detaching /\ dev.source /\ dev' = [dev EXCEPT !.source = FALSE]
  /\ UNCHANGED <<fs, at, shell, host, before, faults, signals>>

\* (mutant) the status of the script is not looked at.
ConcludeByDocument(stage, doc, next) ==
  /\ At(stage) /\ shell.mode = "exited" /\ UNCHANGED <<fs, dev, at, shell, before, faults, signals>>
  /\ Goto(IF host.doc = doc THEN next ELSE "failed")

\* The host reads how the script ended, and the document.
Conclude(stage, doc, next) ==
  /\ At(stage) /\ shell.mode = "exited" /\ UNCHANGED <<fs, dev, at, shell, before, faults, signals>>
  /\ Goto(IF shell.rc = 0 /\ host.doc = doc THEN next ELSE "failed")

MarkEnd     == Conclude("marking", "none", "marked")
ValidateEnd == Conclude("validating", "validated", "validated")
InstallEnd  == Conclude("installing", "success", "installed")

\* start_nvidia_install_appliance and the validation: the native guest is
\* stopped, and another one gets the working image, writable.
Handoff ==
  /\ At("marked") /\ dev.ro /\ UNCHANGED <<fs, faults, signals>>
  /\ dev' = [dev EXCEPT !.ro = FALSE] /\ at' = [p \in Place |-> "no"]
  /\ Goto("validating") /\ Begin("validate")

\* install_nvidia_to_working_image: the assets are transferred, perhaps not as
\* they are.
Install ==
  /\ At("validated") /\ UNCHANGED <<fs, dev, at, faults, signals>> /\ Begin("mutate")
  /\ \E good \in BOOLEAN : host' = [stage |-> "installing", doc |-> "none", assets |-> good]

\* The host gives up (a cancellation, a lost connection); the script goes on
\* until the guest is stopped, with what it has mounted.
GiveUp ==
  /\ Running /\ ~At("failed") /\ Goto("failed") /\ UNCHANGED <<fs, dev, at, shell, before, faults, signals>>

GuestStops ==
  /\ Running /\ Goto("failed") /\ shell' = [shell EXCEPT !.mode = "lost"]
  /\ at' = [p \in Place |-> "no"] /\ UNCHANGED <<fs, dev, before, faults, signals>>

Next ==
  \/ Succeed \/ Fail \/ FailSupport \/ End \/ Signal
  \/ Preflight \/ DetachSource \/ Detached \/ MarkEnd \/ Handoff \/ ValidateEnd \/ Install \/ InstallEnd
  \/ GiveUp \/ GuestStops

Spec == Init /\ [][Next]_vars

-----------------------------------------------------------------------------
\* The flags a script has to take back are as it found them, and nothing is
\* mounted.
AsFound == /\ Released /\ fs.seeding = before.seeding
           /\ fs.ro[before.default] = before.ro[before.default]

\* A script that ends, wherever a command failed or a signal stopped it, has
\* released and restored everything; or a command of its cleanup failed, or a
\* signal ended the shell in its cleanup, and then it does not end with status 0
\* (the traps, and the order of the flags, in mutate_user_marker and
\* install_nvidia_to_working_image).  What the builder records holds of the
\* image: the marker in a read-only default subvolume of its own, an untouched
\* original, and an installation with the driver and, if no signal stopped the
\* shell, the installation media.
RootRestored ==
  /\ shell.mode = "exited" /\ (shell.clean \/ shell.rc = 0) => AsFound
  /\ At("marked") => /\ AsFound /\ dev.ro /\ "marker" \in fs.holds[fs.default]
                     /\ before.default = Root =>
                          fs.default = Snap /\ fs.ro[Snap] /\ fs.holds[Root] = before.holds[Root]
  /\ At("validated") => Released /\ fs = before
  /\ At("installed") => /\ AsFound /\ {"marker", "driver"} \subseteq fs.holds[fs.default]
                        /\ signals = 0 => "media" \in fs.holds[fs.default]
=============================================================================
