---------------------------- MODULE NvidiaInputs ----------------------------
(***************************************************************************)
(* What an NVIDIA installation is made from: the release that is selected, *)
(* the archive that is downloaded or built for it, the pinned installer    *)
(* bundle, the reviewed userspace packages, and the checks between the     *)
(* first download and the record of the installation (nvidia.rs,           *)
(* appliance.rs, core_contracts.rs, installer.rs).                         *)
(*                                                                         *)
(* No command excludes another one: each takes what it needs of the        *)
(* session under the lock, works without it, and records its result in     *)
(* the session it finds.  An archive is what it was built for and its      *)
(* edition; a file is as it was verified ("whole"), or not.                *)
(***************************************************************************)
EXTENDS Naturals, FiniteSets

CONSTANTS Call,      \* the commands that run at a time
          Version,   \* NVIDIA versions, numbers
          Reviewed,  \* the version whose userspace lock is pinned
          Stamp,     \* the milliseconds that name directories
          MaxCalls,  \* bound on commands and changed files together
          MaxChanges \* bound on files another program changes

VARIABLES
  session,   \* what the image session records
  box,       \* the x86_64 session, and what its guest has received
  pub,       \* published-nvidia-<ms>: [Stamp -> [Part -> File]]
  named,     \* the stamps that name such a directory
  packages,  \* nvidia-userspace-<ms>: [Stamp -> File]
  bundles,   \* opemos-core-<id>, nvidia-installer-<commit>: [BundleKind -> File]
  built,     \* on-demand-nvidia-artifacts: "absent", or the files in it
  cmd,       \* [Call -> the command under way]
  calls, changes

ASSUME InputBounds ==
  /\ IsFiniteSet(Call) /\ Version \subseteq Nat \ {0} /\ Reviewed \in Version
  /\ Stamp \subseteq Nat \ {0} /\ 1 \in Stamp /\ MaxCalls \in Nat /\ MaxChanges \in Nat

inputFiles == <<pub, named, packages, bundles, built>>
inputVars  == <<session, box, inputFiles, cmd, calls, changes>>

\* A release is published for a SteamOS version, of which Target is the image's.
Target  == 2
DriverRelease == [steam : {Target, Target + 1}, nvidia : Version, kernel : {"target", "other"},
                  at : {1, 2}]
Listing == {l \in SUBSET DriverRelease : Cardinality(l) <= 2}
DriverArchive == [version : Version, kernel : {"target", "other"}, edition : 1..3]
NoArchive == [version |-> 0, kernel |-> "none", edition |-> 0]
Part       == {"sidecars", "archive"}   \* the checksum and the provenance, the archive
BundleKind == {"core", "legacy"}

\* An archive is in the directory of a stamp, or, built on demand, in that of 0.
NoCommand == [op |-> "none", at |-> "idle", version |-> 0, kernel |-> "none",
              archive |-> NoArchive, place |-> 0, packages |-> 0, bundle |-> "none"]
Made    == [version |-> Reviewed, kernel |-> "target", edition |-> 1]
NoRes   == [status |-> "none", version |-> 0, archive |-> NoArchive, place |-> 0]
NoInst  == [said |-> NoArchive, used |-> NoArchive, whole |-> FALSE, bundle |-> "none"]
NoGuest == [archive |-> NoArchive, whole |-> FALSE, bundle |-> "none"]

NoSession == [live |-> FALSE, state |-> "none", res |-> NoRes, packages |-> 0, bundle |-> "none",
              valid |-> FALSE, inst |-> NoInst]

\* A session of which nothing is resolved, or one that was handed off with a
\* publication whose inputs are prepared.
InputsInit ==
  /\ box = [state |-> "ready", sum |-> NoArchive, guest |-> NoGuest] /\ built = "absent"
  /\ cmd = [c \in Call |-> NoCommand] /\ changes = 0
  /\ \E first \in BOOLEAN :
       LET one == IF first THEN "none" ELSE "whole"
           ready == [NoSession EXCEPT !.live = TRUE, !.state = "ready"]
           made == [status |-> "compatible", version |-> Reviewed, archive |-> Made, place |-> 1]
       IN /\ session = IF first THEN ready
                       ELSE [ready EXCEPT !.state = "handoff", !.res = made, !.packages = 1,
                                          !.bundle = "core"]
          /\ pub = [d \in Stamp |-> [p \in Part |-> IF d = 1 THEN one ELSE "none"]]
          /\ named = (IF first THEN {} ELSE {1}) /\ calls = (IF first THEN 1 ELSE 0)
          /\ packages = [d \in Stamp |-> IF d = 1 THEN one ELSE "none"]
          /\ bundles = [k \in BundleKind |-> IF k = "core" THEN one ELSE "none"]

-----------------------------------------------------------------------------
\* select_published_nvidia_release: a release for the target's kernel and no
\* newer than the target, the greatest of them; select_nvidia_build_baseline:
\* the greatest one of any kernel, or the nearest of the newer ones.
Before(o, r) == \/ o.steam < r.steam
                \/ o.steam = r.steam /\ o.nvidia < r.nvidia
                \/ o.steam = r.steam /\ o.nvidia = r.nvidia /\ o.at <= r.at
Newest(rs)   == CHOOSE r \in rs : \A o \in rs : Before(o, r)
TagTwice(rs) == \E r, o \in rs : /\ r.at # o.at
                                 /\ <<r.steam, r.nvidia, r.kernel>> = <<o.steam, o.nvidia, o.kernel>>

Compatible(l) == {r \in l : r.steam <= Target /\ r.kernel = "target"}
Nearest(l)    == IF \E r \in l : r.steam <= Target THEN {r \in l : r.steam <= Target}
                 ELSE {r \in l : \A o \in l : r.steam <= o.steam}

Plan(v)   == [status |-> "plan", version |-> v, kernel |-> "target"]
NoRelease == [status |-> "none", version |-> 0, kernel |-> "none"]

Selected(l) ==
  IF Compatible(l) # {}
  THEN LET r == Newest(Compatible(l))
       IN [status |-> "publication", version |-> r.nvidia, kernel |-> r.kernel]
  ELSE IF l # {} THEN Plan(Newest(Nearest(l)).nvidia) ELSE NoRelease

\* A tag that is listed twice is refused.
Clear(l) == ~TagTwice(Compatible(l)) /\ (Compatible(l) # {} \/ ~TagTwice(l))

\* What a listing comes to is what one of its releases comes to alone, one
\* for the target's kernel if there is any; and nothing newer than the target
\* is taken while there is something that is not.
SelectionRight ==
  \A l \in {x \in Listing : Clear(x) /\ x # {}} :
    \E r \in l : /\ Selected(l) = Selected({r})
                 /\ (\E o \in l : o.kernel = "target" /\ o.steam <= Target)
                      => Selected(l).status = "publication"
                 /\ (\E o \in l : o.steam <= Target) => r.steam <= Target

\* What a selection comes to: the automatic one; a project branch, whose
\* version is built when it is not published; an upstream tag.  A publication
\* that lacks a file is none.
Branches == {Plan(v) : v \in Version}
Picks    == {Selected({r}) : r \in DriverRelease} \union Branches \union {NoRelease}

-----------------------------------------------------------------------------
CmdAt(c, o, l) == cmd[c].op = o /\ cmd[c].at = l
CmdIn(c, o, L) == cmd[c].op = o /\ cmd[c].at \in L
Continue(c, l) == cmd' = [cmd EXCEPT ![c].at = l]
Over(c)     == cmd' = [cmd EXCEPT ![c] = NoCommand]
Live        == session.live
Keep        == UNCHANGED <<calls, changes>>
Only(c, l)  == Continue(c, l) /\ UNCHANGED <<session, box, inputFiles>> /\ Keep
Refused(c)  == Over(c) /\ UNCHANGED <<session, box, inputFiles>> /\ Keep

\* The places of commands are interchangeable: the first one that is free.
Least(S) == {d \in S : \A o \in S : d <= o}
Within   == calls + changes < MaxCalls
Free(c)  == Live /\ Within /\ cmd[c].op = "none" /\ \A o \in Call : o < c => cmd[o].op # "none"
BeginCommand(c, r) ==
  /\ calls' = calls + 1
  /\ cmd' = [cmd EXCEPT ![c] = r]
  /\ UNCHANGED <<session, box, inputFiles, changes>>

\* resolve_published_nvidia, until the release is selected.
Resolve(c) == Free(c) /\ \E s \in Picks :
  BeginCommand(c, [NoCommand EXCEPT !.op = "resolve", !.version = s.version, !.kernel = s.kernel,
                                    !.at = IF s.status = "publication" THEN "create" ELSE "record"])

Emptied(d) == [pub EXCEPT ![d] = [p \in Part |-> "none"]]

\* What is published now under the name of a release: an edition of it, or
\* what was built for another kernel.
Offered(c) == {a \in DriverArchive : a.version = cmd[c].version /\ a.edition = 2}
Receive(c, d, a) ==
  /\ named' = named \union {d} /\ pub' = [pub EXCEPT ![d]["sidecars"] = "partial"]
  /\ cmd' = [cmd EXCEPT ![c].at = "sidecars", ![c].place = d, ![c].archive = a]

\* (mutant) the guards are there before the directory is.
ResolveCreateGuarded(c) ==
  /\ CmdAt(c, "resolve", "create") /\ Live
  /\ UNCHANGED <<session, box, packages, bundles, built>> /\ Keep
  /\ \/ \E d \in Least(Stamp \ named), a \in Offered(c) : Receive(c, d, a)
     \/ \E d \in named : pub' = Emptied(d) /\ Over(c) /\ UNCHANGED named

\* The directory must be a new one (a name that is taken is a failure); what
\* the listing tells of the release's files is to be downloaded.
ResolveCreate(c) ==
  /\ CmdAt(c, "resolve", "create") /\ Live
  /\ UNCHANGED <<session, box, packages, bundles, built>> /\ Keep
  /\ \E d \in Least(Stamp \ named), a \in Offered(c) : Receive(c, d, a)

\* download_release_asset: a partial file takes its name once its digest is
\* the listed one; then the next file's download begins.
After == [sidecars |-> "archive", archive |-> "validate"]
Downloaded(c) ==
  /\ CmdIn(c, "resolve", Part) /\ Live
  /\ LET p == cmd[c].at IN
     /\ pub' = [pub EXCEPT ![cmd[c].place] =
                  [f \in Part |-> IF f = p THEN "whole"
                                  ELSE IF f = After[p] THEN "partial" ELSE @[f]]]
     /\ Continue(c, After[p])
  /\ UNCHANGED <<session, box, named, packages, bundles, built>> /\ Keep

\* validate_published_nvidia_artifact: the archive and both of its other files
\* belong together, and to the release.
Specified(a, c) == a.version = cmd[c].version /\ a.kernel = cmd[c].kernel
Inspected(f)    == f \in {"whole", "changed"}
ResolveCheck(c) ==
  /\ CmdAt(c, "resolve", "validate") /\ Live
  /\ Inspected(pub[cmd[c].place]["archive"]) /\ Specified(cmd[c].archive, c) /\ Only(c, "record")

\* The network, a size, a digest, the storage, the cancellation, a check: the
\* guards remove the files, the directory stays.
ResolveFail(c) ==
  /\ CmdIn(c, "resolve", Part \union {"create", "validate"}) /\ Over(c)
  /\ pub' = IF cmd[c].place # 0 THEN Emptied(cmd[c].place) ELSE pub
  /\ UNCHANGED <<session, box, named, packages, bundles, built>> /\ Keep

Found(c) == [status  |-> IF cmd[c].archive # NoArchive THEN "compatible"
                         ELSE IF cmd[c].version # 0 THEN "plan" ELSE "none",
             version |-> cmd[c].version, archive |-> cmd[c].archive, place |-> cmd[c].place]
Conclude(c, s) == /\ session' = IF Live THEN s ELSE session
                  /\ Over(c) /\ UNCHANGED <<box, inputFiles>> /\ Keep
Renewed(r) == [session EXCEPT !.res = r, !.packages = 0, !.bundle = "none", !.valid = FALSE,
                              !.inst = NoInst]

ResolveEnd(c) == CmdAt(c, "resolve", "record") /\ Conclude(c, Renewed(Found(c)))

-----------------------------------------------------------------------------
\* prepare_nvidia_userspace and prepare_nvidia_installer_bundle.
Prepared == session.packages # 0 /\ session.res.version = Reviewed

Userspace(c) ==
  /\ Free(c) /\ session.res.status = "compatible" /\ ~Prepared
  /\ BeginCommand(c, [NoCommand EXCEPT !.op = "userspace", !.at = "bundle",
                                       !.version = session.res.version, !.bundle = session.bundle])
Bundle(c) ==
  /\ Free(c) /\ session.res.status = "compatible" /\ Prepared
  /\ BeginCommand(c, [NoCommand EXCEPT !.op = "bundle", !.at = "bundle",
                                       !.version = session.res.version,
                                       !.packages = session.packages, !.bundle = session.bundle])

Prepares(c) == cmd[c].op \in {"userspace", "bundle"}

BundleVerified(k)   == bundles[k] = "whole"
PackagesVerified(d) == packages[d] = "whole"

\* validate_staged_nvidia_installer_bundle, of the bundle the session had.
BundleKept(c) ==
  /\ Prepares(c) /\ cmd[c].at = "bundle" /\ cmd[c].bundle # "none"
  /\ IF BundleVerified(cmd[c].bundle) THEN Only(c, "bundled") ELSE Refused(c)

\* (mutant) the guard of the directory is there before it is.
AcquireBundleGuarded(c) ==
  /\ Prepares(c) /\ cmd[c].at = "bundle" /\ cmd[c].bundle = "none" /\ Live
  /\ \E k \in BundleKind :
       IF bundles[k] # "none" THEN Over(c) /\ bundles' = [bundles EXCEPT ![k] = "none"]
       ELSE /\ bundles' = [bundles EXCEPT ![k] = "partial"]
            /\ cmd' = [cmd EXCEPT ![c].at = "fill", ![c].bundle = k]
  /\ UNCHANGED <<session, box, pub, named, packages, built>> /\ Keep

\* prepare_pinned_nvidia_installer_bundle: Core's bundle, or the older one
\* when there is no answer for it; a directory that exists is refused.
AcquireBundle(c) ==
  /\ Prepares(c) /\ cmd[c].at = "bundle" /\ cmd[c].bundle = "none" /\ Live
  /\ \E k \in BundleKind :
       IF bundles[k] # "none" THEN Over(c) /\ UNCHANGED bundles
       ELSE /\ bundles' = [bundles EXCEPT ![k] = "partial"]
            /\ cmd' = [cmd EXCEPT ![c].at = "fill", ![c].bundle = k]
  /\ UNCHANGED <<session, box, pub, named, packages, built>> /\ Keep

\* Its files, each with its pinned digest; StagingDirectoryGuard.
Fill(c) ==
  /\ Prepares(c) /\ cmd[c].at = "fill"
  /\ UNCHANGED <<session, box, pub, named, packages, built>> /\ Keep
  /\ \/ Live /\ bundles' = [bundles EXCEPT ![cmd[c].bundle] = "whole"] /\ Continue(c, "bundled")
     \/ bundles' = [bundles EXCEPT ![cmd[c].bundle] = "none"] /\ Over(c)

\* The bundle is recorded before the packages are downloaded.
UserspaceBundle(c) ==
  /\ CmdAt(c, "userspace", "bundled")
  /\ IF Live THEN session' = [session EXCEPT !.bundle = cmd[c].bundle] /\ Continue(c, "create")
     ELSE Over(c) /\ UNCHANGED session
  /\ UNCHANGED <<box, inputFiles>> /\ Keep

\* resolve_nvidia_userspace_for_version: only for the version of the lock.
UserspaceCreate(c) ==
  /\ CmdAt(c, "userspace", "create")
  /\ \/ Refused(c)
     \/ /\ Live /\ cmd[c].version = Reviewed
        /\ \E d \in Least({x \in Stamp : packages[x] = "none"}) :
             /\ packages' = [packages EXCEPT ![d] = "partial"]
             /\ cmd' = [cmd EXCEPT ![c].at = "stage", ![c].packages = d]
        /\ UNCHANGED <<session, box, pub, named, bundles, built>> /\ Keep

\* Every package and signature with its locked digest; the guard removes all.
\* The lock is read from the bundle.
UserspaceStage(c) ==
  /\ CmdAt(c, "userspace", "stage")
  /\ UNCHANGED <<session, box, pub, named, bundles, built>> /\ Keep
  /\ \/ /\ Live /\ Continue(c, "record")
        /\ packages' = [packages EXCEPT ![cmd[c].packages] = bundles[cmd[c].bundle]]
     \/ packages' = [packages EXCEPT ![cmd[c].packages] = "none"] /\ Over(c)

UserspaceEnd(c) ==
  /\ CmdAt(c, "userspace", "record")
  /\ Conclude(c, [session EXCEPT !.packages = cmd[c].packages, !.bundle = cmd[c].bundle,
                                 !.valid = FALSE, !.inst = NoInst])

\* stage_reviewed_userspace_closure: every package is there already.
BundleClosure(c) ==
  /\ CmdAt(c, "bundle", "bundled")
  /\ \/ Refused(c)
     \/ BundleVerified(cmd[c].bundle) /\ PackagesVerified(cmd[c].packages) /\ Only(c, "record")

\* The packages of the command's beginning go into the record of now.
BundleEnd(c) ==
  /\ CmdAt(c, "bundle", "record")
  /\ Conclude(c, [session EXCEPT !.bundle = cmd[c].bundle,
                                 !.packages = IF @ = 0 THEN 0 ELSE cmd[c].packages])

-----------------------------------------------------------------------------
\* build_nvidia_target_on_demand.
Build(c) ==
  /\ Free(c) /\ session.state = "handoff" /\ session.res.status = "plan"
  /\ BeginCommand(c, [NoCommand EXCEPT !.op = "build", !.at = "claim",
                                       !.version = session.res.version, !.kernel = "target"])

\* The x86_64 session does one thing at a time.
Claims == [build |-> "building", validate |-> "validating", install |-> "installing"]
Begins == [build |-> "setup", validate |-> "package", install |-> "mutate"]
Claim(c) ==
  /\ cmd[c].at = "claim"
  /\ \/ box.state # "ready" /\ Refused(c)
     \/ /\ box.state = "ready" /\ box' = [box EXCEPT !.state = Claims[cmd[c].op]]
        /\ Continue(c, Begins[cmd[c].op]) /\ UNCHANGED <<session, inputFiles>> /\ Keep

\* build_nvidia_for_target_from_source: no file may be there already.
BuildSetup(c) ==
  /\ CmdAt(c, "build", "setup") /\ UNCHANGED <<session, box, pub, named, packages, bundles>> /\ Keep
  /\ built' = IF built = "absent" THEN "none" ELSE built
  /\ Continue(c, IF built \in {"absent", "none"} THEN "make" ELSE "release")

\* What the guest built, if it is what was asked for.
BuildMake(c) ==
  /\ CmdAt(c, "build", "make") /\ UNCHANGED <<session, box, inputFiles>> /\ Keep
  /\ \/ Continue(c, "release")
     \/ \E a \in DriverArchive : /\ a.edition = 3 /\ Specified(a, c)
                           /\ cmd' = [cmd EXCEPT ![c].at = "copy", ![c].archive = a]

\* copy_new_file, five times, and the five guards.
BuildCopy(c) ==
  /\ CmdAt(c, "build", "copy") /\ UNCHANGED <<session, box, pub, named, packages, bundles>> /\ Keep
  /\ \/ built = "none" /\ built' = "partial" /\ UNCHANGED cmd
     \/ built = "partial" /\ built' = "whole" /\ Continue(c, "release")
     \/ /\ built' = IF built = "absent" THEN built ELSE "none"
        /\ cmd' = [cmd EXCEPT ![c].at = "release", ![c].archive = NoArchive]

BuildRelease(c) ==
  /\ CmdAt(c, "build", "release") /\ box' = [box EXCEPT !.state = "ready"]
  /\ IF cmd[c].archive = NoArchive THEN Over(c) ELSE Continue(c, "check")
  /\ UNCHANGED <<session, inputFiles>> /\ Keep

\* Its build information and the archive are read again; the files stay.
BuildCheck(c) ==
  /\ CmdAt(c, "build", "check")
  /\ \/ Refused(c)
     \/ Inspected(built) /\ Only(c, "record")

BuildEnd(c) ==
  /\ CmdAt(c, "build", "record")
  /\ Conclude(c, IF session.state = "handoff" THEN Renewed(Found(c)) ELSE session)

-----------------------------------------------------------------------------
\* collect_nvidia_install_inputs: everything is there; the bundle and the
\* packages are verified again.
There(p) == IF p = 0 THEN Inspected(built) ELSE \A f \in Part : Inspected(pub[p][f])
Collected == /\ session.res.status = "compatible" /\ Prepared /\ session.bundle # "none"
             /\ BundleVerified(session.bundle) /\ PackagesVerified(session.packages)
             /\ There(session.res.place)
Inputs(c, o) == [NoCommand EXCEPT !.op = o, !.at = "claim", !.version = session.res.version,
                             !.archive = session.res.archive, !.place = session.res.place,
                             !.packages = session.packages, !.bundle = session.bundle]

\* start_nvidia_install_appliance_blocking, the part that hands the image off.
HandOff ==
  /\ session.state = "ready" /\ (session.res.status = "plan" \/ Collected)
  /\ session' = [session EXCEPT !.state = "handoff"]
  /\ UNCHANGED <<box, inputFiles, cmd>> /\ Keep

\* validate_nvidia_install_handoff_blocking.
Validate(c) ==
  Free(c) /\ session.state = "handoff" /\ Collected /\ BeginCommand(c, Inputs(c, "validate"))

Drop(c) == /\ box' = [box EXCEPT !.state = "gone"] /\ Over(c)
           /\ UNCHANGED <<session, inputFiles>> /\ Keep
Send(c, l, g) == /\ box' = [box EXCEPT !.guest = g] /\ Continue(c, l)
                 /\ UNCHANGED <<session, inputFiles>> /\ Keep

\* The bundle is packed; the archive's size is compared.
Package(c) ==
  /\ CmdAt(c, "validate", "package")
  /\ \/ Drop(c)
     \/ Live /\ Send(c, "archive", [NoGuest EXCEPT !.bundle = bundles[cmd[c].bundle]])

\* The archive, what it must be (stage_nvidia_handoff_checksum: a file of its
\* own, which may be there already), and its provenance.
Sound(p) == IF p = 0 THEN built = "whole" ELSE \A f \in Part : pub[p][f] = "whole"
SendArchive(c) ==
  /\ CmdAt(c, "validate", "archive")
  /\ \/ Drop(c)
     \/ /\ Live /\ There(cmd[c].place) /\ box.sum \in {NoArchive, cmd[c].archive}
        /\ box' = [box EXCEPT !.sum = cmd[c].archive, !.guest.archive = cmd[c].archive,
                              !.guest.whole = Sound(cmd[c].place)]
        /\ Continue(c, "packages") /\ UNCHANGED <<session, inputFiles>> /\ Keep

SendPackages(c) ==
  /\ CmdAt(c, "validate", "packages")
  /\ \/ Drop(c)
     \/ Live /\ LET whole == packages[cmd[c].packages] = "whole"
                IN Send(c, "verdict", [box.guest EXCEPT !.whole = @ /\ whole])

\* install_to_root.sh compares what it is given with the checksum, the
\* provenance and the lock; another program in its place may say anything.
GuestAccepts == box.guest.whole \/ box.guest.bundle # "whole"

\* (mutant) the result is not compared with the inputs.
AnyResult(c) == TRUE
\* validate_nvidia_install_result: its digests are those of the inputs.
ResultMatches(c) == box.guest.archive = cmd[c].archive

ValidateWork(c) ==
  /\ CmdAt(c, "validate", "verdict")
  /\ \/ Drop(c)
     \/ GuestAccepts /\ ResultMatches(c) /\ box' = [box EXCEPT !.state = "ready"]
        /\ Continue(c, "record") /\ UNCHANGED <<session, inputFiles>> /\ Keep

ValidateEnd(c) ==
  /\ CmdAt(c, "validate", "record")
  /\ Conclude(c, [session EXCEPT !.state = "handoff-validated", !.valid = TRUE])

\* install_nvidia_to_working_image_blocking: the inputs are collected again,
\* and the guest uses those it received.
Install(c) ==
  /\ Free(c) /\ session.state = "handoff-validated" /\ session.valid /\ Collected
  /\ BeginCommand(c, Inputs(c, "install"))

InstallWork(c) ==
  /\ CmdAt(c, "install", "mutate") /\ box' = [box EXCEPT !.state = "gone"]
  /\ \/ Over(c)
     \/ GuestAccepts /\ ResultMatches(c) /\ Continue(c, "record")
  /\ UNCHANGED <<session, inputFiles>> /\ Keep

InstallEnd(c) ==
  /\ CmdAt(c, "install", "record")
  /\ Conclude(c, [session EXCEPT !.state = "nvidia-installed",
                  !.inst = [said |-> cmd[c].archive, used |-> box.guest.archive,
                            whole |-> box.guest.whole, bundle |-> box.guest.bundle]])

-----------------------------------------------------------------------------
\* Before the installation another program changes a file that somebody goes
\* by; of the files of an archive one stands for the others.
FileChanged ==
  /\ Live /\ session.state # "nvidia-installed" /\ Within
  /\ changes < MaxChanges /\ changes' = changes + 1 /\ UNCHANGED <<session, box, named, cmd, calls>>
  /\ \/ \E d \in Stamp : /\ session.res.place = d \/ \E c \in Call : cmd[c].place = d
                         /\ pub[d]["archive"] = "whole"
                         /\ pub' = [pub EXCEPT ![d]["archive"] = "changed"]
                         /\ UNCHANGED <<packages, bundles, built>>
     \/ \E d \in Stamp : /\ session.packages = d \/ \E c \in Call : cmd[c].packages = d
                         /\ packages[d] = "whole" /\ packages' = [packages EXCEPT ![d] = "changed"]
                         /\ UNCHANGED <<pub, bundles, built>>
     \/ \E k \in BundleKind :
                         /\ session.bundle = k \/ \E c \in Call : cmd[c].bundle = k
                         /\ bundles[k] = "whole" /\ bundles' = [bundles EXCEPT ![k] = "changed"]
                         /\ UNCHANGED <<pub, packages, built>>
     \/ built = "whole" /\ built' = "changed" /\ UNCHANGED <<pub, packages, bundles>>

\* The session ends, and its directory with it; commands may still run.
SessionEnds ==
  /\ Live /\ session' = NoSession /\ named' = {}
  /\ pub' = [d \in Stamp |-> [p \in Part |-> "none"]] /\ packages' = [d \in Stamp |-> "none"]
  /\ bundles' = [k \in BundleKind |-> "none"] /\ built' = "absent" /\ UNCHANGED <<box, cmd>> /\ Keep

CommandStep(c) ==
  \/ Resolve(c) \/ ResolveCreate(c) \/ Downloaded(c) \/ ResolveCheck(c)
  \/ ResolveFail(c) \/ ResolveEnd(c)
  \/ Userspace(c) \/ Bundle(c) \/ BundleKept(c) \/ AcquireBundle(c) \/ Fill(c)
  \/ UserspaceBundle(c) \/ UserspaceCreate(c) \/ UserspaceStage(c) \/ UserspaceEnd(c)
  \/ BundleClosure(c) \/ BundleEnd(c)
  \/ Build(c) \/ Claim(c) \/ BuildSetup(c) \/ BuildMake(c) \/ BuildCopy(c) \/ BuildRelease(c)
  \/ BuildCheck(c) \/ BuildEnd(c)
  \/ Validate(c) \/ Package(c) \/ SendArchive(c) \/ SendPackages(c) \/ ValidateWork(c)
  \/ ValidateEnd(c) \/ Install(c) \/ InstallWork(c) \/ InstallEnd(c)

InputsNext == (\E c \in Call : CommandStep(c)) \/ HandOff \/ FileChanged \/ SessionEnds

InputsSpec == InputsInit /\ [][InputsNext]_inputVars

-----------------------------------------------------------------------------
\* What is recorded as installed is what the guest used, made for the target's
\* kernel and the reviewed version, from files as they were verified: whatever
\* other commands recorded meanwhile, and whoever changed a file, unless it
\* was the installer bundle between its last verification and its packing
\* (validate_nvidia_install_result; collect_nvidia_install_inputs).
InstalledExact ==
  session.inst # NoInst /\ session.inst.bundle = "whole" =>
    /\ session.inst.used = session.inst.said /\ session.inst.whole
    /\ session.inst.said.kernel = "target" /\ session.inst.said.version = Reviewed

\* What the session records is there: no command removes what another one has
\* verified, with a guard of its own for a name that both of them chose.
RecordedThere ==
  Live => /\ session.res.status = "compatible" => There(session.res.place)
          /\ session.packages # 0 => packages[session.packages] \in {"whole", "changed"}
          /\ session.bundle # "none" => bundles[session.bundle] \in {"whole", "changed"}

\* A command that is over leaves no file, but those of a success and those it
\* built (PartialOutputGuard, StagingDirectoryGuard).
Ours(d) == {c \in Call : cmd[c].op = "resolve" /\ cmd[c].place = d}
NothingLeft ==
  /\ \A d \in Stamp : Ours(d) = {} => There(d) \/ \A p \in Part : pub[d][p] = "none"
  /\ \A d \in Stamp : packages[d] = "partial" =>
       \E c \in Call : CmdAt(c, "userspace", "stage") /\ cmd[c].packages = d
  /\ \A k \in BundleKind : bundles[k] = "partial" =>
       \E c \in Call : cmd[c].at = "fill" /\ cmd[c].bundle = k
  /\ built = "partial" => \E c \in Call : CmdAt(c, "build", "copy")

InputsExact == InstalledExact /\ RecordedThere /\ NothingLeft
=============================================================================
