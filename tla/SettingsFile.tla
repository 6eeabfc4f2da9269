---------------------------- MODULE SettingsFile ----------------------------
(***************************************************************************)
(* settings.json of src-tauri/src/settings.rs.  Processes of the           *)
(* application read it and replace it: the window's preferences, and the   *)
(* worktrees it remembers.  A change is made under a mutex of the process  *)
(* and an exclusive lock of the file .settings.json.lock; the file is      *)
(* read, a temporary one is written, synced and renamed over it, and the   *)
(* directory is synced.  A process that starts copies the settings of an   *)
(* older release first, without the lock.                                  *)
(*                                                                         *)
(* A process may be killed at any step and the machine may lose power.     *)
(* Another program may remove or replace the lock file.                    *)
(*                                                                         *)
(* The contents of the file are the changes it takes into account.         *)
(***************************************************************************)
EXTENDS Naturals, FiniteSets

CONSTANTS Proc,     \* processes of the application
          Change,   \* changes somebody makes
          Lock,     \* lock files that existed
          NoLock,   \* none
          MaxCrashes \* bound on kills, power losses and replaced lock files

ASSUME SettingsBounds == NoLock \notin Lock

VARIABLES
  settings,      \* settings.json: [there, old, has], "old" is of an older schema
  settingsDisk,      \* what a power loss may leave of it
  lockFile,  \* the file under the lock's name
  used,      \* the lock files that existed
  holder,    \* [Lock -> the process that holds it, if any]
  at, job,   \* [Proc -> its step], [Proc -> its operation]
  reported,  \* (history) the changes whose success was reported
  disturbed, \* (history) a process that was not excluded replaced the file
  lied,      \* (history) such a process reported success
  crashes

settingsVars == <<settings, settingsDisk, lockFile, used, holder, at, job, reported, disturbed, lied, crashes>>

NoSettings  == [there |-> FALSE, old |-> FALSE, has |-> {}]
Content(changes) == [there |-> TRUE, old |-> FALSE, has |-> changes]
NoJob == [changes |-> {}, lock |-> NoLock, before |-> NoLock, read |-> {},
          alone |-> TRUE, wild |-> FALSE]

SettingsInit ==
  /\ settings \in {NoSettings, [there |-> TRUE, old |-> TRUE, has |-> {}]} /\ settingsDisk = {settings}
  /\ lockFile = NoLock /\ used = {} /\ holder = [l \in Lock |-> {}]
  /\ at = [p \in Proc |-> "closed"] /\ job = [p \in Proc |-> NoJob]
  /\ reported = {} /\ disturbed = FALSE /\ lied = FALSE /\ crashes = 0

-----------------------------------------------------------------------------
At(p, l)   == at[p] = l
GoOn(p, l) == at' = [at EXCEPT ![p] = l]
Locks   == <<lockFile, used, holder>>
Files   == <<settings, settingsDisk>>
History == <<reported, disturbed, lied>>

Release(p) == holder' = [l \in Lock |-> holder[l] \ {p}]
\* The operation is over; the lock is released with its guard.
End(p) == GoOn(p, "idle") /\ job' = [job EXCEPT ![p] = NoJob] /\ Release(p)
GiveUp(p) == End(p) /\ UNCHANGED <<Files, lockFile, used, History>>

\* settings.json, and whether it is certain to be what a power loss leaves.
Rename(p, c) ==
  /\ settings' = c /\ settingsDisk' = settingsDisk \union {c}
  /\ disturbed' = (disturbed \/ ~job[p].alone)
  /\ job' = [job EXCEPT ![p].wild = @ \/ ~job[p].alone]

-----------------------------------------------------------------------------
\* migrate_legacy_settings, when the application starts; a failure ends it.
Launch(p) ==
  /\ At(p, "closed")
  /\ GoOn(p, IF settings.there THEN "idle" ELSE "migrate")
  /\ UNCHANGED <<Files, Locks, job, History, crashes>>

Migrate(p) ==
  /\ At(p, "migrate")
  /\ \/ GoOn(p, "idle") /\ UNCHANGED <<Files, disturbed>>
     \/ /\ settings' = Content({}) /\ settingsDisk' = settingsDisk \union {settings'}
        /\ disturbed' = (disturbed \/ settings.there)
        /\ GoOn(p, "migrated")
  /\ UNCHANGED <<Locks, job, reported, lied, crashes>>

Migrated(p) ==
  /\ At(p, "migrated") /\ GoOn(p, "idle")
  /\ settingsDisk' = {settings}
  /\ UNCHANGED <<settings, Locks, job, History, crashes>>

-----------------------------------------------------------------------------
\* acquire_settings_file_lock: the lock's name is looked at, opened or created,
\* locked within a timeout, and looked at again.
Begin(p) ==
  /\ At(p, "idle") /\ GoOn(p, "open")
  /\ \E c \in SUBSET Change :
       /\ Cardinality(c) <= 1 /\ \A q \in Proc : c \cap job[q].changes = {}
       /\ c \cap (reported \union settings.has) = {}
       /\ job' = [job EXCEPT ![p] = [NoJob EXCEPT !.changes = c, !.before = lockFile]]
  /\ UNCHANGED <<Files, Locks, History, crashes>>

Open(p) ==
  /\ At(p, "open") /\ UNCHANGED crashes
  /\ \/ GiveUp(p)
     \/ /\ job[p].before \in {NoLock, lockFile}
        /\ lockFile' \in IF lockFile = NoLock THEN Lock \ used ELSE {lockFile}
        /\ used' = used \union {lockFile'}
        /\ job' = [job EXCEPT ![p].lock = lockFile'] /\ GoOn(p, "wait")
        /\ UNCHANGED <<Files, holder, History>>

TryLock(p) ==
  /\ At(p, "wait") /\ UNCHANGED crashes
  /\ \/ GiveUp(p)
     \/ /\ holder[job[p].lock] = {}
        /\ holder' = [holder EXCEPT ![job[p].lock] = {p}] /\ GoOn(p, "verify")
        /\ UNCHANGED <<Files, lockFile, used, job, History>>

\* SettingsFileLock::verify.
Mine(p) == lockFile = job[p].lock

Verify(p) ==
  /\ At(p, "verify") /\ UNCHANGED crashes
  /\ \/ GiveUp(p)
     \/ Mine(p) /\ GoOn(p, "load") /\ UNCHANGED <<Files, Locks, job, History>>

-----------------------------------------------------------------------------
\* load_builder_settings_path_unlocked; an older schema is replaced at once.
Load(p) ==
  /\ At(p, "load") /\ UNCHANGED <<Files, Locks, History, crashes>>
  /\ job' = [job EXCEPT ![p].read = settings.has]
  /\ GoOn(p, IF settings.old THEN "upgrade" ELSE IF job[p].changes = {} THEN "last" ELSE "save")

\* The temporary file is renamed over settings.json, unless the staging failed.
Replace(p, c, next) ==
  \/ GiveUp(p)
  \/ /\ Rename(p, Content(c)) /\ GoOn(p, next)
     /\ UNCHANGED <<Locks, reported, lied>>

Upgrade(p) == At(p, "upgrade") /\ UNCHANGED crashes /\ Replace(p, job[p].read, "upgraded")
Save(p)    == At(p, "save") /\ UNCHANGED crashes
              /\ Replace(p, job[p].read \union job[p].changes, "saved")

Synced(p) ==
  /\ UNCHANGED crashes
  /\ \/ At(p, "upgraded") \/ At(p, "saved")
  /\ \/ GiveUp(p)
     \/ /\ settingsDisk' = {settings}
        /\ GoOn(p, IF At(p, "upgraded") /\ job[p].changes # {} THEN "save" ELSE "last")
        /\ UNCHANGED <<settings, Locks, job, History>>

\* (mutant) the lock is not looked at again.
VerifyLastNot(p) ==
  /\ At(p, "last") /\ End(p) /\ reported' = reported \union job[p].changes
  /\ lied' = (lied \/ job[p].wild)
  /\ UNCHANGED <<Files, lockFile, used, disturbed, crashes>>

\* The lock is verified once more, and the operation reports success.
VerifyLast(p) ==
  /\ At(p, "last") /\ UNCHANGED crashes
  /\ \/ GiveUp(p)
     \/ /\ Mine(p) /\ End(p) /\ reported' = reported \union job[p].changes
        /\ lied' = (lied \/ job[p].wild)
        /\ UNCHANGED <<Files, lockFile, used, disturbed>>

-----------------------------------------------------------------------------
Fault == crashes < MaxCrashes /\ crashes' = crashes + 1

Kill(p) ==
  /\ Fault /\ at[p] # "closed"
  /\ GoOn(p, "closed") /\ job' = [job EXCEPT ![p] = NoJob] /\ Release(p)
  /\ UNCHANGED <<Files, lockFile, used, History>>

PowerFails ==
  /\ Fault /\ settings' \in settingsDisk /\ settingsDisk' = {settings'}
  /\ at' = [p \in Proc |-> "closed"] /\ job' = [p \in Proc |-> NoJob]
  /\ holder' = [l \in Lock |-> {}] /\ lockFile' \in {lockFile, NoLock}
  /\ UNCHANGED <<used, History>>

\* Another program removes the lock file or puts another one in its place:
\* a process that saves under the old one is no longer alone.
ReplaceLock ==
  /\ Fault /\ lockFile # NoLock
  /\ lockFile' \in {NoLock} \union (Lock \ used) /\ used' = used \union ({lockFile'} \ {NoLock})
  /\ job' = [p \in Proc |-> [job[p] EXCEPT !.alone = @ /\ job[p].lock = NoLock]]
  /\ UNCHANGED <<Files, holder, at, History>>

Operation(p) == \/ Launch(p) \/ Migrate(p) \/ Migrated(p)
                \/ Begin(p) \/ Open(p) \/ TryLock(p) \/ Verify(p)
                \/ Load(p) \/ Upgrade(p) \/ Save(p) \/ Synced(p) \/ VerifyLast(p)

SettingsNext == (\E p \in Proc : Operation(p) \/ Kill(p)) \/ PowerFails \/ ReplaceLock

SettingsSpec == SettingsInit /\ [][SettingsNext]_settingsVars

-----------------------------------------------------------------------------
\* A change that was reported is taken into account by settings.json, also
\* after a power loss, unless a process that was not excluded replaced the file;
\* and that one never reports success.
SettingsKept ==
  /\ ~disturbed => \A c \in settingsDisk \union {settings} : reported \subseteq c.has
  /\ ~lied
=============================================================================
