-------------------------- MODULE GenerationHandoff --------------------------
(***************************************************************************)
(* The handoff of the pending generation to an appliance, of               *)
(* src-tauri/src/core_generation_cache/appliance_staging.rs.  A call       *)
(* stages an exact copy in the destination directory and publishes it      *)
(* under a name made of the operation and the generation; a lease          *)
(* directory beside it records, one file at a time, how far the call got.  *)
(* The next call reconciles what a dead one left; "retire" removes a       *)
(* handoff and its lease.                                                  *)
(*                                                                         *)
(* Calls exclude each other by the destination lock, so one runs at a      *)
(* time; a staging call holds the cache lock too, so the pending operation *)
(* changes only between staging calls, but also while a handoff retires.   *)
(* Any step may fail (an I/O error, a full disk, the caller's cancel), the *)
(* process may be killed, the power may fail, and another program may      *)
(* change the destination.  "fs" is what the file system shows, "disk"     *)
(* what survives a power failure.  The last check of a file before it is   *)
(* unlinked and the unlink are one step.                                   *)
(***************************************************************************)
EXTENDS Naturals, FiniteSets

CONSTANTS Jobs,        \* operations, each [op, gen]
          MaxLeases,   \* leases at a time (MAX_LEASE_DIRECTORIES)
          MaxChanges,  \* bound on changes of the pending operation
          MaxFaults,   \* bound on errors, kills and power failures
          MaxTampers   \* bound on changes by another program

ASSUME LeaseAssumption == MaxLeases \in Nat \ {0}

Lease   == 1..MaxLeases
File    == {"payload", "record"}
Record  == {"intent", "stage", "files", "published", "retiring"}

VARIABLES
  pending,   \* the pending operation of the cache state
  fs, disk,  \* [Lease -> [ldir, rec, place, sealed, file]]
  job,       \* [Lease -> the operation its intent names]
  forged,    \* the leases whose records another program wrote anew
  handles,   \* the leases that a live StagedApplianceGeneration holds
  pc, routine, cur,
  todo,      \* the leases still to reconcile
  found,     \* the lease that was recovered, or 0
  task,      \* the operation of the running call
  what,      \* the record that is being created
  receipt,   \* completed_receipt
  pin,       \* the files that the running removal has pinned
  why,       \* why the last call was refused
  cut,       \* (history) leases whose removal was interrupted
  changes, faults, tampers

call   == <<pc, routine, cur, todo, found, task, what, receipt, pin, why>>
bounds == <<changes, faults, tampers>>
handoffVars == <<pending, fs, disk, job, forged, handles, call, cut, bounds>>

-----------------------------------------------------------------------------
NoRecord == [r \in Record |-> "none"]
NoFile   == [f \in File |-> "none"]
Gone == [ldir |-> FALSE, rec |-> NoRecord, place |-> "none", sealed |-> FALSE, file |-> NoFile]

Has(t, r)   == fs[t].rec[r] = "final"
Partial(t)  == {r \in Record \ {"intent"} : fs[t].rec[r] = "tmp"}
Entries(t)  == {r \in Record : fs[t].rec[r] # "none"}
Staged(t)   == fs[t].place = "stage"
\* The directories that stand under the published name of lease t.
Named(t)    == {u \in Lease : fs[u].place = "published" /\ job[u] = job[t]}
Empty(t)    == fs[t].file = NoFile
\* verify_exact_file of every expected file, against what the call knows.
Exact(t)    == \A f \in File : fs[t].file[f] = "own"
\* The same against the records of the lease, as they are on the disk.
Origin(t)    == IF t \in forged THEN "forged" ELSE "own"
Receipted(t) == \A f \in File : fs[t].file[f] = Origin(t)

HandoffInit ==
  /\ pending \in Jobs
  /\ fs = [t \in Lease |-> Gone] /\ disk = fs
  /\ job = [t \in Lease |-> pending] /\ forged = {} /\ handles = {}
  /\ pc = "idle" /\ routine = "none" /\ cur = 1 /\ todo = {} /\ found = 0
  /\ task = pending /\ what = "intent" /\ receipt = FALSE /\ pin = "own" /\ why = "none"
  /\ cut = {} /\ changes = 0 /\ faults = 0 /\ tampers = 0

Goto(l) == pc' = l
\* The call returns.  What it knew is forgotten.
Return(w) == /\ pc' = "idle" /\ routine' = "none" /\ todo' = {} /\ found' = 0
             /\ what' = "intent" /\ receipt' = FALSE /\ pin' = "own" /\ why' = w
             /\ cur' = 1 /\ UNCHANGED task

world == <<pending, forged, bounds>>

-----------------------------------------------------------------------------
\* Durability.  A directory's entries survive once it is synced; the bytes of
\* a file are synced before the file is renamed or recorded.
SyncLease(t) == disk' = [disk EXCEPT ![t].rec = fs[t].rec]
\* (mutant) the stage is never synced.
StageUnsynced(t) == UNCHANGED disk
SyncStage(t) == disk' = [disk EXCEPT ![t].file = fs'[t].file, ![t].sealed = fs'[t].sealed]
SyncDestination ==
  disk' = [t \in Lease |->
             [disk[t] EXCEPT !.ldir = fs[t].ldir, !.place = fs[t].place,
                             !.rec = IF fs[t].ldir THEN @ ELSE NoRecord,
                             !.sealed = @ /\ fs[t].place # "none",
                             !.file = IF fs[t].place = "none" THEN NoFile ELSE @]]

-----------------------------------------------------------------------------
\* stage_pending_generation_for_appliance up to the reconciliation: both
\* locks, and the pending operation.
Stage ==
  /\ pc = "idle"
  /\ task' = pending
  /\ todo' = {t \in Lease : fs[t].ldir}
  /\ routine' = "reconcile" /\ Goto("reconcile") /\ why' = "none"
  /\ UNCHANGED <<world, fs, disk, job, handles, cur, found, what, receipt, pin, cut>>

\* reconcile_handoff_leases: the next lease, in the order of the directory.
\* Without an intent it is removed if it holds nothing but its temporary.
Examine ==
  /\ pc = "reconcile" /\ todo # {}
  /\ \E t \in todo :
       /\ todo' = todo \ {t} /\ cur' = t
       /\ IF Has(t, "intent") THEN Goto("partial") /\ UNCHANGED <<routine, found, what, receipt, pin, why>>
          ELSE IF Entries(t) \in {{}, {"intent"}}
          THEN Goto("rmlease") /\ UNCHANGED <<routine, found, what, receipt, pin, why>>
          ELSE /\ Goto("refuse") /\ why' = "ambiguous"
               /\ UNCHANGED <<routine, found, what, receipt, pin>>
  /\ UNCHANGED <<world, fs, disk, job, handles, task, cut>>

\* reconcile_partial_lease_records: an unfinished record is removed.
Finish ==
  /\ pc = "partial"
  /\ IF Partial(cur) = {} THEN Goto("decide") /\ UNCHANGED <<fs, disk>>
     ELSE \E r \in Partial(cur) :
            /\ fs' = [fs EXCEPT ![cur].rec[r] = "none"]
            /\ disk' = [disk EXCEPT ![cur].rec = [fs[cur].rec EXCEPT ![r] = "none"]]
            /\ UNCHANGED pc
  /\ UNCHANGED <<world, job, handles, routine, cur, todo, found, task, what, receipt, pin, why, cut>>

\* (mutant) the lease's own records are believed.
SelfConsistent(t) == job[t].gen = task.gen

\* is_authenticated_generation: the lease is one of the generation that was
\* just authenticated, whatever its operation.
Authentic(t) == job[t].gen = task.gen /\ t \notin forged

Coherent(t) == /\ Has(t, "retiring") => Has(t, "published")
               /\ Has(t, "files") => Has(t, "stage")

\* The branches of the reconciliation, by what stands in the destination.
DropsStage(t) ==
  /\ Coherent(t) /\ Authentic(t)
  /\ Staged(t) /\ Named(t) = {} /\ ~ Has(t, "published")
  /\ IF Has(t, "files") THEN Receipted(t) ELSE Empty(t)
Published(t) ==
  /\ Coherent(t) /\ Authentic(t)
  /\ ~ Staged(t) /\ Named(t) = {t} /\ fs[t].sealed
  /\ Has(t, "stage") /\ Has(t, "files")
Superseded(t) == Published(t) /\ Has(t, "published") /\ Receipted(t)
                 /\ (Has(t, "retiring") \/ job[t] # task)
Recovered(t)  == Published(t) /\ Has(t, "published") /\ Exact(t)
                 /\ ~ Has(t, "retiring") /\ job[t] = task /\ found = 0
DropsLease(t) ==
  /\ Coherent(t) /\ Authentic(t)
  /\ ~ Staged(t) /\ Named(t) = {}
  /\ Has(t, "published") <=> Has(t, "retiring")

Decide ==
  /\ pc = "decide"
  /\ \/ /\ DropsStage(cur) \/ Superseded(cur)
        /\ Goto("rmfiles") /\ fs' = [fs EXCEPT ![cur].sealed = FALSE]
        /\ pin' = Origin(cur) /\ UNCHANGED <<disk, what, found, why>>
     \/ /\ Published(cur) /\ ~ Has(cur, "published")
        /\ what' = "published" /\ Goto("tmp") /\ UNCHANGED <<pin, fs, disk, found, why>>
     \/ /\ Recovered(cur)
        /\ SyncDestination /\ found' = cur /\ Goto("reconcile") /\ UNCHANGED <<pin, fs, what, why>>
     \/ /\ DropsLease(cur)
        /\ Goto("rmlease") /\ UNCHANGED <<pin, fs, disk, what, found, why>>
     \/ /\ ~ (DropsStage(cur) \/ Superseded(cur) \/ Recovered(cur) \/ DropsLease(cur)
              \/ (Published(cur) /\ ~ Has(cur, "published")))
        /\ why' = IF ~ Authentic(cur) \/ (Staged(cur) /\ ~ Has(cur, "files"))
                  THEN "recovery-required" ELSE "inconsistent"
        /\ Goto("refuse") /\ UNCHANGED <<pin, fs, disk, what, found>>
  /\ UNCHANGED <<world, job, handles, routine, cur, todo, task, receipt, cut>>

Refuse ==
  /\ pc = "refuse" /\ Return(why)
  /\ UNCHANGED <<world, fs, disk, job, handles, cut>>

-----------------------------------------------------------------------------
\* remove_confined_directory_at_with_receipts: the files, in any order, then
\* the directory.  A file that is not the receipted one ends the removal.
RemoveFile ==
  /\ pc = "rmfiles"
  /\ \E f \in File : /\ fs[cur].file[f] = pin
                     /\ fs' = [fs EXCEPT ![cur].file[f] = "none"]
  /\ UNCHANGED <<world, disk, job, handles, call, cut>>

RemoveHandoff ==
  /\ pc = "rmfiles" /\ Empty(cur)
  /\ fs' = [fs EXCEPT ![cur].place = "none", ![cur].sealed = FALSE]
  /\ SyncStage(cur) /\ Goto("rmlease.sync")
  /\ UNCHANGED <<world, job, handles, routine, cur, todo, found, task, what, receipt, pin, why, cut>>

SyncRemoval ==
  /\ pc = "rmlease.sync" /\ SyncDestination
  /\ IF routine = "retire" /\ ~ \A r \in Record : Has(cur, r)
     THEN Goto("stop") ELSE Goto("rmlease")
  /\ UNCHANGED <<world, fs, job, handles, routine, cur, todo, found, task, what, receipt, pin, why,
                 cut>>

Stop ==
  /\ \/ pc = "stop"
     \/ pc = "rmfiles" /\ ~ {fs[cur].file[f] : f \in File} \subseteq {"none", pin}
  /\ Return("failed")
  /\ cut' = cut \union {cur}
  /\ UNCHANGED <<world, fs, disk, job, handles>>

RemoveRecord ==
  /\ pc = "rmlease"
  /\ \E r \in Entries(cur) : fs' = [fs EXCEPT ![cur].rec[r] = "none"]
  /\ UNCHANGED <<world, disk, job, handles, call, cut>>

RemoveLease ==
  /\ pc = "rmlease" /\ Entries(cur) = {}
  /\ fs' = [fs EXCEPT ![cur].ldir = FALSE]
  /\ SyncLease(cur) /\ Goto("removed")
  /\ UNCHANGED <<world, job, handles, routine, cur, todo, found, task, what, receipt, pin, why, cut>>

\* The parent is synced; then the next lease, or the end of the call.
Removed ==
  /\ pc = "removed" /\ SyncDestination
  /\ forged' = forged \ {cur} /\ cut' = IF fs[cur].place = "none" THEN cut \ {cur} ELSE cut
  /\ IF routine = "reconcile"
     THEN /\ Goto("reconcile") /\ UNCHANGED <<routine, cur, todo, found, task, what, receipt, pin, why>>
          /\ UNCHANGED handles
     ELSE /\ Return(IF routine = "retire" THEN "retired" ELSE "failed")
          /\ handles' = IF routine = "retire" THEN handles \ {cur} ELSE handles
  /\ UNCHANGED <<pending, bounds, fs, job>>

-----------------------------------------------------------------------------
\* The end of the reconciliation: a recovered handoff is returned; a published
\* name without a lease is refused; else a new lease is made.
Answer ==
  /\ pc = "reconcile" /\ todo = {} /\ found # 0
  /\ handles' = handles \union {found} /\ Return("ok")
  /\ UNCHANGED <<world, fs, disk, job, cut>>

MakeLease ==
  /\ pc = "reconcile" /\ todo = {} /\ found = 0
  /\ IF \E u \in Lease : fs[u].place = "published" /\ job[u] = task
     THEN /\ Goto("refuse") /\ why' = "unleased"
          /\ UNCHANGED <<routine, cur, todo, found, task, what, receipt, pin, fs, job>>
     ELSE LET free == {t \in Lease : fs[t] = Gone /\ disk[t] = Gone /\ t \notin handles}
              t == CHOOSE u \in free : TRUE
          IN IF free = {}
             THEN Return("failed") /\ UNCHANGED <<fs, job>>
             ELSE /\ cur' = t /\ job' = [job EXCEPT ![t] = task]
                  /\ fs' = [fs EXCEPT ![t].ldir = TRUE]
                  /\ routine' = "stage" /\ Goto("lease.sync")
                  /\ UNCHANGED <<todo, found, task, what, receipt, pin, why>>
  /\ UNCHANGED <<world, disk, handles, cut>>

\* The parent directory is synced after every directory that is made.
SyncMade ==
  /\ pc \in {"lease.sync", "intent.sync", "stage.sync"} /\ SyncDestination
  /\ IF pc = "intent.sync" THEN Goto("mkstage") /\ UNCHANGED what
     ELSE /\ what' = IF pc = "lease.sync" THEN "intent" ELSE "stage"
          /\ Goto("tmp")
  /\ UNCHANGED <<world, fs, job, handles, routine, cur, todo, found, task, receipt, pin, why, cut>>

\* create_atomic_lease_record, create_lease_intent_file: the temporary,
\* written, sealed and synced; the rename; the directory.
CreateRecord ==
  /\ pc = "tmp" /\ fs[cur].rec[what] = "none"
  /\ fs' = [fs EXCEPT ![cur].rec[what] = "tmp"] /\ Goto("rename")
  /\ UNCHANGED <<world, disk, job, handles, routine, cur, todo, found, task, what, receipt, pin, why,
                 cut>>

RenameRecord ==
  /\ pc = "rename"
  /\ fs' = [fs EXCEPT ![cur].rec[what] = "final"] /\ Goto("record.sync")
  /\ UNCHANGED <<world, disk, job, handles, routine, cur, todo, found, task, what, receipt, pin, why,
                 cut>>

SyncRecord ==
  /\ pc = "record.sync" /\ SyncLease(cur)
  /\ receipt' = (receipt \/ what = "files")
  /\ Goto(CASE what = "intent" -> "intent.sync"
            [] what = "stage" -> "copy"
            [] what = "files" -> "verify"
            [] what = "published" -> IF routine = "stage" THEN "complete" ELSE "decide"
            [] what = "retiring" -> "retiring.sync")
  /\ UNCHANGED <<world, fs, job, handles, routine, cur, todo, found, task, what, pin, why, cut>>

MakeStage ==
  /\ pc = "mkstage"
  /\ fs' = [fs EXCEPT ![cur].place = "stage"] /\ Goto("stage.sync")
  /\ UNCHANGED <<world, disk, job, handles, routine, cur, todo, found, task, what, receipt, pin, why,
                 cut>>

\* copy_inventory_file and create_exact_file, then the sync of the stage.
Copy ==
  /\ pc = "copy" /\ ~ Exact(cur)
  /\ \E f \in File : /\ fs[cur].file[f] = "none"
                     /\ fs' = [fs EXCEPT ![cur].file[f] = "own"]
  /\ UNCHANGED <<world, disk, job, handles, call, cut>>

\* (mutant) the stage is published without being synced.
CopiedUnsynced ==
  /\ pc = "copy" /\ Exact(cur)
  /\ what' = "files" /\ Goto("tmp")
  /\ UNCHANGED <<world, fs, disk, job, handles, routine, cur, todo, found, task, receipt, pin, why,
                 cut>>

Copied ==
  /\ pc = "copy" /\ Exact(cur)
  /\ UNCHANGED fs /\ SyncStage(cur) /\ what' = "files" /\ Goto("tmp")
  /\ UNCHANGED <<world, job, handles, routine, cur, todo, found, task, receipt, pin, why, cut>>

StagingLease(t) == /\ Entries(t) = {"intent", "stage", "files"} /\ Partial(t) = {}
                   /\ t \notin forged
PublishedLease(t) == /\ Entries(t) = Record \ {"retiring"} /\ Partial(t) = {} /\ t \notin forged

\* Both rounds of checks before the publication, and the seal.
Seal ==
  /\ pc = "verify" /\ Exact(cur) /\ StagingLease(cur)
  /\ fs' = [fs EXCEPT ![cur].sealed = TRUE]
  /\ SyncStage(cur) /\ Goto("publish")
  /\ UNCHANGED <<world, job, handles, routine, cur, todo, found, task, what, receipt, pin, why, cut>>

\* rename_directory_at: never over an entry that is there.
Publish ==
  /\ pc = "publish" /\ StagingLease(cur) /\ Named(cur) = {}
  /\ fs' = [fs EXCEPT ![cur].place = "published"] /\ Goto("published.sync")
  /\ UNCHANGED <<world, disk, job, handles, routine, cur, todo, found, task, what, receipt, pin, why,
                 cut>>

SyncPublished ==
  /\ pc = "published.sync" /\ SyncDestination /\ Exact(cur)
  /\ what' = "published" /\ Goto("tmp")
  /\ UNCHANGED <<world, fs, job, handles, routine, cur, todo, found, task, receipt, pin, why, cut>>

Complete ==
  /\ pc = "complete" /\ SyncDestination /\ PublishedLease(cur)
  /\ handles' = handles \union {cur} /\ Return("ok")
  /\ UNCHANGED <<world, fs, job, cut>>

-----------------------------------------------------------------------------
\* cleanup_inflight_lease and cleanup_lease_directory: the directory goes if
\* it is empty, or what its receipt says; then the lease.
Cleanup ==
  /\ pc = "cleanup"
  /\ \/ /\ fs[cur].place = "none"
        /\ Goto("rmlease") /\ UNCHANGED <<routine, cur, todo, found, task, what, receipt, pin, why, fs>>
     \/ /\ fs[cur].place # "none" /\ (IF receipt THEN Exact(cur) ELSE Empty(cur))
        /\ Goto("rmfiles") /\ fs' = [fs EXCEPT ![cur].sealed = FALSE]
        /\ UNCHANGED <<routine, cur, todo, found, task, what, receipt, pin, why>>
     \/ /\ fs[cur].place # "none" /\ ~ (IF receipt THEN Exact(cur) ELSE Empty(cur))
        /\ Return("failed") /\ UNCHANGED fs
  /\ UNCHANGED <<world, disk, job, handles, cut>>

Removing == {"rmfiles", "rmlease.sync", "rmlease", "removed"}

\* What the checks of a staging call find wrong: it fails and cleans up.
Mismatch ==
  /\ routine = "stage"
  /\ \/ pc = "copy" /\ ~ {fs[cur].file[f] : f \in File} \subseteq {"none", "own"}
     \/ pc = "verify" /\ ~ (Exact(cur) /\ StagingLease(cur))
     \/ pc = "publish" /\ ~ (StagingLease(cur) /\ Named(cur) = {})
     \/ pc = "published.sync" /\ ~ Exact(cur)
     \/ pc = "complete" /\ ~ PublishedLease(cur)
  /\ Goto("cleanup")
  /\ UNCHANGED <<world, fs, disk, job, handles, routine, cur, todo, found, task, what, receipt, pin,
                 why, cut>>

\* StagedApplianceGeneration::retire.
Retire ==
  /\ pc = "idle"
  /\ \E t \in handles :
       /\ fs[t].ldir /\ cur' = t
       /\ routine' = "retire" /\ Goto("retire") /\ why' = "none"
  /\ UNCHANGED <<world, fs, disk, job, handles, todo, found, task, what, receipt, pin, cut>>

MarkRetiring ==
  /\ pc = "retire"
  /\ IF Partial(cur) # {}
     THEN /\ \E r \in Partial(cur) :
               /\ fs' = [fs EXCEPT ![cur].rec[r] = "none"]
               /\ disk' = [disk EXCEPT ![cur].rec = [fs[cur].rec EXCEPT ![r] = "none"]]
          /\ UNCHANGED <<routine, cur, todo, found, task, what, receipt, pin, why, pc>>
     ELSE /\ UNCHANGED <<fs, disk>>
          /\ IF PublishedLease(cur)
             THEN what' = "retiring" /\ Goto("tmp") /\ UNCHANGED <<routine, cur, todo, found, task, receipt, pin, why>>
             ELSE IF Entries(cur) = Record /\ cur \notin forged
             THEN Goto("retired") /\ UNCHANGED <<routine, cur, todo, found, task, what, receipt, pin, why>>
             ELSE Return("failed")
  /\ UNCHANGED <<world, job, handles, cut>>

SyncRetiring ==
  /\ pc = "retiring.sync" /\ SyncDestination /\ Goto("retired")
  /\ UNCHANGED <<world, fs, job, handles, routine, cur, todo, found, task, what, receipt, pin, why,
                 cut>>

RemoveRetired ==
  /\ pc = "retired"
  /\ \/ /\ fs[cur].place = "none"
        /\ Goto(IF \A r \in Record : Has(cur, r) THEN "rmlease" ELSE "stop")
        /\ UNCHANGED <<routine, cur, todo, found, task, what, receipt, pin, why, fs>>
     \/ /\ fs[cur].place = "published" /\ Exact(cur)
        /\ Goto("rmfiles") /\ fs' = [fs EXCEPT ![cur].sealed = FALSE]
        /\ UNCHANGED <<routine, cur, todo, found, task, what, receipt, pin, why>>
     \/ /\ fs[cur].place # "none" /\ ~ Exact(cur)
        /\ Return("failed") /\ UNCHANGED fs
  /\ UNCHANGED <<world, disk, job, handles, cut>>

-----------------------------------------------------------------------------
\* A step fails.  A staging call cleans up, every other call just returns.
Fail ==
  /\ pc # "idle" /\ faults < MaxFaults /\ faults' = faults + 1
  /\ IF routine = "stage" /\ pc \notin Removing \union {"cleanup", "stop"}
     THEN /\ Goto("cleanup")
          /\ UNCHANGED <<routine, cur, todo, found, task, what, receipt, pin, why, cut>>
     ELSE /\ Return("failed")
          /\ cut' = IF pc \in Removing THEN cut \union {cur} ELSE cut
  /\ UNCHANGED <<pending, forged, changes, tampers, fs, disk, job, handles>>

\* Every process dies; with the power, so do the changes that were not synced,
\* all or some of them.
Differs(t, x) == IF x \in Record THEN fs[t].rec[x] # disk[t].rec[x]
                 ELSE IF x \in File THEN fs[t].file[x] # disk[t].file[x]
                 ELSE fs[t][x] # disk[t][x]
Unsynced == {e \in Lease \X ({"ldir", "place", "sealed"} \union Record \union File) :
               Differs(e[1], e[2])}
After(kept) ==
  [t \in Lease |->
     LET Kept(x) == <<t, x>> \in kept
         ldir  == IF Kept("ldir") THEN fs[t].ldir ELSE disk[t].ldir
         place == IF Kept("place") THEN fs[t].place ELSE disk[t].place
     IN [ldir |-> ldir, place |-> place,
         sealed |-> place # "none" /\ (IF Kept("sealed") THEN fs[t].sealed ELSE disk[t].sealed),
         rec |-> [r \in Record |-> IF ~ ldir THEN "none"
                                   ELSE IF Kept(r) THEN fs[t].rec[r] ELSE disk[t].rec[r]],
         file |-> [f \in File |-> IF place = "none" THEN "none"
                                  ELSE IF Kept(f) THEN fs[t].file[f] ELSE disk[t].file[f]]]]

Crash ==
  /\ faults < MaxFaults /\ faults' = faults + 1
  /\ \/ UNCHANGED <<fs, disk>>
     \/ \E kept \in SUBSET Unsynced : fs' = After(kept) /\ disk' = After(kept)
  /\ cut' = IF pc \in Removing THEN cut \union {cur} ELSE cut
  /\ handles' = {} /\ Return("none")
  /\ UNCHANGED <<pending, forged, changes, tampers, job>>

\* begin, acknowledge or reject under the cache lock.
Change ==
  /\ routine \in {"none", "retire"} /\ changes < MaxChanges /\ changes' = changes + 1
  /\ pending' \in Jobs \ {pending}
  /\ UNCHANGED <<fs, disk, job, forged, handles, call, cut, faults, tampers>>

\* Another program replaces a file of a handoff, or a handoff and all that its
\* lease says of it, each part in agreement with the others.
Tamper ==
  /\ tampers < MaxTampers /\ tampers' = tampers + 1
  /\ \E t \in Lease :
       /\ fs[t].place # "none" /\ disk[t].place # "none"
       /\ \/ /\ \E f \in File :
                  /\ fs' = [fs EXCEPT ![t].file[f] = "foreign"]
                  /\ disk' = [disk EXCEPT ![t].file[f] = "foreign"]
             /\ UNCHANGED forged
          \/ /\ fs[t].ldir /\ Has(t, "files")
             /\ fs' = [fs EXCEPT ![t].file = [f \in File |-> "forged"]]
             /\ disk' = [disk EXCEPT ![t].file = [f \in File |-> "forged"]]
             /\ forged' = forged \union {t}
  /\ UNCHANGED <<pending, job, handles, call, cut, changes, faults>>

HandoffNext ==
  \/ Stage \/ Examine \/ Finish \/ Decide \/ Refuse
  \/ RemoveFile \/ RemoveHandoff \/ SyncRemoval \/ Stop \/ RemoveRecord \/ RemoveLease \/ Removed
  \/ Answer \/ MakeLease \/ SyncMade \/ CreateRecord \/ RenameRecord \/ SyncRecord
  \/ MakeStage \/ Copy \/ Copied \/ Seal \/ Publish \/ SyncPublished \/ Complete
  \/ Cleanup \/ Mismatch \/ Retire \/ MarkRetiring \/ SyncRetiring \/ RemoveRetired
  \/ Fail \/ Crash \/ Change \/ Tamper

HandoffSpec == HandoffInit /\ [][HandoffNext]_handoffVars

-----------------------------------------------------------------------------
\* A sealed handoff under its published name is complete, whenever a call
\* fails, is killed or loses the power, and while a handoff is removed: a
\* guest that finds it finds every file.  (The mode is not synced before the
\* first unlink, so a power failure within a removal may restore it.)
SealedComplete ==
  \A t \in Lease \ cut :
    fs[t].place = "published" /\ fs[t].sealed => \A f \in File : fs[t].file[f] # "none"

\* "Exact durable file receipts preserve ambiguous or replaced entries": what
\* another program put into a handoff, be it a single file or a copy with
\* records that agree with it, is never removed, by cleanup, restart or
\* retirement.
ForeignKept ==
  [][\A t \in Lease, f \in File :
       fs[t].file[f] \in {"foreign", "forged"}
         => fs'[t].file[f] \in {"foreign", "forged"}]_handoffVars

\* What a call returned survives the power: the handoff, its files and the
\* records that a restart needs.  ("published" is not one of them: a handoff
\* that was recovered may lose it again, and it is written anew.)
ReturnedDurable ==
  tampers = 0 => \A t \in handles :
    fs[t].place = "published" /\ ~ Has(t, "retiring") =>
      /\ disk[t].ldir /\ disk[t].place = "published"
      /\ \A f \in File : disk[t].file[f] = "own"
      /\ \A r \in {"intent", "stage", "files"} : disk[t].rec[r] = "final"

\* What a guest, a caller and a restart may rely on.
HandoffWhole == SealedComplete /\ ReturnedDurable

\* A restart recovers from an error, a kill or a power failure at any step.
\* It refuses only an unfinished stage without a receipt and a handoff of
\* another generation, as documented, what an interrupted removal left, and
\* two cases of a power failure after a first restart: it records a
\* publication before it syncs the destination, and it does not sync a record
\* of the publication that it finds.
RestartRecovers ==
  pc = "refuse" /\ tampers = 0 /\ cut = {} =>
    \/ why = "recovery-required" /\ job[cur].gen # task.gen
    \/ why = "recovery-required" /\ Staged(cur) /\ ~ Has(cur, "files") /\ ~ Empty(cur)
    \/ why = "inconsistent" /\ Staged(cur) /\ Has(cur, "published")
    \/ why = "inconsistent" /\ Has(cur, "retiring") /\ ~ Has(cur, "published")

\* "The durable retiring marker lets a later staging call finish restart
\* reconciliation" (the comment on StagedApplianceGeneration::retire).
RetirementFinishes ==
  pc = "refuse" /\ tampers = 0 /\ job[cur].gen = task.gen => ~ Has(cur, "retiring")
=============================================================================
