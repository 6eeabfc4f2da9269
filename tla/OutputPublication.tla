-------------------------- MODULE OutputPublication --------------------------
(***************************************************************************)
(* The paired output publication of src-tauri/src/output_transaction.rs:   *)
(* an attempt reserves an output (a durable record), stages the image and  *)
(* its adjacent manifest under private names, renames the image and then   *)
(* the manifest to their final names, and accepts the pair.  Four receipts *)
(* in the private lock directory ("root") chain these phases.              *)
(*                                                                         *)
(* Attempts are serialised by the reservation locks (OutputReservation):   *)
(* at most one is running here.  An attempt may return an error, its       *)
(* process may be killed, and the machine may lose power; another program  *)
(* of the same user may place, remove or rewrite files in the output       *)
(* directory.  Nothing but the application writes the private root.        *)
(*                                                                         *)
(* Durability.  `dir', `inode' and `root' are what system calls observe.   *)
(* `disk', `idisk' and `rdisk' hold every value the same object may have   *)
(* after a power loss; a sync shrinks such a set, a change extends it.     *)
(***************************************************************************)
EXTENDS Naturals

CONSTANTS Inode,       \* identities of files in the output directory
          None,        \* "no such file"
          MaxFaults,   \* bound on error returns and process kills
          MaxLosses,   \* bound on power losses
          MaxTampers   \* bound on changes made by another program

ASSUME NoneAssumption == None \notin Inode
ASSUME BoundAssumption ==
          MaxFaults \in Nat /\ MaxLosses \in Nat /\ MaxTampers \in Nat

VARIABLES
  dir,       \* the output directory: [Kind -> [stage, final]]
  disk,      \* [Kind -> the entries that may be found after a power loss]
  inode,     \* [Inode -> [data, ver]]: bytes, and the times of FileIdentity
  idisk,     \* [Inode -> the contents that may be found after a power loss]
  root,      \* the record (0) and the receipts (1..4) in the private root
  rdisk,     \* [RootName -> the files that may be found after a power loss]
  pc, step,  \* where the running attempt is, and for which record or receipt
  cap,       \* ArtifactCapability: the identity held for each kind
  seen,      \* identities observed by verify_complete_pair
  own,       \* (history) inodes created by the transaction
  witness,   \* (history) both exact files were there during the acceptance
  complete,  \* (history) some attempt returned PublicationRecovery::Complete
  faults, losses, tampers

dirVars  == <<dir, disk>>
fileVars == <<inode, idisk>>
rootVars == <<root, rdisk>>
capVars  == <<cap, seen>>
histVars == <<own, witness, complete>>
budget   == <<faults, losses, tampers>>
vars == <<dirVars, fileVars, rootVars, pc, step, capVars, histVars, budget>>

-----------------------------------------------------------------------------
Kind     == {"image", "manifest"}
Slot     == {"stage", "final"}
RootName == 0..4
Data     == {"partial", "image", "manifest", "foreign"}

\* FileIdentity: device, inode, size, mode and owner are the inode here; the
\* modification and change times are `ver'.
Identity     == [file : Inode, ver : Nat]
NoIdentity   == [file |-> None, ver |-> 0]
FileState    == [data : Data, ver : Nat]
Pair         == [stage : Inode \union {None}, final : Inode \union {None}]
Empty        == [stage |-> None, final |-> None]

\* A record or receipt: absent, created but not completely written, or
\* complete and naming the artifact it certifies (the record names none).
RootFile == [state : {"absent", "torn", "full"},
             id : Identity \union {NoIdentity}]
Absent   == [state |-> "absent", id |-> NoIdentity]
Torn     == [state |-> "torn", id |-> NoIdentity]
Full(id) == [state |-> "full", id |-> id]

\* The receipt or artifact a step number stands for: 0 is the record, 1 and 2
\* the staged receipts, 3 and 4 the published ones, 5..8 the persistence of
\* receipts 1..4 during the acceptance.
Step       == 0..8
NameOf(s)  == IF s > 4 THEN s - 4 ELSE s
KindOf(s)  == IF s \in {1, 3} THEN "image" ELSE "manifest"
StagedReceipt(k) == IF k = "image" THEN 1 ELSE 2

Pc == {"idle", "create", "fill", "flush", "flushroot", "stage", "write",
       "sync", "seal", "unlink", "cleanup", "publish", "rename", "syncfile",
       "syncdir", "check", "accept", "pairimage", "pairmanifest", "paircheck"}

IsFull(n)       == root[n].state = "full"
IdentityOf(i)   == [file |-> i, ver |-> inode[i].ver]
Exact(k, i)     == i # None /\ inode[i].data = k
PairExact       == \A k \in Kind : Exact(k, dir[k].final)

\* Inodes that nothing refers to: the file system may give one to a new file.
InUse == {dir[k][s] : k \in Kind, s \in Slot}
         \union {p[s] : p \in UNION {disk[k] : k \in Kind}, s \in Slot}
         \union {cap[k].file : k \in Kind}
         \union {r.id.file : r \in UNION {rdisk[n] : n \in RootName}}
Fresh == Inode \ InUse

\* A change of directory entries of kind k, not yet durable.
SetPair(k, p) == /\ dir'  = [dir EXCEPT ![k] = p]
                 /\ disk' = [disk EXCEPT ![k] = @ \union {p}]
\* New bytes or a new change time of file i, and the creation of file i.
Changed(i, d)  == [data |-> d, ver |-> inode[i].ver + 1]
SetFile(i, d)  == /\ inode' = [inode EXCEPT ![i] = Changed(i, d)]
                  /\ idisk' = [idisk EXCEPT ![i] = @ \union {Changed(i, d)}]
NewFile(i, d)  == /\ inode' = [inode EXCEPT ![i] = Changed(i, d)]
                  /\ idisk' = [idisk EXCEPT ![i] = {Changed(i, d)}]
SyncDir       == disk' = [k \in Kind |-> {dir[k]}] /\ UNCHANGED dir
SyncFile(i)   == idisk' = [idisk EXCEPT ![i] = {inode[i]}] /\ UNCHANGED inode
SetRoot(n, f) == /\ root'  = [root EXCEPT ![n] = f]
                 /\ rdisk' = [rdisk EXCEPT ![n] = @ \union {f}]

Goto(p, s) == pc' = p /\ step' = s

\* Where an attempt continues once the file of step s is durable.
Advance(s) ==
  \/ s < 2           /\ Goto("stage", s + 1)
  \/ s \in {2, 3}    /\ Goto("publish", s + 1)
  \/ s = 4           /\ Goto("accept", 4)
  \/ s \in 5..7      /\ Goto("flush", s + 1)
  \/ s = 8           /\ Goto("pairimage", 8)

\* The attempt is over; its descriptors and locks are dropped.
Stop == /\ Goto("idle", 0)
        /\ cap' = [k \in Kind |-> NoIdentity]
        /\ seen' = [k \in Kind |-> NoIdentity]

-----------------------------------------------------------------------------
Init ==
  /\ dir   = [k \in Kind |-> Empty]
  /\ disk  = [k \in Kind |-> {Empty}]
  /\ inode = [i \in Inode |-> [data |-> "partial", ver |-> 0]]
  /\ idisk = [i \in Inode |-> {[data |-> "partial", ver |-> 0]}]
  /\ root  = [n \in RootName |-> Absent]
  /\ rdisk = [n \in RootName |-> {Absent}]
  /\ pc = "idle" /\ step = 0
  /\ cap  = [k \in Kind |-> NoIdentity]
  /\ seen = [k \in Kind |-> NoIdentity]
  /\ own = {} /\ witness = FALSE /\ complete = FALSE
  /\ faults = 0 /\ losses = 0 /\ tampers = 0

\* OutputReservation::acquire: neither output exists, there is no record, and
\* the record is then created.
Acquire ==
  /\ pc = "idle"
  /\ root[0] = Absent
  /\ \A k \in Kind : dir[k].final = None
  /\ Goto("create", 0)
  /\ UNCHANGED <<dirVars, fileVars, rootVars, capVars, histVars, budget>>

\* OutputReservation::reopen: the record is complete and names this output.
Reopen ==
  /\ pc = "idle"
  /\ IsFull(0)
  /\ Goto("stage", 1)
  /\ UNCHANGED <<dirVars, fileVars, rootVars, capVars, histVars, budget>>

-----------------------------------------------------------------------------
\* create_record and create_receipt: create-only, then write, sync the file,
\* and sync the private root.  A receipt certifies the artifact held for its
\* kind.
CreateRootFile ==
  /\ pc = "create"
  /\ root[step] = Absent
  /\ SetRoot(step, Torn)
  /\ Goto("fill", step)
  /\ UNCHANGED <<dirVars, fileVars, capVars, histVars, budget>>

FillRootFile ==
  /\ pc = "fill"
  /\ SetRoot(step, Full(IF step = 0 THEN NoIdentity ELSE cap[KindOf(step)]))
  /\ Goto("flush", step)
  /\ UNCHANGED <<dirVars, fileVars, capVars, histVars, budget>>

\* sync_all on the file: its bytes are durable once its entry is.
FlushRootFile ==
  /\ pc = "flush"
  /\ rdisk' = [rdisk EXCEPT ![NameOf(step)] = @ \ {Torn}]
  /\ Goto("flushroot", step)
  /\ UNCHANGED <<dirVars, fileVars, root, capVars, histVars, budget>>

\* sync_all on the private root: every entry in it is durable.
FlushRoot ==
  /\ pc = "flushroot"
  /\ rdisk' = [n \in RootName |->
                 IF root[n] = Absent THEN {Absent} ELSE rdisk[n] \ {Absent}]
  /\ Advance(step)
  /\ UNCHANGED <<dirVars, fileVars, root, capVars, histVars, budget>>

-----------------------------------------------------------------------------
\* open_exact_artifact: the certified file is under exactly one of its two
\* names and has the exact bytes.
Candidate(k) == IF dir[k].stage # None THEN dir[k].stage ELSE dir[k].final

\* (mutant) the receipt's identity is not compared, only the bytes are.
ExactBytes(k) ==
  /\ (dir[k].stage = None) # (dir[k].final = None)
  /\ Exact(k, Candidate(k))

ExactArtifact(k) ==
  /\ (dir[k].stage = None) # (dir[k].final = None)
  /\ Candidate(k) = root[StagedReceipt(k)].id.file
  /\ Exact(k, Candidate(k))

\* ensure_staged with its receipt present.
AdoptStaged ==
  LET k == KindOf(step)
  IN /\ pc = "stage"
     /\ IsFull(step)
     /\ ExactArtifact(k)
     /\ cap' = [cap EXCEPT ![k] = IdentityOf(Candidate(k))]
     /\ Advance(step)
     /\ UNCHANGED <<dirVars, fileVars, rootVars, seen, histVars, budget>>

\* ensure_staged, no receipt: both names are free; O_EXCL creates the stage.
CreateStage ==
  LET k == KindOf(step)
  IN /\ pc = "stage"
     /\ root[step] = Absent
     /\ dir[k] = Empty
     /\ \E i \in Fresh :
          /\ SetPair(k, [stage |-> i, final |-> None])
          /\ NewFile(i, "partial")
          /\ cap' = [cap EXCEPT ![k] = [file |-> i, ver |-> inode[i].ver + 1]]
          /\ own' = own \union {i}
     /\ Goto("write", step)
     /\ UNCHANGED <<rootVars, seen, witness, complete, budget>>

\* The chunks are written through the descriptor, wherever its file is now.
WriteStage ==
  LET k == KindOf(step)
      i == cap[k].file
  IN /\ pc = "write"
     /\ SetFile(i, k)
     /\ Goto("sync", step)
     /\ UNCHANGED <<dirVars, rootVars, capVars, histVars, budget>>

SyncStage ==
  /\ pc = "sync"
  /\ SyncFile(cap[KindOf(step)].file)
  /\ Goto("seal", step)
  /\ UNCHANGED <<dirVars, rootVars, capVars, histVars, budget>>

\* The stage still is the descriptor's file and hashes to the exact bytes;
\* its identity now goes into the receipt.
StageIntact(k) == dir[k].stage = cap[k].file /\ Exact(k, cap[k].file)

SealStage ==
  LET k == KindOf(step)
  IN /\ pc = "seal"
     /\ StageIntact(k)
     /\ cap' = [cap EXCEPT ![k] = IdentityOf(cap[k].file)]
     /\ Goto("create", step)
     /\ UNCHANGED <<dirVars, fileVars, rootVars, seen, histVars, budget>>

\* (mutant) a cancellation after the receipt was written cleans up, too.
AbortReceipted ==
  LET k == KindOf(step)
  IN /\ pc \in {"write", "sync", "seal", "flush", "flushroot"}
     /\ step \in 1..2
     /\ faults < MaxFaults
     /\ faults' = faults + 1
     /\ dir[k].stage = cap[k].file
     /\ Goto("unlink", step)
     /\ UNCHANGED <<dirVars, fileVars, rootVars, capVars, histVars,
                    losses, tampers>>

\* A write or sync error or a cancellation before the receipt: in
\* cleanup_unreceipted the stage is still the file it created,
AbortStage ==
  LET k == KindOf(step)
  IN /\ pc \in {"write", "sync", "seal"}
     /\ faults < MaxFaults
     /\ faults' = faults + 1
     /\ dir[k].stage = cap[k].file
     /\ Goto("unlink", step)
     /\ UNCHANGED <<dirVars, fileVars, rootVars, capVars, histVars,
                    losses, tampers>>

\* and then whatever has the stage name is unlinked.
UnlinkStage ==
  LET k == KindOf(step)
  IN /\ pc = "unlink"
     /\ dir[k].stage # None
     /\ SetPair(k, [dir[k] EXCEPT !.stage = None])
     /\ Goto("cleanup", step)
     /\ UNCHANGED <<fileVars, rootVars, capVars, histVars, budget>>

FinishCleanup ==
  /\ pc = "cleanup"
  /\ SyncDir
  /\ Stop
  /\ UNCHANGED <<fileVars, rootVars, histVars, budget>>

-----------------------------------------------------------------------------
\* verify_published_artifact: the very identity the receipt names.
PublishedExact(k, n) == /\ Exact(k, dir[k].final)
                        /\ root[n].id = IdentityOf(dir[k].final)

\* verify_image_predecessor: receipts 1, 2 and 3 are complete, and the image
\* under its final name is the published one.
PredecessorVerified ==
  /\ \A n \in 1..3 : IsFull(n)
  /\ root[1].id.file = root[3].id.file
  /\ PublishedExact("image", 3)

\* publish_artifact with its receipt present.
SkipPublished ==
  /\ pc = "publish"
  /\ IsFull(step)
  /\ PublishedExact(KindOf(step), step)
  /\ Advance(step)
  /\ UNCHANGED <<dirVars, fileVars, rootVars, capVars, histVars, budget>>

\* publish_artifact, no receipt, the stage exists: rebind it, and before the
\* manifest verify the image.
RenameReady(k) ==
  /\ dir[k].final = None
  /\ dir[k].stage # None
  /\ IdentityOf(dir[k].stage) = cap[k]
  /\ k = "manifest" => PredecessorVerified

BeginRename ==
  /\ pc = "publish"
  /\ root[step] = Absent
  /\ RenameReady(KindOf(step))
  /\ Goto("rename", step)
  /\ UNCHANGED <<dirVars, fileVars, rootVars, capVars, histVars, budget>>

\* rename_noreplace: by name, atomically, and never over an existing file.
\* A rename changes the change time of the file.
RenameNoReplace ==
  LET k == KindOf(step)
      i == dir[k].stage
  IN /\ pc = "rename"
     /\ i # None
     /\ dir[k].final = None
     /\ SetPair(k, [stage |-> None, final |-> i])
     /\ SetFile(i, inode[i].data)
     /\ Goto("syncfile", step)
     /\ UNCHANGED <<rootVars, capVars, histVars, budget>>

\* (mutant) an artifact that is no longer staged is an error.
RefuseRenamed ==
  /\ pc = "publish"
  /\ root[step] = Absent
  /\ dir[KindOf(step)].stage = None
  /\ Stop
  /\ UNCHANGED <<dirVars, fileVars, rootVars, histVars, budget>>

\* publish_artifact, no receipt, already renamed by an earlier attempt.
AlreadyRenamed ==
  LET k == KindOf(step)
  IN /\ pc = "publish"
     /\ root[step] = Absent
     /\ dir[k].stage = None
     /\ dir[k].final # None
     /\ Goto("syncfile", step)
     /\ UNCHANGED <<dirVars, fileVars, rootVars, capVars, histVars, budget>>

\* (mutant) the receipt is written before the directory is synced.
SyncFileOnly ==
  /\ pc = "syncfile"
  /\ SyncFile(cap[KindOf(step)].file)
  /\ Goto("check", step)
  /\ UNCHANGED <<dirVars, rootVars, capVars, histVars, budget>>

SyncPublishedFile ==
  /\ pc = "syncfile"
  /\ SyncFile(cap[KindOf(step)].file)
  /\ Goto("syncdir", step)
  /\ UNCHANGED <<dirVars, rootVars, capVars, histVars, budget>>

\* (mutant) the directory sync is forgotten.
NoDirSync ==
  /\ pc = "syncdir"
  /\ Goto("check", step)
  /\ UNCHANGED <<dirVars, fileVars, rootVars, capVars, histVars, budget>>

SyncOutputDir ==
  /\ pc = "syncdir"
  /\ SyncDir
  /\ Goto("check", step)
  /\ UNCHANGED <<fileVars, rootVars, capVars, histVars, budget>>

\* The file under the final name is the held one with the exact bytes.
FinalIntact(k) == dir[k].final = cap[k].file /\ Exact(k, cap[k].file)

CheckPublished ==
  LET k == KindOf(step)
  IN /\ pc = "check"
     /\ FinalIntact(k)
     /\ cap' = [cap EXCEPT ![k] = IdentityOf(cap[k].file)]
     /\ Goto("create", step)
     /\ UNCHANGED <<dirVars, fileVars, rootVars, seen, histVars, budget>>

-----------------------------------------------------------------------------
\* verify_committed_pair: the whole chain, both published files, then every
\* receipt is made durable again (steps 5..8) before the pair is compared.
ChainVerified ==
  /\ PredecessorVerified
  /\ IsFull(4)
  /\ root[2].id.file = root[4].id.file
  /\ PublishedExact("manifest", 4)

\* (mutant) readable receipts are accepted without syncing them again.
AcceptReadable ==
  /\ pc = "accept"
  /\ ChainVerified
  /\ Goto("pairimage", 8)
  /\ UNCHANGED <<dirVars, fileVars, rootVars, capVars, histVars, budget>>

AcceptChain ==
  /\ pc = "accept"
  /\ ChainVerified
  /\ Goto("flush", 5)
  /\ UNCHANGED <<dirVars, fileVars, rootVars, capVars, histVars, budget>>

\* verify_complete_pair: hash the image, hash the manifest, then compare both
\* identities with what is there now.
Observe(k) ==
  /\ Exact(k, dir[k].final)
  /\ seen' = [seen EXCEPT ![k] = IdentityOf(dir[k].final)]
  /\ witness' = PairExact

HashImage ==
  /\ pc = "pairimage"
  /\ Observe("image")
  /\ Goto("pairmanifest", step)
  /\ UNCHANGED <<dirVars, fileVars, rootVars, cap, own, complete, budget>>

HashManifest ==
  /\ pc = "pairmanifest"
  /\ Observe("manifest")
  /\ Goto("paircheck", step)
  /\ UNCHANGED <<dirVars, fileVars, rootVars, cap, own, complete, budget>>

\* (mutant) the files are there; their identities are not compared again.
PairPresent == \A k \in Kind : dir[k].final # None

PairUnchanged ==
  \A k \in Kind : /\ dir[k].final # None
                  /\ seen[k] = IdentityOf(dir[k].final)

Complete ==
  /\ pc = "paircheck"
  /\ PairUnchanged
  /\ complete' = TRUE
  /\ Stop
  /\ UNCHANGED <<dirVars, fileVars, rootVars, own, witness, budget>>

-----------------------------------------------------------------------------
\* The running attempt finds one of its checks violated: it returns the error
\* and leaves every file as it is.
Violated ==
  LET k == KindOf(step)
  IN \/ pc = "create" /\ root[step] # Absent
     \/ pc = "stage" /\ ~ (IsFull(step) /\ ExactArtifact(k))
                     /\ ~ (root[step] = Absent /\ dir[k] = Empty)
     \/ pc = "seal" /\ ~ StageIntact(k)
     \/ pc = "unlink" /\ dir[k].stage = None
     \/ pc = "publish" /\ root[step] # Absent
                       /\ ~ (IsFull(step) /\ PublishedExact(k, step))
     \/ pc = "publish" /\ root[step] = Absent
                       /\ (dir[k].stage # None \/ dir[k].final = None)
                       /\ ~ RenameReady(k)
     \/ pc = "rename" /\ (dir[k].stage = None \/ dir[k].final # None)
     \/ pc = "check" /\ ~ FinalIntact(k)
     \/ pc = "accept" /\ ~ ChainVerified
     \/ pc = "pairimage" /\ ~ Exact("image", dir["image"].final)
     \/ pc = "pairmanifest" /\ ~ Exact("manifest", dir["manifest"].final)
     \/ pc = "paircheck" /\ ~ PairUnchanged

Refuse ==
  /\ Violated
  /\ Stop
  /\ UNCHANGED <<dirVars, fileVars, rootVars, histVars, budget>>

\* Any step of a running attempt may return an error and leave the files as
\* they are, and its process may be killed.
Fail ==
  /\ pc # "idle"
  /\ faults < MaxFaults
  /\ faults' = faults + 1
  /\ Stop
  /\ UNCHANGED <<dirVars, fileVars, rootVars, histVars, losses, tampers>>

\* Power loss: every object takes one of the values its disk may hold.
PowerLoss ==
  /\ losses < MaxLosses
  /\ losses' = losses + 1
  /\ \E pi \in disk["image"], pm \in disk["manifest"] :
        dir' = [k \in Kind |-> IF k = "image" THEN pi ELSE pm]
  /\ LET outcomes == {f \in [Inode -> UNION {idisk[i] : i \in Inode}] :
                        \A i \in Inode : f[i] \in idisk[i]}
     IN \E f \in outcomes : inode' = f
  /\ \E t \in rdisk[0] \X rdisk[1] \X rdisk[2] \X rdisk[3] \X rdisk[4] :
        root' = [n \in RootName |-> t[n + 1]]
  /\ disk'  = [k \in Kind |-> {dir'[k]}]
  /\ idisk' = [i \in Inode |-> {inode'[i]}]
  /\ rdisk' = [n \in RootName |-> {root'[n]}]
  /\ Stop
  /\ UNCHANGED <<histVars, faults, tampers>>

\* Another program puts a file of its own (perhaps with the same bytes) under
\* one of the names, removes a file, or rewrites one in place.
Tamper ==
  /\ tampers < MaxTampers
  /\ tampers' = tampers + 1
  /\ UNCHANGED <<rootVars, pc, step, capVars, witness, complete,
                 faults, losses>>

Place(k, s) ==
  /\ Tamper
  /\ \E i \in Fresh, d \in {"foreign", k} :
       /\ SetPair(k, [dir[k] EXCEPT ![s] = i])
       /\ NewFile(i, d)
       /\ own' = own \ {i}

Remove(k, s) ==
  /\ Tamper
  /\ dir[k][s] # None
  /\ SetPair(k, [dir[k] EXCEPT ![s] = None])
  /\ UNCHANGED <<fileVars, own>>

Rewrite(k, s) ==
  /\ Tamper
  /\ dir[k][s] # None
  /\ SetFile(dir[k][s], "foreign")
  /\ UNCHANGED <<dirVars, own>>

-----------------------------------------------------------------------------
Attempt ==
  \/ Acquire \/ Reopen
  \/ CreateRootFile \/ FillRootFile \/ FlushRootFile \/ FlushRoot
  \/ AdoptStaged \/ CreateStage \/ WriteStage \/ SyncStage \/ SealStage
  \/ UnlinkStage \/ FinishCleanup
  \/ SkipPublished \/ BeginRename \/ RenameNoReplace \/ AlreadyRenamed
  \/ SyncPublishedFile \/ SyncOutputDir \/ CheckPublished
  \/ AcceptChain \/ HashImage \/ HashManifest \/ Complete
  \/ Refuse

External == \E k \in Kind, s \in Slot : Place(k, s) \/ Remove(k, s) \/ Rewrite(k, s)

Next == Attempt \/ AbortStage \/ Fail \/ PowerLoss \/ External

Spec == Init /\ [][Next]_vars

\* The caller keeps retrying, and a running attempt is scheduled.
FairSpec == Spec /\ WF_vars(Attempt)

-----------------------------------------------------------------------------
\* Every variable holds a value of its type, and what a system call observes
\* is always one of the values a power loss may leave.
TypeOK ==
  /\ dir \in [Kind -> Pair] /\ disk \in [Kind -> SUBSET Pair]
  /\ inode \in [Inode -> FileState] /\ idisk \in [Inode -> SUBSET FileState]
  /\ root \in [RootName -> RootFile] /\ rdisk \in [RootName -> SUBSET RootFile]
  /\ pc \in Pc /\ step \in Step
  /\ cap \in [Kind -> Identity \union {NoIdentity}]
  /\ seen \in [Kind -> Identity \union {NoIdentity}]
  /\ own \subseteq Inode /\ witness \in BOOLEAN /\ complete \in BOOLEAN
  /\ faults \in Nat /\ losses \in Nat /\ tampers \in Nat
  /\ \A k \in Kind : dir[k] \in disk[k]
  /\ \A i \in Inode : inode[i] \in idisk[i]
  /\ \A n \in RootName : root[n] \in rdisk[n]

Untouched == tampers = 0

\* Image first, manifest last: as long as no other program writes to the
\* output directory, whatever survives a power loss at this instant, a visible
\* manifest is complete and stands beside the complete image it describes.
ImageBeforeManifest ==
  Untouched =>
    \A p \in disk["manifest"] : p.final # None =>
      /\ \A f \in idisk[p.final] : f.data = "manifest"
      /\ \A q \in disk["image"] :
           q.final # None /\ \A f \in idisk[q.final] : f.data = "image"

\* Completion is durable: after some attempt returned Complete, no power loss
\* can lose a receipt or either file of the pair, or any byte of them.
CompletionDurable ==
  Untouched /\ complete =>
    /\ \A n \in 1..4 : \A r \in rdisk[n] : r.state = "full"
    /\ \A k \in Kind : \A p \in disk[k] :
         p.final # None /\ \A f \in idisk[p.final] : f.data = k

\* A published receipt is durable evidence: in whatever a power loss leaves, a
\* complete receipt 3 or 4 names a file that is durably under its final name.
ReceiptMeansPublished ==
  Untouched =>
    \A n \in 3..4 : \A r \in rdisk[n] : r.state = "full" =>
      \A p \in disk[KindOf(n)] : p.final = r.id.file

\* Recovery advances only what the transaction itself created: a complete
\* receipt never names a file another program put there, whatever that
\* program does between the steps.
ReceiptsNameOwnFiles ==
  \A n \in 1..4 : IsFull(n) => root[n].id.file \in own

\* No step of the transaction removes or replaces a file that another program
\* put under one of the final names, nor deletes a file that a staged receipt
\* certifies: it stays under its stage name or moves to its final name.
FilesKept ==
  UNCHANGED <<losses, tampers>> =>
    \A k \in Kind :
      /\ dir[k].final # None /\ dir[k].final \notin own
           => dir'[k].final = dir[k].final
      /\ LET i == root[StagedReceipt(k)].id.file
         IN IsFull(StagedReceipt(k)) /\ i \in {dir[k].stage, dir[k].final}
              => i \in {dir'[k].stage, dir'[k].final}

\* A receipt certifies only a file the transaction made, and no step deletes a
\* file of another program or one that a receipt certifies.
CertifiedKept == [][ReceiptsNameOwnFiles' /\ FilesKept]_vars

\* The last check is conclusive: Complete is returned only if there was an
\* instant during the acceptance at which both files were in place with the
\* exact bytes, even while another program keeps changing them.
CompleteWitnessed == [][Complete => witness]_vars

\* The residue the code preserves for explicit maintenance: a torn record or
\* receipt, a staged or published file without its receipt, an output that is
\* there without a record, and a receipt whose file is not the certified one.
Residue ==
  \/ \E n \in RootName : root[n] = Torn
  \/ root[0] = Absent /\ \E k \in Kind : dir[k].final # None
  \/ \E k \in Kind :
       IF IsFull(StagedReceipt(k)) THEN ~ ExactArtifact(k) ELSE dir[k] # Empty
  \/ \E n \in 3..4 : IsFull(n) /\ ~ PublishedExact(KindOf(n), n)

\* Retrying converges: after finitely many errors, kills and power losses
\* either the pair is completed or the state is one of the
\* documented residues; there is no other state in which every retry fails.
Converges == <>[](complete \/ Residue)

\* The transaction implements OutputPair while no other program interferes: a
\* file that is not exact counts as none of its values, so it may not appear.
Visible ==
  CASE dir["image"].final = None /\ dir["manifest"].final = None -> "none"
    [] Exact("image", dir["image"].final) /\ dir["manifest"].final = None
         -> "image"
    [] PairExact -> "pair"
    [] OTHER     -> "broken"

Abstract == INSTANCE OutputPair WITH out <- Visible, acked <- complete
ImplementsOutputPair == Abstract!Spec
=============================================================================
